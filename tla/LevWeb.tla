------------------------------- MODULE LevWeb -------------------------------
(***************************************************************************)
(* One connection of web.createServer (lib/lev/web.lua): the HTTP parser   *)
(* binding (lhttp_parser.c), the request and the response it keeps for the *)
(* connection, and the program that answers.                               *)
(*                                                                         *)
(* The parser itself (http_parser) is not in the repository and is         *)
(* modelled from the order of its callbacks.  What the client sends is a   *)
(* stream of elements that reads cut anywhere; what the server sends is a  *)
(* stream of tokens (a head, a chunk, the last chunk, data).  A Lua error  *)
(* or a failed assertion ends the worker.                                  *)
(***************************************************************************)
EXTENDS Integers, Sequences

CONSTANTS
  MaxRequests,  \* bound on the requests a client sends
  MaxBody,      \* bound on the pieces of a body, and of raw data
  MaxWrites,    \* bound on response.write for one request
  Modes,        \* how clients and programs behave, see below
  Awkward       \* what they do beyond that

(***************************************************************************)
(* "sequential": the client waits for an answer before it asks again, and  *)
(* the program answers at any time, but finishes a complete request only.  *)
(* "pipelined": the client does not wait, sends no bodies, and the program *)
(* answers before onRequest returns.                                       *)
(* Awkward: "abort", the client leaves in the middle of a request; "late", *)
(* fin is called when the client may have asked again; "early", a request  *)
(* is finished before its body is complete, or by the onData that is given *)
(* the last piece of it; "eager", raw data follow an upgrade request at    *)
(* once; "deaf", a client upgrades a server without onData; "unflushed", a *)
(* bottled response of a given length ends without a chunk, or a bottled   *)
(* head is all the answer; "bare", fin() is all the answer; "split", a     *)
(* read cuts a header value although other requests follow it.             *)
(***************************************************************************)
ASSUME WebAssumption ==
  /\ MaxRequests \in Nat \ {0} /\ MaxBody \in Nat /\ MaxWrites \in Nat
  /\ Modes \subseteq {"sequential", "pipelined"} /\ Modes # {}
  /\ Awkward \subseteq {"abort", "late", "early", "eager", "deaf", "unflushed", "bare", "split"}

VARIABLES
  mode,    \* one of Modes
  cl,      \* the client: reqs, what it asked for; n, the elements sent; gone
  input,   \* the elements in the socket
  buf,     \* the rest of the chunk that execute works on
  at,      \* "loop", "parse", "onRequest" or "onData": where Lua is
  parser,  \* the http_parser
  s,       \* the connection: the upvalues of createServer and the lev.tcp
  todo,    \* the requests the program has still to finish, oldest first
  seen     \* how many elements have reached the program

vars == <<mode, cl, input, buf, at, parser, s, todo, seen>>

Requests == 1 .. MaxRequests

(* The length of a response that is sent in chunks. *)
Chunked == -1

El(r, kind, body) == [r |-> r, kind |-> kind, body |-> body]
Token(r, kind, n) == [r |-> r, kind |-> kind, n |-> n]

(* The elements of a request: of the end of its head and of each piece of  *)
(* its body, body says how many pieces are to come.  The URL and the value *)
(* of the connection header can be cut by the end of a read.               *)
Stream(r, q) ==
  <<El(r, "url1", 0), El(r, "url2", 0)>>
  \o (IF q.conn = "keep" THEN <<El(r, "value1", 0), El(r, "value2", 0)>> ELSE <<>>)
  \o <<El(r, IF q.conn = "upgrade" THEN "upgrade" ELSE "end", q.body)>>
  \o [i \in 1 .. q.body |-> El(r, "data", q.body - i)]

-----------------------------------------------------------------------------
(* lhttp_parser.c *)

lhttp_parser_new == [state |-> "start", left |-> 0]
lhttp_parser_reinitialize(p) == lhttp_parser_new

(* In the middle of a message http_parser reports an invalid end; after an *)
(* error it reports nothing.                                               *)
finish_raises(p) == p.state \in {"url", "headers", "body"}

(* http_parser takes an element it expects and fails on any other. *)
Expected(p, kind) ==
  kind \in CASE p.state = "start" -> {"url1"}
             [] p.state = "url" -> {"url2"}
             [] p.state = "headers" -> {"value1", "value2", "end", "upgrade"}
             [] p.state = "body" -> {"data"}
             [] p.state = "error" -> {}

-----------------------------------------------------------------------------
(* lev.tcp as web.lua uses it; LevTcp has the details. *)

(* A token stands for any number of calls of client:write.                 *)
bottle(c) == [c EXCEPT !.bottled = TRUE]

client_write(c, token, flush) ==
  LET bottled == c.bottled /\ ~flush
      q       == Append(c.wreq, token)
  IN [c EXCEPT !.bottled = bottled,
               !.wreq = IF bottled THEN q ELSE <<>>,
               !.wire = IF bottled \/ c.conn = "closed" THEN @ ELSE @ \o q]

(* The reference is given back, lev_handle_unref asserts that it was there *)
(* to give, and on_close finishes the parser p.                            *)
tcp_after_close(c, p) ==
  [c EXCEPT !.refs = @ - 1, !.alive = @ /\ c.refs > 0 /\ ~finish_raises(p)]

(* From uv_close on the handle has no descriptor: a close of it comes to   *)
(* tcp_after_close at once.                                                *)
client_close(c, p) ==
  IF c.conn = "closed" THEN tcp_after_close(c, p) ELSE [c EXCEPT !.conn = "shutting"]

-----------------------------------------------------------------------------
(* The parser's callbacks in web.lua. *)

onMessageBegin(c) == [c EXCEPT !.connection = "none", !.upgrade = FALSE]

(* A value that comes in two pieces is stored twice. *)
onHeaderValue(c, value) == [c EXCEPT !.connection = value]

NewResponse == [headers_sent |-> FALSE, chunked_encoding |-> TRUE]

(* Faulty variant: one response for all requests of a connection. *)
onHeadersComplete_once(c, upgrade) == [c EXCEPT !.upgrade = upgrade]

(* Faulty variant: request.upgrade is not set. *)
onHeadersComplete_plain(c, upgrade) == [c EXCEPT !.response = NewResponse]

onHeadersComplete(c, upgrade) == [c EXCEPT !.upgrade = upgrade, !.response = NewResponse]

-----------------------------------------------------------------------------
(***************************************************************************)
(* The methods of a response.  All of them use the upvalues response and   *)
(* request, whichever response object they are called on; r is the request *)
(* the program means to answer.                                            *)
(***************************************************************************)
writeHead(c, r, length) ==
  IF c.response.headers_sent
    THEN [c EXCEPT !.alive = FALSE]  \* error("headers already sent")
    ELSE [client_write(bottle(c), Token(r, "head", length), ~c.bottled) EXCEPT
            !.response = [headers_sent |-> TRUE,
                          chunked_encoding |-> @.chunked_encoding /\ length = Chunked]]

(* Faulty variant: the head is sent before every chunk. *)
write_heads(c, r) ==
  LET c1 == writeHead(bottle(c), r, Chunked)
  IN client_write(c1, Token(r, IF c1.response.chunked_encoding THEN "chunk" ELSE "data", 0),
                  ~c.bottled)

write(c, r) ==
  LET c0 == bottle(c)
      c1 == IF c0.response.headers_sent THEN c0 ELSE writeHead(c0, r, Chunked)
  IN client_write(c1, Token(r, IF c1.response.chunked_encoding THEN "chunk" ELSE "data", 0),
                  ~c.bottled)

(* Faulty variants of the body of fin: the last chunk is forgotten when    *)
(* fin has one of its own; it is written but not flushed.                  *)
fin_body_open(c, r, chunk) ==
  CASE chunk /\ c.response.chunked_encoding -> write(c, r)
    [] chunk /\ ~c.response.chunked_encoding -> client_write(c, Token(r, "data", 0), TRUE)
    [] ~chunk /\ c.response.chunked_encoding -> client_write(c, Token(r, "last", 0), TRUE)
    [] OTHER -> c

fin_body_kept(c, r, chunk) ==
  CASE chunk /\ c.response.chunked_encoding ->
         client_write(write(bottle(c), r), Token(r, "last", 0), FALSE)
    [] chunk /\ ~c.response.chunked_encoding -> client_write(c, Token(r, "data", 0), TRUE)
    [] ~chunk /\ c.response.chunked_encoding -> client_write(c, Token(r, "last", 0), TRUE)
    [] OTHER -> c

fin_body(c, r, chunk) ==
  CASE chunk /\ c.response.chunked_encoding ->
         client_write(write(bottle(c), r), Token(r, "last", 0), TRUE)
    [] chunk /\ ~c.response.chunked_encoding -> client_write(c, Token(r, "data", 0), TRUE)
    [] ~chunk /\ c.response.chunked_encoding -> client_write(c, Token(r, "last", 0), TRUE)
    [] OTHER -> c

KeepAlive(c) == c.connection = "keep-alive"

fin(c, r, chunk, p) ==
  IF KeepAlive(c) THEN fin_body(c, r, chunk) ELSE client_close(fin_body(c, r, chunk), p)

fin_parser(c, p) == IF KeepAlive(c) THEN lhttp_parser_reinitialize(p) ELSE p

-----------------------------------------------------------------------------
(* The program: it answers the oldest request it has not finished. *)

(* A request it has been given: what it announced and how much is left. *)
Given(r, body) == [r |-> r, body |-> body, framing |-> "none", left |-> 0, wrote |-> 0]

MayCall ==
  /\ s.alive /\ todo # <<>>
  /\ at = "onData" => s.onData
  /\ \/ at = "onRequest"
     \/ at \in {"onData", "loop"} /\ (mode = "sequential" \/ "late" \in Awkward)

Complete ==
  \/ todo[1].body = 0
  \/ at = "loop" /\ parser.state = "start"
  \/ "early" \in Awkward

(* The answer of a given length is written: the client may ask again, so   *)
(* the program calls fin in the same turn, with nothing left to flush.     *)
Settled == todo # <<>> /\ todo[1].framing = "length" /\ todo[1].left = 0
MaySettle == Complete /\ (s.bottled => "unflushed" \in Awkward)

prog_bottle ==
  /\ MayCall /\ ~s.bottled /\ ~Settled
  /\ s' = bottle(s)
  /\ UNCHANGED <<mode, cl, input, buf, at, parser, todo, seen>>

(* The answer to an upgrade request is its head. *)
prog_writeHead(length) ==
  /\ MayCall /\ todo[1].framing = "none"
  /\ s.upgrade /\ s.bottled => "unflushed" \in Awkward
  /\ length = 0 => MaySettle
  /\ s' = writeHead(s, todo[1].r, length)
  /\ todo' = IF s.upgrade THEN Tail(todo)
             ELSE [todo EXCEPT ![1].framing = IF length = Chunked THEN "chunked" ELSE "length",
                               ![1].left = length]
  /\ UNCHANGED <<mode, cl, input, buf, at, parser, seen>>

prog_write ==
  /\ MayCall /\ todo[1].wrote < MaxWrites /\ ~s.upgrade
  /\ todo[1].framing = "length" => ~Settled /\ MaySettle
  /\ s' = write(s, todo[1].r)
  /\ todo' = [todo EXCEPT ![1].framing = IF @ = "none" THEN "chunked" ELSE @, ![1].wrote = @ + 1,
                          ![1].left = IF todo[1].framing = "length" THEN @ - 1 ELSE @]
  /\ UNCHANGED <<mode, cl, input, buf, at, parser, seen>>

prog_fin(chunk) ==
  /\ MayCall /\ Complete
  /\ todo[1].framing = "length" => todo[1].left = (IF chunk THEN 1 ELSE 0)
  /\ todo[1].framing = "none" /\ ~chunk => "bare" \in Awkward
  /\ s' = fin(s, todo[1].r, chunk, parser)
  /\ parser' = fin_parser(s, parser)
  /\ todo' = Tail(todo)
  /\ UNCHANGED <<mode, cl, input, buf, at, seen>>

simpleJSON ==
  /\ MayCall /\ Complete /\ todo[1].framing = "none"
  /\ s' = fin(writeHead(s, todo[1].r, 1), todo[1].r, TRUE, parser)
  /\ parser' = fin_parser(s, parser)
  /\ todo' = Tail(todo)
  /\ UNCHANGED <<mode, cl, input, buf, at, seen>>

Calls ==
  \/ prog_bottle
  \/ \E length \in {Chunked, 0, 1} : prog_writeHead(length)
  \/ prog_write
  \/ \E chunk \in BOOLEAN : prog_fin(chunk)
  \/ simpleJSON

-----------------------------------------------------------------------------
(* The handler given to read_start: an upgraded connection's data go to    *)
(* onData, if there is one, everything else to the parser.                 *)
on_read ==
  /\ s.alive /\ at = "loop" /\ s.conn = "open"
  /\ \E k \in 1 .. Len(input) :
       /\ input[k].kind = "value1" => mode = "sequential" \/ "split" \in Awkward
       /\ input' = SubSeq(input, k + 1, Len(input))
       /\ IF s.upgrade /\ s.onData
            THEN at' = "onData" /\ seen' = seen + k /\ UNCHANGED buf
            ELSE at' = "parse" /\ buf' = SubSeq(input, 1, k) /\ UNCHANGED seen
  /\ UNCHANGED <<mode, cl, parser, s, todo>>

(* After k elements, execute goes on with the rest of the chunk. *)
GoesOn(k) == IF Len(buf) = k THEN "loop" ELSE "parse"

(* Both halves of a URL in one chunk are one call of onUrl.  parseUrl      *)
(* takes a URL that is plain and refuses the others (of CONNECT, or with a *)
(* port above 65535); of a half it may do either.                          *)
UrlPieces == IF Len(buf) > 1 /\ buf[1].kind = "url1" THEN 2 ELSE 1

AtUrl(url) ==
  buf[1].kind \in {"url1", "url2"} /\ (UrlPieces = 2 => cl.reqs[buf[1].r].url = url)

execute_url ==
  /\ AtUrl("plain")
  /\ s' = IF buf[1].kind = "url1" THEN onMessageBegin(s) ELSE s
  /\ parser' = [state |-> IF UrlPieces = 1 /\ buf[1].kind = "url1" THEN "url" ELSE "headers",
                left |-> 0]
  /\ buf' = SubSeq(buf, UrlPieces + 1, Len(buf)) /\ seen' = seen + UrlPieces
  /\ at' = GoesOn(UrlPieces)
  /\ UNCHANGED todo

(* parseUrl raises an error, and nobody catches it. *)
execute_refused_url ==
  /\ AtUrl("refused")
  /\ s' = [s EXCEPT !.alive = FALSE]
  /\ UNCHANGED <<buf, at, parser, todo, seen>>

(* It is the same with a value. *)
execute_value ==
  LET k == IF Len(buf) > 1 /\ buf[1].kind = "value1" THEN 2 ELSE 1
  IN /\ buf[1].kind \in {"value1", "value2"}
     /\ s' = onHeaderValue(s, IF k = 2 THEN "keep-alive" ELSE "piece")
     /\ buf' = SubSeq(buf, k + 1, Len(buf)) /\ seen' = seen + k /\ at' = GoesOn(k)
     /\ UNCHANGED <<parser, todo>>

execute_headers ==
  /\ buf[1].kind \in {"end", "upgrade"}
  /\ s' = onHeadersComplete(s, buf[1].kind = "upgrade")
  /\ parser' = [parser EXCEPT !.left = buf[1].body]
  /\ todo' = Append(todo, Given(buf[1].r, buf[1].body))
  /\ buf' = Tail(buf) /\ seen' = seen + 1 /\ at' = "onRequest"

execute_body ==
  /\ buf[1].kind = "data"
  /\ parser' = [parser EXCEPT !.left = @ - 1]
  /\ buf' = Tail(buf) /\ seen' = seen + 1 /\ at' = "onData"
  /\ UNCHANGED <<s, todo>>

(* On an error the rest of the chunk is not looked at, and nobody looks at *)
(* the number of bytes that were parsed.                                   *)
lhttp_parser_execute ==
  /\ s.alive /\ at = "parse"
  /\ IF Expected(parser, buf[1].kind)
       THEN execute_url \/ execute_refused_url \/ execute_value \/ execute_headers \/ execute_body
       ELSE /\ parser' = [parser EXCEPT !.state = "error"] /\ buf' = <<>> /\ at' = "loop"
            /\ UNCHANGED <<s, todo, seen>>
  /\ UNCHANGED <<mode, cl, input>>

(* onRequest or onData returns to http_parser.  A parser reinitialized by  *)
(* the callback starts anew, in the middle of what it was parsing; after   *)
(* an upgrade request the rest of the chunk is not parsed.                 *)
Resumed ==
  CASE at = "onRequest" /\ parser.state = "headers" ->
         [parser EXCEPT !.state = IF parser.left > 0 THEN "body" ELSE "start"]
    [] at = "onData" /\ parser.state = "body" ->
         [parser EXCEPT !.state = IF parser.left > 0 THEN "body" ELSE "start"]
    [] at = "onData" /\ parser.state = "start" /\ ~s.upgrade -> [parser EXCEPT !.state = "error"]
    [] OTHER -> parser

callback_returns ==
  /\ s.alive /\ at \in {"onRequest", "onData"}
  /\ mode = "pipelined" /\ at = "onRequest" => todo = <<>> \/ "late" \in Awkward
  /\ parser' = Resumed
  /\ buf' = IF s.upgrade \/ Resumed.state = "error" THEN <<>> ELSE buf
  /\ at' = IF buf' = <<>> THEN "loop" ELSE "parse"
  /\ UNCHANGED <<mode, cl, input, s, todo, seen>>

(* nread = -1 in lev.tcp: the connection is shut down. *)
on_eof ==
  /\ s.alive /\ at = "loop" /\ s.conn = "open"
  /\ cl.gone /\ input = <<>>
  /\ s' = client_close(s, parser)
  /\ UNCHANGED <<mode, cl, input, buf, at, parser, todo, seen>>

(* Everything is written: uv_close. *)
after_shutdown ==
  /\ s.alive /\ at = "loop" /\ s.conn = "shutting"
  /\ s' = [s EXCEPT !.conn = "closed", !.closing = TRUE]
  /\ UNCHANGED <<mode, cl, input, buf, at, parser, todo, seen>>

on_close ==
  /\ s.alive /\ at = "loop" /\ s.closing
  /\ s' = tcp_after_close([s EXCEPT !.closing = FALSE], parser)
  /\ UNCHANGED <<mode, cl, input, buf, at, parser, todo, seen>>

-----------------------------------------------------------------------------
(* The client. *)
(* The i-th token of w is the last one of a response, as its head says. *)
Ends(w, i) ==
  \/ w[i].kind = "last"
  \/ \E h \in 1 .. i : w[h].kind = "head" /\ w[h].r = w[i].r /\ w[h].n = i - h

Whole(w, r) == \E i \in 1 .. Len(w) : w[i].r = r /\ Ends(w, i)

(* The answer to an upgrade request is its head. *)
Answered(r) ==
  \/ Whole(s.wire, r)
  \/ (\E i \in 1 .. Len(s.wire) : s.wire[i].r = r) /\ cl.reqs[r].conn = "upgrade"

send(q) ==
  LET n == Len(cl.reqs)
  IN /\ s.alive /\ ~cl.gone /\ s.conn = "open" /\ n < MaxRequests
     /\ n > 0 => cl.reqs[n].conn = "keep" /\ (mode = "sequential" => Answered(n))
     /\ mode = "pipelined" => q.body = 0 /\ q.conn # "upgrade"
     /\ q.conn = "upgrade" => q.body = 0 /\ (s.onData \/ "deaf" \in Awkward)
     /\ cl' = [cl EXCEPT !.reqs = Append(@, q), !.n = @ + Len(Stream(n + 1, q))]
     /\ input' = input \o Stream(n + 1, q)
     /\ UNCHANGED <<mode, buf, at, parser, s, todo, seen>>

send_raw ==
  LET n == Len(cl.reqs)
  IN /\ s.alive /\ ~cl.gone /\ s.conn = "open"
     /\ n > 0 /\ cl.reqs[n].conn = "upgrade" /\ cl.raw < MaxBody
     /\ Answered(n) \/ "eager" \in Awkward
     /\ cl' = [cl EXCEPT !.n = @ + 1, !.raw = @ + 1]
     /\ input' = Append(input, El(n, "raw", 0))
     /\ UNCHANGED <<mode, buf, at, parser, s, todo, seen>>

(* The client closes its end, or is lost: what was on its way may be cut. *)
leave ==
  /\ ~cl.gone
  /\ \E k \in 0 .. Len(input) :
       /\ k < Len(input) => "abort" \in Awkward
       /\ input' = SubSeq(input, 1, k)
       /\ cl' = [cl EXCEPT !.gone = TRUE, !.cut = k < Len(input)]
  /\ UNCHANGED <<mode, buf, at, parser, s, todo, seen>>

-----------------------------------------------------------------------------
Init ==
  /\ mode \in Modes
  /\ cl = [reqs |-> <<>>, n |-> 0, raw |-> 0, gone |-> FALSE, cut |-> FALSE]
  /\ input = <<>> /\ buf = <<>> /\ at = "loop"
  /\ parser = lhttp_parser_new
  /\ \E onData \in BOOLEAN :
       s = [conn |-> "open", bottled |-> FALSE, wreq |-> <<>>, wire |-> <<>>, alive |-> TRUE,
            connection |-> "none", upgrade |-> FALSE, response |-> NewResponse,
            refs |-> 1, closing |-> FALSE, onData |-> onData]
  /\ todo = <<>> /\ seen = 0

Asked == [conn : {"none", "keep", "upgrade"}, body : 0 .. MaxBody, url : {"plain", "refused"}]

Server ==
  /\ Settled => "late" \in Awkward
  /\ on_read \/ lhttp_parser_execute \/ callback_returns \/ on_eof \/ after_shutdown \/ on_close

Next == Server \/ Calls \/ (\E q \in Asked : send(q)) \/ send_raw \/ leave

Spec == Init /\ [][Next]_vars

(* libuv reports what happens, the parser goes through its chunk, and the  *)
(* program answers every request it is given.                              *)
FairSpec == Spec /\ WF_vars(Server) /\ WF_vars(Calls)

-----------------------------------------------------------------------------
(* The i-th token of w is where it belongs: all responses to earlier       *)
(* requests are whole, and it begins a response, or goes on with the one   *)
(* before it in the framing that its head announced.                       *)
Goes(w, i) ==
  LET before == w[i - 1]
  IN CASE w[i].kind \in {"chunk", "last"} ->
            before.kind = "chunk" \/ (before.kind = "head" /\ before.n = Chunked)
       [] w[i].kind = "data" ->
            before.kind = "data" \/ (before.kind = "head" /\ before.n > 0)

Placed(w, i) ==
  /\ \A r \in 1 .. w[i].r - 1 : \E j \in 1 .. i - 1 : w[j].r = r /\ Ends(w, j)
  /\ IF w[i].kind = "head"
       THEN i > 1 => w[i - 1].r < w[i].r
       ELSE i > 1 /\ w[i - 1].r = w[i].r /\ ~Ends(w, i - 1) /\ Goes(w, i)

(* What the server has sent and bottled is a sequence of HTTP responses,   *)
(* one for each request, in their order: each starts with its head, is     *)
(* framed as the head says, and is whole before the next one begins,       *)
(* although all of them use one pair of upvalues and one bottle.           *)
WellFramed ==
  LET w == s.wire \o s.wreq
  IN s.conn # "closed" => \A i \in 1 .. Len(w) : Placed(w, i)

(* fin leaves nothing in the bottle: when the program has finished all it  *)
(* was given, every request it was given has been answered in full.        *)
NothingLeftBottled ==
  todo = <<>> /\ s.alive /\ s.conn = "open" =>
    /\ s.wreq = <<>>
    /\ at = "loop" /\ parser.state = "start" /\ input = <<>> =>
         \A r \in 1 .. Len(cl.reqs) : cl.cut \/ Answered(r)

(* Every element the client sent has reached the program or is still to be *)
(* read: the parser neither stops nor loses its place, and the data of an  *)
(* upgraded connection are not parsed.                                     *)
NothingIsSkipped ==
  s.alive /\ s.conn = "open" /\ ~cl.cut => cl.n = seen + Len(buf) + Len(input)

(* parseUrl has refused what onUrl was given. *)
UrlRefused == ~s.alive /\ at = "parse" /\ AtUrl("refused")

(* The worker, which serves many other clients, outlives the connection:   *)
(* no answer raises an error or fails an assertion, but in three cases.  A *)
(* client leaves in the middle of a request, and parser:finish raises; its *)
(* URL is cut by a read or is not plain, and parseUrl raises; it leaves    *)
(* before it is answered, and fin closes a handle that uv_close has been   *)
(* called for: a reference is given back twice.                            *)
WorkerSurvives == s.alive \/ cl.cut \/ UrlRefused \/ (cl.gone /\ s.refs < 0)

(* A request is answered in full, unless its client leaves, parseUrl takes *)
(* the worker down, or the server closes the connection after an earlier   *)
(* answer.                                                                 *)
RequestsAreAnswered ==
  \A r \in Requests :
    Len(cl.reqs) = r ~> Answered(r) \/ cl.gone \/ UrlRefused \/ s.conn = "closed"
=============================================================================
