---------------------------- MODULE LevWebProofs ----------------------------
(***************************************************************************)
(* What holds of a connection of web.createServer for any number of        *)
(* requests, pieces of bodies and writes, in programs and with clients     *)
(* that are awkward in no other way than that a client may leave in the    *)
(* middle of a request.  URLs are of any kind and may be cut.              *)
(*                                                                         *)
(* Rest is what the parser has not seen yet, Out what the program has      *)
(* written, and Current the request both have reached.  Script says that   *)
(* Rest is the end of a well-formed stream of requests, Position that the  *)
(* parser is where Rest goes on, Turn who may be ahead of whom, and        *)
(* Framing that Out ends where the program's answer has got to.            *)
(***************************************************************************)
EXTENDS LevWeb, TLAPS, SequenceTheorems

Elements ==
  [r : Nat, body : Nat,
   kind : {"url1", "url2", "value1", "value2", "end", "upgrade", "data", "raw"}]
Tokens == [r : Nat, kind : {"head", "chunk", "last", "data"}, n : {Chunked, 0, 1}]
Responses == [headers_sent : BOOLEAN, chunked_encoding : BOOLEAN]
Connections ==
  [conn : {"open", "shutting", "closed"}, bottled : BOOLEAN, wreq : Seq(Tokens),
   wire : Seq(Tokens), alive : BOOLEAN, connection : {"none", "piece", "keep-alive"},
   upgrade : BOOLEAN, response : Responses, refs : Int, closing : BOOLEAN, onData : BOOLEAN]
Parsers == [state : {"start", "url", "headers", "body", "error"}, left : Int]
Answers ==
  [r : Nat, body : Nat, framing : {"none", "chunked", "length"}, left : Int, wrote : Nat]
Clients == [reqs : Seq(Asked), n : Nat, raw : Nat, gone : BOOLEAN, cut : BOOLEAN]

Types ==
  /\ mode \in {"sequential", "pipelined"}
  /\ cl \in Clients
  /\ input \in Seq(Elements) /\ buf \in Seq(Elements)
  /\ at \in {"loop", "parse", "onRequest", "onData"}
  /\ parser \in Parsers
  /\ s \in Connections
  /\ todo \in Seq(Answers) /\ seen \in Nat

Rest == buf \o input
Out == s.wire \o s.wreq

(* The request that the program is answering, or has answered last. *)
Current ==
  IF todo # <<>> THEN todo[1].r ELSE IF Out = <<>> THEN 0 ELSE Out[Len(Out)].r

-----------------------------------------------------------------------------
(* What the client has asked. *)
Asking ==
  /\ cl.cut => cl.gone
  /\ \A n \in 1 .. Len(cl.reqs) :
       /\ n < Len(cl.reqs) => cl.reqs[n].conn = "keep"
       /\ mode = "pipelined" => cl.reqs[n].body = 0 /\ cl.reqs[n].conn # "upgrade"
       /\ cl.reqs[n].conn = "upgrade" => cl.reqs[n].body = 0 /\ s.onData

(* An element of one of the requests in reqs; raw says that there are data *)
(* behind the last.                                                        *)
Belongs(reqs, raw, e) ==
  /\ e.r \in 1 .. Len(reqs)
  /\ e.kind \in {"value1", "value2"} => reqs[e.r].conn = "keep"
  /\ e.kind = "end" => reqs[e.r].conn # "upgrade" /\ e.body = reqs[e.r].body
  /\ e.kind = "upgrade" => reqs[e.r].conn = "upgrade" /\ e.body = 0
  /\ e.kind = "data" => e.body < reqs[e.r].body
  /\ e.kind = "raw" => reqs[e.r].conn = "upgrade" /\ raw > 0

AfterUrl(conn) ==
  IF conn = "keep" THEN "value1" ELSE IF conn = "upgrade" THEN "upgrade" ELSE "end"

(* f comes right behind e in the stream. *)
Follows(reqs, e, f) ==
  /\ e.kind = "url1" => f.r = e.r /\ f.kind = "url2"
  /\ e.kind = "url2" => f.r = e.r /\ f.kind = AfterUrl(reqs[e.r].conn)
  /\ e.kind = "value1" => f.r = e.r /\ f.kind = "value2"
  /\ e.kind = "value2" => f.r = e.r /\ f.kind = "end"
  /\ e.kind \in {"end", "data"} =>
       IF e.body > 0 THEN f.r = e.r /\ f.kind = "data" /\ f.body = e.body - 1
       ELSE f.r = e.r + 1 /\ f.kind = "url1"
  /\ e.kind \in {"upgrade", "raw"} => f.r = e.r /\ f.kind = "raw"

(* e ends the n-th request. *)
Final(n, e) ==
  e.r = n /\ ((e.kind \in {"end", "data"} /\ e.body = 0) \/ e.kind \in {"upgrade", "raw"})

Reads(reqs, raw, cut, q) ==
  /\ \A i \in 1 .. Len(q) : Belongs(reqs, raw, q[i])
  /\ \A i \in 1 .. Len(q) - 1 : Follows(reqs, q[i], q[i + 1])
  /\ ~cut /\ q # <<>> => Final(Len(reqs), q[Len(q)])

Script == Reads(cl.reqs, cl.raw, cl.cut, Rest)

-----------------------------------------------------------------------------
(* A parser p, on a connection that is upgraded or not, is where q goes    *)
(* on; the program has been given request c, of n.                         *)
Meets(p, upgrade, q, c, n, cut) ==
  CASE p.state = "start" /\ ~upgrade ->
         IF q = <<>> THEN cut \/ c = n ELSE q[1].kind = "url1" /\ q[1].r = c + 1
    [] p.state = "start" /\ upgrade -> c = n /\ \A i \in 1 .. Len(q) : q[i].kind = "raw"
    [] p.state = "url" ->
         /\ ~upgrade
         /\ IF q = <<>> THEN cut ELSE q[1].kind = "url2" /\ q[1].r = c + 1
    [] p.state = "headers" ->
         /\ ~upgrade
         /\ IF q = <<>> THEN cut
            ELSE q[1].kind \in {"value1", "value2", "end", "upgrade"} /\ q[1].r = c + 1
    [] p.state = "body" ->
         /\ ~upgrade /\ p.left > 0 /\ c > 0
         /\ IF q = <<>> THEN cut
            ELSE q[1].kind = "data" /\ q[1].r = c /\ q[1].body = p.left - 1
    [] OTHER -> FALSE

(* Resumed is the parser as it is when the callbacks have returned. *)
Position ==
  /\ Meets(Resumed, s.upgrade, Rest, Current, Len(cl.reqs), cl.cut)
  /\ at = "loop" => buf = <<>>
  /\ at = "parse" => buf # <<>>
  /\ at = "onRequest" => parser.state \in {"headers", "start"} /\ parser.left >= 0 /\ Current > 0
  /\ at = "onData" => IF s.upgrade THEN parser.state = "start"
                      ELSE parser.state = "body" /\ parser.left >= 0 /\ Current > 0
  /\ ~cl.cut => cl.n = seen + Len(buf) + Len(input)

(* Who is ahead of whom. *)
Turn ==
  LET c == Current
      n == Len(cl.reqs)
  IN /\ c \in 0 .. n
     /\ s.upgrade <=> c > 0 /\ cl.reqs[c].conn = "upgrade"
     /\ s.upgrade => buf = <<>>
     /\ cl.raw > 0 => c = n /\ n > 0 /\ cl.reqs[n].conn = "upgrade" /\ todo = <<>>
     /\ mode = "sequential" => n <= c + 1
     /\ todo # <<>> =>
          /\ Len(todo) = 1 /\ c > 0 /\ todo[1].body = cl.reqs[c].body
          /\ Resumed.state # "start" => Resumed.state = "body" /\ todo[1].body > 0
          /\ at = "onData" => todo[1].body > 0
          /\ mode = "pipelined" => at = "onRequest"
          /\ mode = "sequential" => (n = c \/ Settled) /\ \A i \in 1 .. Len(buf) : buf[i].r <= c

(* In a pipeline the value of the connection header is never cut. *)
Recognised ==
  mode = "pipelined" =>
    /\ todo # <<>> /\ cl.reqs[Current].conn = "keep" => KeepAlive(s)
    /\ Resumed.state = "headers" /\ Rest # <<>> =>
         /\ Rest[1].kind # "value2"
         /\ Rest[1].kind = "end" /\ cl.reqs[Rest[1].r].conn = "keep" => KeepAlive(s)
    /\ buf # <<>> => buf[Len(buf)].kind # "value1"

(* The handle has the reference it was created with.  A connection is shut *)
(* down between two requests, and by fin behind the last answer.           *)
Shut ==
  /\ s.refs = 1 /\ ~s.closing
  /\ s.conn = "shutting" /\ ~cl.cut => Resumed.state = "start" /\ buf = <<>>
  /\ s.conn = "shutting" /\ ~cl.gone => todo = <<>>

-----------------------------------------------------------------------------
(* What w holds of the answer to r, which is the last one in it: nothing,  *)
(* a part in chunks, the head of one piece, all of it.                     *)
Unended(w, r) == \A i \in 1 .. Len(w) : w[i].r = r => ~Ends(w, i)
Silent(w, r) == \A i \in 1 .. Len(w) : w[i].r < r
InChunks(w, r) ==
  LET last == w[Len(w)]
  IN /\ w # <<>> /\ last.r = r /\ Unended(w, r)
     /\ last.kind = "chunk" \/ (last.kind = "head" /\ last.n = Chunked)
OneLeft(w, r) ==
  LET last == w[Len(w)]
  IN w # <<>> /\ last.r = r /\ Unended(w, r) /\ last.kind = "head" /\ last.n = 1
Finished(w, r) == w # <<>> /\ w[Len(w)].r = r /\ Ends(w, Len(w))

(* Responses to the requests up to c, one after the other. *)
InOrder(w, c) == \A i \in 1 .. Len(w) : Placed(w, i) /\ w[i].r \in 1 .. c

(* The answer t has got as far in w as the upvalues of c say. *)
Awaits(w, t, c) ==
  CASE t.framing = "none" -> Silent(w, t.r) /\ c.response = NewResponse
    [] t.framing = "chunked" ->
         /\ InChunks(w, t.r)
         /\ c.response = [headers_sent |-> TRUE, chunked_encoding |-> TRUE]
    [] t.framing = "length" ->
         /\ c.response = [headers_sent |-> TRUE, chunked_encoding |-> FALSE]
         /\ \/ t.left = 1 /\ OneLeft(w, t.r)
            \/ t.left = 0 /\ Finished(w, t.r) /\ ~c.bottled

Framing ==
  /\ InOrder(Out, Current)
  /\ ~s.bottled => s.wreq = <<>>
  /\ todo = <<>> => ~s.bottled
  /\ \A r \in 1 .. Current : r < Current \/ todo = <<>> => Answered(r)
  /\ todo # <<>> => Awaits(Out, todo[1], s) /\ (s.upgrade => todo[1].framing = "none")

Live == Script /\ Position /\ Turn /\ Recognised /\ Shut /\ Framing

(* On a connection that uv_close was called for, the program may go on     *)
(* with the answer it was at.  It has no such answer, and no second close  *)
(* comes, unless the client left first.                                    *)
Gone ==
  /\ at = "loop" /\ (todo # <<>> => Len(todo) = 1)
  /\ todo # <<>> /\ todo[1].framing = "none" => ~s.response.headers_sent
  /\ finish_raises(parser) => cl.cut
  /\ ~cl.gone => todo = <<>> /\ (s.closing => s.refs > 0)

WebInv ==
  /\ Types /\ Asking
  /\ ~s.alive => WorkerSurvives /\ WellFramed
  /\ s.alive /\ s.conn = "closed" => Gone
  /\ s.alive /\ s.conn # "closed" => Live

-----------------------------------------------------------------------------
(* Sequences. *)

(* What Append does to a sequence. *)
LEMMA AppendFacts ==
  ASSUME NEW S, NEW q \in Seq(S), NEW e \in S
  PROVE  /\ Append(q, e) \in Seq(S) /\ Len(Append(q, e)) = Len(q) + 1 /\ Len(q) \in Nat
         /\ Append(q, e)[Len(q) + 1] = e
         /\ \A i \in 1 .. Len(q) : Append(q, e)[i] = q[i] /\ i \in 1 .. Len(Append(q, e))
         /\ \A i \in 1 .. Len(Append(q, e)) : i \in 1 .. Len(q) \/ i = Len(q) + 1
         /\ Append(q, e) # <<>>
  OBVIOUS

(* What \o does to two sequences. *)
LEMMA ConcatFacts ==
  ASSUME NEW S, NEW a \in Seq(S), NEW b \in Seq(S)
  PROVE  /\ a \o b \in Seq(S) /\ Len(a \o b) = Len(a) + Len(b) /\ Len(a) \in Nat /\ Len(b) \in Nat
         /\ \A i \in 1 .. Len(a) : (a \o b)[i] = a[i] /\ i \in 1 .. Len(a \o b)
         /\ \A i \in 1 .. Len(b) : (a \o b)[Len(a) + i] = b[i] /\ Len(a) + i \in 1 .. Len(a \o b)
         /\ a = <<>> => a \o b = b
         /\ b = <<>> => a \o b = a
  OBVIOUS

(* A sequence that is written behind another is appended token by token. *)
LEMMA ConcatAppend ==
  ASSUME NEW S, NEW a \in Seq(S), NEW b \in Seq(S), NEW e \in S
  PROVE  a \o Append(b, e) = Append(a \o b, e)
<1> DEFINE x == a \o Append(b, e)
           y == Append(a \o b, e)
<1>1. /\ x \in Seq(S) /\ Len(x) = Len(a) + (Len(b) + 1) /\ Len(a) \in Nat /\ Len(b) \in Nat
      /\ \A i \in 1 .. Len(a) : x[i] = a[i]
      /\ \A i \in 1 .. Len(b) : x[Len(a) + i] = b[i]
      /\ x[Len(a) + (Len(b) + 1)] = e
  BY AppendFacts, ConcatFacts
<1>2. /\ y \in Seq(S) /\ Len(y) = (Len(a) + Len(b)) + 1
      /\ \A i \in 1 .. Len(a) : y[i] = a[i]
      /\ \A i \in 1 .. Len(b) : y[Len(a) + i] = b[i]
      /\ y[(Len(a) + Len(b)) + 1] = e
  <2>1. a \o b \in Seq(S) /\ Len(a \o b) = Len(a) + Len(b)
    BY ConcatFacts
  <2>2. /\ y \in Seq(S) /\ Len(y) = (Len(a) + Len(b)) + 1 /\ y[(Len(a) + Len(b)) + 1] = e
        /\ \A i \in 1 .. Len(a \o b) : y[i] = (a \o b)[i]
    BY <2>1, AppendFacts
  <2> QED
    BY <2>2, ConcatFacts
<1> HIDE DEF x, y
<1>3. ASSUME NEW i \in 1 .. Len(x) PROVE x[i] = y[i]
  <2>1. CASE i \in 1 .. Len(a)
    BY <1>1, <1>2, <2>1
  <2>2. CASE i \in Len(a) + 1 .. Len(a) + Len(b)
    <3>1. i - Len(a) \in 1 .. Len(b) /\ i = Len(a) + (i - Len(a))
      BY <1>1, <2>2
    <3> QED
      BY <1>1, <1>2, <3>1
  <2>3. CASE i = Len(a) + Len(b) + 1
    BY <1>1, <1>2, <2>3
  <2> QED
    BY <1>1, <2>1, <2>2, <2>3
<1> QED
  <2>1. Len(x) = Len(y)
    BY <1>1, <1>2
  <2> QED
    BY <1>1, <1>2, <1>3, <2>1, SeqEqual DEF x, y

-----------------------------------------------------------------------------
(* What the server has written. *)

(* Whether the i-th token ends a response depends on the tokens up to it. *)
LEMMA EndsOfPrefix ==
  ASSUME NEW w \in Seq(Tokens), NEW v \in Seq(Tokens), Len(w) \in Nat, Len(v) \in Nat,
         Len(w) <= Len(v), \A i \in 1 .. Len(w) : v[i] = w[i],
         NEW i \in 1 .. Len(w)
  PROVE  Ends(v, i) <=> Ends(w, i)
<1>1. \A h \in 1 .. i : h \in 1 .. Len(w) /\ v[h] = w[h]
  OBVIOUS
<1>2. v[i] = w[i]
  OBVIOUS
<1> QED
  BY <1>1, <1>2 DEF Ends

(* All responses before that to r are in w, and whole. *)
Before(w, r) == \A k \in 1 .. r - 1 : \E j \in 1 .. Len(w) : w[j].r = k /\ Ends(w, j)

(* Where a token stands depends on the tokens up to it. *)
LEMMA PlacedOfPrefix ==
  ASSUME NEW w \in Seq(Tokens), NEW v \in Seq(Tokens), Len(w) \in Nat, Len(v) \in Nat,
         Len(w) <= Len(v), \A i \in 1 .. Len(w) : v[i] = w[i],
         NEW i \in 1 .. Len(w), Placed(w, i)
  PROVE  Placed(v, i)
<1>1. /\ v[i] = w[i]
      /\ i > 1 => v[i - 1] = w[i - 1] /\ (Ends(v, i - 1) <=> Ends(w, i - 1))
  BY EndsOfPrefix
<1>2. \A j \in 1 .. i - 1 : v[j] = w[j] /\ (Ends(v, j) <=> Ends(w, j))
  BY EndsOfPrefix
<1>3. \A r \in 1 .. v[i].r - 1 : \E j \in 1 .. i - 1 : v[j].r = r /\ Ends(v, j)
  <2>1. \A r \in 1 .. w[i].r - 1 : \E j \in 1 .. i - 1 : w[j].r = r /\ Ends(w, j)
    BY DEF Placed
  <2> QED
    BY <1>1, <1>2, <2>1
<1>4. i > 1 /\ Goes(w, i) => Goes(v, i)
  BY <1>1 DEF Goes
<1> QED
  <2>1. IF w[i].kind = "head" THEN i > 1 => w[i - 1].r < w[i].r
        ELSE i > 1 /\ w[i - 1].r = w[i].r /\ ~Ends(w, i - 1) /\ Goes(w, i)
    BY DEF Placed
  <2>2. IF v[i].kind = "head" THEN i > 1 => v[i - 1].r < v[i].r
        ELSE i > 1 /\ v[i - 1].r = v[i].r /\ ~Ends(v, i - 1) /\ Goes(v, i)
    BY <1>1, <1>4, <2>1
  <2> QED
    BY <1>3, <2>2 DEF Placed

(* A token of the response to c, appended where it belongs. *)
LEMMA TokenAppended ==
  ASSUME NEW w \in Seq(Tokens), NEW c \in Nat \ {0}, NEW t \in Tokens, t.r = c,
         InOrder(w, c), Before(w, c),
         IF t.kind = "head" THEN Silent(w, c)
         ELSE /\ w # <<>> /\ w[Len(w)].r = c /\ Unended(w, c)
              /\ t.kind \in {"chunk", "last"} =>
                   w[Len(w)].kind = "chunk" \/ (w[Len(w)].kind = "head" /\ w[Len(w)].n = Chunked)
              /\ t.kind = "data" => w[Len(w)].kind = "head" /\ w[Len(w)].n > 0
  PROVE  InOrder(Append(w, t), c) /\ Before(Append(w, t), c)
<1> DEFINE v == Append(w, t)
<1>1. /\ v \in Seq(Tokens) /\ Len(v) = Len(w) + 1 /\ Len(w) \in Nat /\ v[Len(w) + 1] = t
      /\ \A i \in 1 .. Len(w) : v[i] = w[i] /\ i \in 1 .. Len(v)
      /\ \A i \in 1 .. Len(v) : i \in 1 .. Len(w) \/ i = Len(w) + 1
  BY AppendFacts
<1> HIDE DEF v
<1>2. \A j \in 1 .. Len(w) : Ends(v, j) <=> Ends(w, j)
  BY <1>1, EndsOfPrefix
<1>3. Before(v, c)
  BY <1>1, <1>2 DEF Before
<1>4. ASSUME NEW i \in 1 .. Len(w) PROVE Placed(v, i) /\ v[i].r \in 1 .. c
  <2>1. Placed(w, i) /\ w[i].r \in 1 .. c
    BY DEF InOrder
  <2>2. Placed(v, i)
    BY <1>1, <2>1, PlacedOfPrefix
  <2> QED
    BY <1>1, <2>1, <2>2
<1>5. Placed(v, Len(w) + 1)
  <2> DEFINE i == Len(w) + 1
  <2>1. v[i] = t /\ i - 1 = Len(w)
    BY <1>1
  <2>2. \A r \in 1 .. v[i].r - 1 : \E j \in 1 .. i - 1 : v[j].r = r /\ Ends(v, j)
    BY <1>1, <1>2, <2>1 DEF Before
  <2>3. CASE t.kind = "head"
    <3>1. i > 1 => v[i - 1].r < v[i].r
      BY <1>1, <2>1, <2>3 DEF Silent
    <3> QED
      BY <2>1, <2>2, <2>3, <3>1 DEF Placed
  <2>4. CASE t.kind # "head"
    <3>1. Len(w) \in 1 .. Len(w) /\ i > 1
      BY <1>1, <2>4, EmptySeq
    <3>2. v[i - 1] = w[Len(w)]
      BY <1>1, <2>1, <3>1
    <3>3. v[i - 1].r = v[i].r /\ ~Ends(v, i - 1)
      BY <1>2, <2>1, <2>4, <3>1, <3>2 DEF Unended
    <3>4. t.kind \in {"chunk", "last", "data"}
      BY <2>4 DEF Tokens
    <3>5. Goes(v, i)
      BY <2>1, <2>4, <3>2, <3>4 DEF Goes
    <3> QED
      BY <2>1, <2>2, <2>4, <3>1, <3>3, <3>5 DEF Placed
  <2> QED
    BY <2>3, <2>4
<1>6. ASSUME NEW i \in 1 .. Len(v) PROVE Placed(v, i) /\ v[i].r \in 1 .. c
  BY <1>1, <1>4, <1>5
<1> QED
  BY <1>3, <1>6 DEF InOrder, v

(* A token that no head announces as the last one ends nothing. *)
LEMMA TokenEnds ==
  ASSUME NEW w \in Seq(Tokens), NEW t \in Tokens
  PROVE  Ends(Append(w, t), Len(w) + 1) <=>
           \/ t.kind = "last"
           \/ t.kind = "head" /\ t.n = 0
           \/ w # <<>> /\ w[Len(w)].kind = "head" /\ w[Len(w)].r = t.r /\ w[Len(w)].n = 1
<1> DEFINE v == Append(w, t)
           m == Len(w) + 1
<1>1. /\ v \in Seq(Tokens) /\ Len(v) = m /\ Len(w) \in Nat /\ v[m] = t
      /\ \A i \in 1 .. Len(w) : v[i] = w[i] /\ i \in 1 .. Len(v)
      /\ w # <<>> <=> Len(w) \in 1 .. m - 1
  BY AppendFacts, EmptySeq
<1> HIDE DEF v
<1>2. ASSUME NEW i \in 1 .. Len(v) PROVE v[i].n \in {Chunked, 0, 1}
  <2>1. v[i] \in Tokens
    BY <1>1, ElementOfSeq
  <2> QED
    BY <2>1 DEF Tokens
<1>3. ASSUME NEW h \in 1 .. m PROVE v[h].n = m - h => h = m \/ h = m - 1
  <2>1. v[h].n \in {-1, 0, 1}
    BY <1>1, <1>2 DEF Chunked
  <2> QED
    BY <1>1, <2>1
<1>4. (\E h \in 1 .. m : v[h].kind = "head" /\ v[h].r = v[m].r /\ v[h].n = m - h) <=>
        \/ t.kind = "head" /\ t.n = 0
        \/ w # <<>> /\ w[Len(w)].kind = "head" /\ w[Len(w)].r = t.r /\ w[Len(w)].n = 1
  <2>1. m - m = 0 /\ m - (m - 1) = 1 /\ m \in 1 .. m /\ m - 1 = Len(w)
    BY <1>1
  <2>2. w # <<>> => v[Len(w)] = w[Len(w)] /\ Len(w) \in 1 .. m
    BY <1>1
  <2>3. \A h \in 1 .. m : h = m - 1 => w # <<>>
    BY <1>1
  <2> HIDE DEF m
  <2> QED
    BY <1>1, <1>3, <2>1, <2>2, <2>3
<1> QED
  BY <1>1, <1>4 DEF Ends, v

(* The head of a response, behind the responses before it. *)
LEMMA HeadAppended ==
  ASSUME NEW w \in Seq(Tokens), NEW c \in Nat \ {0}, NEW n \in {Chunked, 0, 1},
         InOrder(w, c), Before(w, c), Silent(w, c)
  PROVE  LET v == Append(w, Token(c, "head", n))
         IN /\ InOrder(v, c) /\ Before(v, c)
            /\ n = Chunked => InChunks(v, c)
            /\ n = 1 => OneLeft(v, c)
            /\ n = 0 => Finished(v, c)
<1> DEFINE t == Token(c, "head", n)
           v == Append(w, t)
<1>1. t \in Tokens /\ t.r = c /\ t.kind = "head" /\ t.n = n
  BY DEF Token, Tokens
<1> HIDE DEF t
<1>2. InOrder(v, c) /\ Before(v, c)
  BY <1>1, TokenAppended
<1>3. Ends(v, Len(w) + 1) <=> n = 0
  <2>1. w # <<>> => w[Len(w)].r # c
    BY EmptySeq DEF Silent
  <2> QED
    BY <1>1, <2>1, TokenEnds
<1>4. /\ v \in Seq(Tokens) /\ Len(v) = Len(w) + 1 /\ v # <<>> /\ v[Len(v)] = t
      /\ \A i \in 1 .. Len(v) : i \in 1 .. Len(w) \/ i = Len(w) + 1
      /\ \A i \in 1 .. Len(w) : v[i].r < c
      /\ Len(w) \in Nat
  BY <1>1, AppendFacts DEF Silent
<1> HIDE DEF v
<1>5. n # 0 => Unended(v, c)
  BY <1>3, <1>4 DEF Unended
<1>6. n = Chunked => InChunks(v, c)
  BY <1>1, <1>4, <1>5 DEF InChunks, Chunked
<1>7. n = 1 => OneLeft(v, c)
  BY <1>1, <1>4, <1>5 DEF OneLeft
<1>8. n = 0 => Finished(v, c)
  BY <1>1, <1>3, <1>4 DEF Finished
<1> QED
  BY <1>2, <1>6, <1>7, <1>8 DEF v, t

(* A chunk, or the last one, behind the head or a chunk of its response. *)
LEMMA ChunkAppended ==
  ASSUME NEW w \in Seq(Tokens), NEW c \in Nat \ {0}, NEW kind \in {"chunk", "last"},
         InOrder(w, c), Before(w, c), InChunks(w, c)
  PROVE  LET v == Append(w, Token(c, kind, 0))
         IN /\ InOrder(v, c) /\ Before(v, c)
            /\ kind = "chunk" => InChunks(v, c)
            /\ kind = "last" => Finished(v, c)
<1> DEFINE t == Token(c, kind, 0)
           v == Append(w, t)
<1>1. t \in Tokens /\ t.r = c /\ t.kind = kind /\ kind # "head" /\ kind # "data"
  BY DEF Token, Tokens
<1> HIDE DEF t
<1>2. /\ w # <<>> /\ w[Len(w)].r = c /\ Unended(w, c)
      /\ w[Len(w)].kind = "chunk" \/ (w[Len(w)].kind = "head" /\ w[Len(w)].n = Chunked)
  BY DEF InChunks
<1>3. InOrder(v, c) /\ Before(v, c)
  BY <1>1, <1>2, TokenAppended
<1>4. Ends(v, Len(w) + 1) <=> kind = "last"
  BY <1>1, <1>2, TokenEnds DEF Chunked
<1>5. /\ v \in Seq(Tokens) /\ Len(v) = Len(w) + 1 /\ v # <<>> /\ v[Len(v)] = t
      /\ \A i \in 1 .. Len(v) : i \in 1 .. Len(w) \/ i = Len(w) + 1
      /\ \A i \in 1 .. Len(w) : v[i] = w[i]
      /\ Len(w) \in Nat
  BY <1>1, AppendFacts
<1> HIDE DEF v
<1>6. \A i \in 1 .. Len(w) : Ends(v, i) <=> Ends(w, i)
  BY <1>5, EndsOfPrefix
<1>7. kind = "chunk" => Unended(v, c)
  BY <1>2, <1>4, <1>5, <1>6 DEF Unended
<1>8. kind = "chunk" => InChunks(v, c)
  BY <1>1, <1>5, <1>7 DEF InChunks
<1>9. kind = "last" => Finished(v, c)
  BY <1>1, <1>4, <1>5 DEF Finished
<1> QED
  BY <1>3, <1>8, <1>9 DEF v, t

(* The piece that the head announced. *)
LEMMA DataAppended ==
  ASSUME NEW w \in Seq(Tokens), NEW c \in Nat \ {0}, InOrder(w, c), Before(w, c), OneLeft(w, c)
  PROVE  LET v == Append(w, Token(c, "data", 0))
         IN InOrder(v, c) /\ Before(v, c) /\ Finished(v, c)
<1> DEFINE t == Token(c, "data", 0)
           v == Append(w, t)
<1>1. t \in Tokens /\ t.r = c /\ t.kind = "data"
  BY DEF Token, Tokens
<1> HIDE DEF t
<1>2. /\ w # <<>> /\ w[Len(w)].r = c /\ Unended(w, c)
      /\ w[Len(w)].kind = "head" /\ w[Len(w)].n = 1
  BY DEF OneLeft
<1>3. InOrder(v, c) /\ Before(v, c)
  BY <1>1, <1>2, TokenAppended
<1>4. Ends(v, Len(w) + 1)
  BY <1>1, <1>2, TokenEnds
<1>5. v # <<>> /\ Len(v) = Len(w) + 1 /\ v[Len(v)] = t
  BY <1>1, AppendFacts
<1>6. Finished(v, c)
  BY <1>1, <1>4, <1>5 DEF Finished
<1> QED
  BY <1>3, <1>6 DEF v, t

-----------------------------------------------------------------------------
(* The methods of lev.tcp and of the response. *)

Written(c) == c.wire \o c.wreq

(* From c to d, w has been handed over, and nothing else has changed but   *)
(* the bottle and the response.                                            *)
Sends(c, d, w) ==
  /\ d \in Connections /\ Written(d) = w
  /\ d.conn = c.conn /\ d.alive = c.alive
  /\ d.connection = c.connection /\ d.upgrade = c.upgrade
  /\ d.refs = c.refs /\ d.closing = c.closing /\ d.onData = c.onData
  /\ ~d.bottled => d.wreq = <<>>
  /\ Len(c.wire) <= Len(d.wire) /\ \A i \in 1 .. Len(c.wire) : d.wire[i] = c.wire[i]

(* A token is written behind the others, and a write that flushes leaves   *)
(* nothing in the bottle.                                                  *)
LEMMA ClientWriteSends ==
  ASSUME NEW c \in Connections, c.conn # "closed", NEW t \in Tokens, NEW flush \in BOOLEAN
  PROVE  LET d == client_write(c, t, flush)
         IN /\ Sends(c, d, Append(Written(c), t))
            /\ d.bottled = (c.bottled /\ ~flush) /\ d.response = c.response
<1> DEFINE d == client_write(c, t, flush)
           b == c.bottled /\ ~flush
           q == Append(c.wreq, t)
           x == IF b THEN q ELSE <<>>
           y == IF b THEN c.wire ELSE c.wire \o q
<1>1. /\ c.wire \in Seq(Tokens) /\ c.wreq \in Seq(Tokens) /\ b \in BOOLEAN
      /\ c = [conn |-> c.conn, bottled |-> c.bottled, wreq |-> c.wreq, wire |-> c.wire,
              alive |-> c.alive, connection |-> c.connection, upgrade |-> c.upgrade,
              response |-> c.response, refs |-> c.refs, closing |-> c.closing,
              onData |-> c.onData]
  BY DEF Connections
<1>2. q \in Seq(Tokens) /\ x \in Seq(Tokens) /\ y \in Seq(Tokens)
  <2>1. q \in Seq(Tokens)
    BY <1>1, AppendFacts
  <2>2. c.wire \o q \in Seq(Tokens) /\ <<>> \in Seq(Tokens)
    BY <1>1, <2>1, ConcatFacts
  <2> QED
    BY <1>1, <2>1, <2>2
<1>3. d = [c EXCEPT !.bottled = b, !.wreq = x, !.wire = y]
  BY DEF client_write
<1>4. y \o x = Append(Written(c), t)
  <2>1. c.wire \o q = Append(c.wire \o c.wreq, t)
    BY <1>1, ConcatAppend
  <2>2. c.wire \o q \in Seq(Tokens) /\ <<>> \in Seq(Tokens)
    BY <1>1, <1>2, ConcatFacts
  <2>3. (c.wire \o q) \o <<>> = c.wire \o q
    BY <2>2, ConcatFacts
  <2>4. CASE b
    BY <2>1, <2>4 DEF Written
  <2>5. CASE ~b
    BY <2>1, <2>3, <2>5 DEF Written
  <2> QED
    BY <2>4, <2>5
<1> HIDE DEF d, b, x, y, q
<1>5. Len(c.wire) <= Len(y) /\ \A i \in 1 .. Len(c.wire) : y[i] = c.wire[i]
  <2>1. c.wire \in Seq(Tokens) /\ q \in Seq(Tokens)
    BY <1>1, <1>2
  <2>2. /\ Len(c.wire \o q) = Len(c.wire) + Len(q) /\ Len(c.wire) \in Nat /\ Len(q) \in Nat
        /\ \A i \in 1 .. Len(c.wire) : (c.wire \o q)[i] = c.wire[i]
    BY <2>1, ConcatFacts
  <2> QED
    BY <2>2 DEF y
<1>6. ~b => x = <<>>
  BY DEF x
<1>7. /\ d.bottled = b /\ d.wreq = x /\ d.wire = y /\ d.conn = c.conn /\ d.alive = c.alive
      /\ d.connection = c.connection /\ d.upgrade = c.upgrade /\ d.response = c.response
      /\ d.refs = c.refs /\ d.closing = c.closing /\ d.onData = c.onData
      /\ d \in Connections
  <2>1. d = [conn |-> c.conn, bottled |-> b, wreq |-> x, wire |-> y,
             alive |-> c.alive, connection |-> c.connection, upgrade |-> c.upgrade,
             response |-> c.response, refs |-> c.refs, closing |-> c.closing,
             onData |-> c.onData]
    BY <1>1, <1>3
  <2>2. /\ c.conn \in {"open", "shutting", "closed"} /\ c.alive \in BOOLEAN
        /\ c.connection \in {"none", "piece", "keep-alive"} /\ c.upgrade \in BOOLEAN
        /\ c.response \in Responses /\ c.refs \in Int /\ c.closing \in BOOLEAN
        /\ c.onData \in BOOLEAN
    BY DEF Connections
  <2>3. d \in Connections
    BY <1>1, <1>2, <2>1, <2>2 DEF Connections
  <2> QED
    BY <2>1, <2>3
<1>8. Sends(c, d, Append(Written(c), t))
  BY <1>4, <1>5, <1>6, <1>7 DEF Sends, Written
<1> QED
  BY <1>7, <1>8 DEF d, b

(* A bottled connection is the same connection. *)
LEMMA BottleFacts ==
  ASSUME NEW c \in Connections
  PROVE  /\ bottle(c) \in Connections /\ bottle(c).bottled = TRUE
         /\ Written(bottle(c)) = Written(c) /\ bottle(c).wire = c.wire
         /\ bottle(c).conn = c.conn /\ bottle(c).alive = c.alive
         /\ bottle(c).connection = c.connection /\ bottle(c).upgrade = c.upgrade
         /\ bottle(c).response = c.response /\ bottle(c).refs = c.refs
         /\ bottle(c).closing = c.closing /\ bottle(c).onData = c.onData
  BY DEF bottle, Connections, Written

(* What is sent one after the other. *)
LEMMA SendsTwice ==
  ASSUME NEW c \in Connections, NEW d \in Connections, NEW e \in Connections,
         NEW w, NEW v, Sends(c, d, w), Sends(d, e, v)
  PROVE  Sends(c, e, v)
<1>1. Len(c.wire) \in Nat /\ Len(d.wire) \in Nat /\ Len(e.wire) \in Nat
  BY DEF Connections
<1> QED
  BY <1>1 DEF Sends

(* Bottling first makes no difference to what is sent. *)
LEMMA SendsBottled ==
  ASSUME NEW c \in Connections, NEW d \in Connections, NEW w, Sends(bottle(c), d, w)
  PROVE  Sends(c, d, w)
<1>1. /\ bottle(c).wire = c.wire /\ bottle(c).conn = c.conn /\ bottle(c).alive = c.alive
      /\ bottle(c).connection = c.connection /\ bottle(c).upgrade = c.upgrade
      /\ bottle(c).refs = c.refs /\ bottle(c).closing = c.closing /\ bottle(c).onData = c.onData
  BY BottleFacts
<1> QED
  BY <1>1 DEF Sends

(* The first head of a response is written as it is, and the bottle is as  *)
(* it was.                                                                 *)
LEMMA WriteHeadSends ==
  ASSUME NEW c \in Connections, c.conn # "closed", ~c.response.headers_sent,
         NEW r \in Nat, NEW length \in {Chunked, 0, 1}
  PROVE  LET d == writeHead(c, r, length)
         IN /\ Sends(c, d, Append(Written(c), Token(r, "head", length)))
            /\ d.bottled = c.bottled
            /\ d.response = [headers_sent |-> TRUE,
                             chunked_encoding |-> c.response.chunked_encoding /\ length = Chunked]
<1> DEFINE t == Token(r, "head", length)
           b == bottle(c)
           e == client_write(b, t, ~c.bottled)
           a == [headers_sent |-> TRUE,
                 chunked_encoding |-> c.response.chunked_encoding /\ length = Chunked]
           d == writeHead(c, r, length)
<1>1. t \in Tokens
  BY DEF Token, Tokens
<1>2. /\ b \in Connections /\ b.bottled = TRUE /\ b.conn # "closed"
      /\ Written(b) = Written(c) /\ b.response = c.response
  BY BottleFacts
<1>3. c.bottled \in BOOLEAN /\ c.response \in Responses
  BY DEF Connections
<1> HIDE DEF t, b
<1>4. /\ Sends(b, e, Append(Written(b), t))
      /\ e.bottled = (b.bottled /\ ~~c.bottled) /\ e.response = b.response
  <2> DEFINE flush == ~c.bottled
  <2>1. flush \in BOOLEAN
    BY <1>3
  <2> HIDE DEF flush
  <2>2. LET x == client_write(b, t, flush)
        IN /\ Sends(b, x, Append(Written(b), t))
           /\ x.bottled = (b.bottled /\ ~flush) /\ x.response = b.response
    BY <1>1, <1>2, <2>1, ClientWriteSends
  <2>3. e = client_write(b, t, flush)
    BY DEF flush
  <2> HIDE DEF e
  <2> QED
    BY <2>2, <2>3 DEF flush
<1> HIDE DEF e
<1>5. e \in Connections /\ Sends(c, e, Append(Written(c), t))
  BY <1>2, <1>4, SendsBottled DEF Sends, b
<1>6. e.bottled = c.bottled /\ e.response = c.response
  BY <1>2, <1>3, <1>4
<1>7. d = [e EXCEPT !.response = a]
  <2>1. d = [e EXCEPT !.response = [headers_sent |-> TRUE,
                                    chunked_encoding |-> @.chunked_encoding /\ length = Chunked]]
    BY DEF writeHead, e, t, b
  <2> QED
    BY <1>6, <2>1, <1>5 DEF Connections
<1>8. a \in Responses
  BY <1>3 DEF Responses
<1> HIDE DEF a, d
<1>9. /\ d \in Connections /\ d.response = a /\ d.bottled = e.bottled /\ d.wreq = e.wreq
      /\ d.wire = e.wire /\ d.conn = e.conn /\ d.alive = e.alive
      /\ d.connection = e.connection /\ d.upgrade = e.upgrade
      /\ d.refs = e.refs /\ d.closing = e.closing /\ d.onData = e.onData
  BY <1>5, <1>7, <1>8 DEF Connections
<1>10. Sends(c, d, Append(Written(c), t))
  BY <1>5, <1>9 DEF Sends, Written
<1> QED
  BY <1>6, <1>9, <1>10 DEF d, a, t

(* A response that has its head: its next piece is written. *)
LEMMA WriteGoesOn ==
  ASSUME NEW c \in Connections, c.conn # "closed", c.response.headers_sent, NEW r \in Nat
  PROVE  LET d == write(c, r)
         IN /\ Sends(c, d, Append(Written(c),
                      Token(r, IF c.response.chunked_encoding THEN "chunk" ELSE "data", 0)))
            /\ d.bottled = c.bottled /\ d.response = c.response
<1> DEFINE kind == IF c.response.chunked_encoding THEN "chunk" ELSE "data"
           t == Token(r, kind, 0)
           b == bottle(c)
           e == client_write(b, t, ~c.bottled)
<1>1. t \in Tokens
  BY DEF Token, Tokens
<1>2. /\ b \in Connections /\ b.bottled = TRUE /\ b.conn # "closed"
      /\ Written(b) = Written(c) /\ b.response = c.response
  BY BottleFacts
<1>3. c.bottled \in BOOLEAN
  BY DEF Connections
<1>4. write(c, r) = e
  BY <1>2 DEF write
<1> HIDE DEF t, b
<1>5. /\ Sends(b, e, Append(Written(b), t))
      /\ e.bottled = (b.bottled /\ ~~c.bottled) /\ e.response = b.response
  <2> DEFINE flush == ~c.bottled
  <2>1. flush \in BOOLEAN
    BY <1>3
  <2> HIDE DEF flush
  <2>2. LET x == client_write(b, t, flush)
        IN /\ Sends(b, x, Append(Written(b), t))
           /\ x.bottled = (b.bottled /\ ~flush) /\ x.response = b.response
    BY <1>1, <1>2, <2>1, ClientWriteSends
  <2>3. e = client_write(b, t, flush)
    BY DEF flush
  <2> HIDE DEF e
  <2> QED
    BY <2>2, <2>3 DEF flush
<1> HIDE DEF e
<1>6. Sends(c, e, Append(Written(c), t))
  BY <1>2, <1>5, SendsBottled DEF Sends, b
<1>7. e.bottled = c.bottled /\ e.response = c.response
  BY <1>2, <1>3, <1>5
<1> QED
  BY <1>4, <1>6, <1>7 DEF t

(* A response without a head: it gets one, and its first chunk. *)
LEMMA WriteBegins ==
  ASSUME NEW c \in Connections, c.conn # "closed", c.response = NewResponse, NEW r \in Nat
  PROVE  LET d == write(c, r)
         IN /\ Sends(c, d, Append(Append(Written(c), Token(r, "head", Chunked)),
                                  Token(r, "chunk", 0)))
            /\ d.bottled = c.bottled
            /\ d.response = [headers_sent |-> TRUE, chunked_encoding |-> TRUE]
<1> DEFINE h == Token(r, "head", Chunked)
           t == Token(r, "chunk", 0)
           b == bottle(c)
           a == writeHead(b, r, Chunked)
           e == client_write(a, t, ~c.bottled)
<1>1. t \in Tokens
  BY DEF Token, Tokens
<1>2. /\ b \in Connections /\ b.bottled = TRUE /\ b.conn # "closed"
      /\ Written(b) = Written(c) /\ b.response = c.response
  BY BottleFacts
<1>3. /\ c.bottled \in BOOLEAN /\ ~b.response.headers_sent /\ b.response.chunked_encoding
      /\ Chunked \in {Chunked, 0, 1}
  BY <1>2 DEF Connections, NewResponse
<1> HIDE DEF h, t, b
<1>4. /\ Sends(b, a, Append(Written(b), h)) /\ a.bottled = b.bottled
      /\ a.response = [headers_sent |-> TRUE, chunked_encoding |-> TRUE]
  <2>1. /\ Sends(b, a, Append(Written(b), h)) /\ a.bottled = b.bottled
        /\ a.response = [headers_sent |-> TRUE,
                         chunked_encoding |-> b.response.chunked_encoding /\ Chunked = Chunked]
    BY <1>2, <1>3, WriteHeadSends DEF h
  <2> QED
    BY <1>3, <2>1
<1>5. write(c, r) = e
  <2>1. write(c, r) = client_write(a, Token(r, IF a.response.chunked_encoding THEN "chunk"
                                               ELSE "data", 0), ~c.bottled)
    BY <1>3 DEF write, b
  <2> QED
    BY <1>4, <2>1 DEF t
<1> HIDE DEF a
<1>6. a \in Connections /\ a.conn # "closed" /\ Written(a) = Append(Written(c), h)
  BY <1>2, <1>4 DEF Sends
<1>7. /\ Sends(a, e, Append(Written(a), t))
      /\ e.bottled = (a.bottled /\ ~~c.bottled) /\ e.response = a.response
  <2> DEFINE flush == ~c.bottled
  <2>1. a \in Connections /\ a.conn # "closed" /\ t \in Tokens
    BY <1>1, <1>6
  <2>2. flush \in BOOLEAN
    BY <1>3
  <2> HIDE DEF flush
  <2>3. LET d == client_write(a, t, flush)
        IN /\ Sends(a, d, Append(Written(a), t))
           /\ d.bottled = (a.bottled /\ ~flush) /\ d.response = a.response
    BY <2>1, <2>2, ClientWriteSends
  <2> QED
    BY <2>3 DEF flush
<1> HIDE DEF e
<1>8. Sends(c, a, Append(Written(c), h))
  BY <1>2, <1>4, <1>6, SendsBottled DEF b
<1>9. Sends(c, e, Append(Append(Written(c), h), t))
  <2>1. e \in Connections /\ Sends(a, e, Append(Append(Written(c), h), t))
    BY <1>6, <1>7 DEF Sends
  <2> QED
    BY <1>6, <1>8, <2>1, SendsTwice
<1>10. e.bottled = c.bottled
  BY <1>2, <1>3, <1>4, <1>7
<1> QED
  BY <1>4, <1>5, <1>7, <1>9, <1>10 DEF h, t

(* What fin(r, chunk) writes behind w, as the response is. *)
FinWrites(w, response, r, chunk) ==
  IF response = NewResponse
    THEN Append(Append(Append(w, Token(r, "head", Chunked)), Token(r, "chunk", 0)),
                Token(r, "last", 0))
  ELSE IF response.chunked_encoding
    THEN IF chunk THEN Append(Append(w, Token(r, "chunk", 0)), Token(r, "last", 0))
         ELSE Append(w, Token(r, "last", 0))
  ELSE IF chunk THEN Append(w, Token(r, "data", 0)) ELSE w

(* fin flushes what it writes, and writes something but at the end of a    *)
(* response of a given length.                                             *)
LEMMA FinBodySends ==
  ASSUME NEW c \in Connections, c.conn # "closed", NEW r \in Nat, NEW chunk \in BOOLEAN,
         c.response = NewResponse => chunk,
         c.response # NewResponse => c.response.headers_sent,
         ~c.response.chunked_encoding /\ ~chunk => ~c.bottled /\ c.wreq = <<>>
  PROVE  LET d == fin_body(c, r, chunk)
         IN /\ Sends(c, d, FinWrites(Written(c), c.response, r, chunk))
            /\ ~d.bottled
<1> DEFINE b == bottle(c)
           e == write(b, r)
           last == Token(r, "last", 0)
           data == Token(r, "data", 0)
           d == fin_body(c, r, chunk)
<1>1. last \in Tokens /\ data \in Tokens
  BY DEF Token, Tokens
<1>2. /\ b \in Connections /\ b.bottled = TRUE /\ b.conn # "closed"
      /\ Written(b) = Written(c) /\ b.response = c.response
  BY BottleFacts
<1>3. c.response \in Responses /\ c.response.chunked_encoding \in BOOLEAN
  BY DEF Connections, Responses
<1> HIDE DEF b, last, data
<1>4. CASE chunk /\ c.response.chunked_encoding
  <2> DEFINE w == IF c.response = NewResponse
                    THEN Append(Append(Written(c), Token(r, "head", Chunked)), Token(r, "chunk", 0))
                    ELSE Append(Written(c), Token(r, "chunk", 0))
             f == client_write(e, last, TRUE)
  <2>1. d = f
    BY <1>4 DEF fin_body, b, last
  <2>2. Sends(b, e, w)
    <3>1. CASE c.response = NewResponse
      BY <1>2, <3>1, WriteBegins
    <3>2. CASE c.response # NewResponse
      BY <1>2, <1>4, <3>2, WriteGoesOn
    <3> QED
      BY <3>1, <3>2
  <2> HIDE DEF e, w
  <2>3. e \in Connections /\ e.conn # "closed" /\ Written(e) = w
    BY <1>2, <2>2 DEF Sends
  <2>4. Sends(e, f, Append(w, last)) /\ f.bottled = (e.bottled /\ ~TRUE)
    <3>1. /\ Sends(e, f, Append(Written(e), last)) /\ f.bottled = (e.bottled /\ ~TRUE)
      BY <1>1, <2>3, ClientWriteSends
    <3> QED
      BY <2>3, <3>1
  <2> HIDE DEF d, f
  <2>5. Sends(c, e, w)
    BY <2>2, <2>3, SendsBottled DEF b
  <2>6. Sends(c, f, Append(w, last))
    BY <2>3, <2>4, <2>5, SendsTwice DEF Sends
  <2>7. Append(w, last) = FinWrites(Written(c), c.response, r, chunk)
    BY <1>4 DEF w, last, FinWrites
  <2> QED
    BY <2>1, <2>4, <2>6, <2>7 DEF d
<1>5. CASE chunk /\ ~c.response.chunked_encoding
  <2> DEFINE f == client_write(c, data, TRUE)
  <2>1. d = f
    BY <1>5 DEF fin_body, data
  <2>2. Sends(c, f, Append(Written(c), data)) /\ f.bottled = (c.bottled /\ ~TRUE)
    BY <1>1, ClientWriteSends
  <2> HIDE DEF d, f
  <2>3. Append(Written(c), data) = FinWrites(Written(c), c.response, r, chunk)
    BY <1>5 DEF data, FinWrites, NewResponse
  <2> QED
    BY <2>1, <2>2, <2>3 DEF d
<1>6. CASE ~chunk /\ c.response.chunked_encoding
  <2> DEFINE f == client_write(c, last, TRUE)
  <2>1. d = f
    BY <1>6 DEF fin_body, last
  <2>2. Sends(c, f, Append(Written(c), last)) /\ f.bottled = (c.bottled /\ ~TRUE)
    BY <1>1, ClientWriteSends
  <2> HIDE DEF d, f
  <2>3. Append(Written(c), last) = FinWrites(Written(c), c.response, r, chunk)
    BY <1>6 DEF last, FinWrites
  <2> QED
    BY <2>1, <2>2, <2>3 DEF d
<1>7. CASE ~chunk /\ ~c.response.chunked_encoding
  <2>1. d = c
    BY <1>7 DEF fin_body
  <2>2. Written(c) = FinWrites(Written(c), c.response, r, chunk)
    BY <1>7 DEF FinWrites
  <2>3. Sends(c, c, Written(c))
    BY <1>7 DEF Sends, Connections
  <2> QED
    BY <1>7, <2>1, <2>2, <2>3
<1> QED
  BY <1>3, <1>4, <1>5, <1>6, <1>7

(* fin closes the connection behind what it writes, unless it is kept. *)
LEMMA FinSends ==
  ASSUME NEW c \in Connections, NEW r \in Nat, NEW chunk \in BOOLEAN, NEW w, NEW p,
         NEW e, e = fin_body(c, r, chunk), Sends(c, e, w), c.conn # "closed",
         NEW d, d = fin(c, r, chunk, p)
  PROVE  /\ d.conn = (IF KeepAlive(c) THEN c.conn ELSE "shutting")
         /\ Sends([c EXCEPT !.conn = d.conn], d, w) /\ d.bottled = e.bottled
<1>1. e \in Connections /\ e.conn = c.conn
  BY DEF Sends
<1>2. CASE KeepAlive(c)
  <2>1. d = e
    BY <1>2 DEF fin
  <2>2. [c EXCEPT !.conn = c.conn] = c
    BY DEF Connections
  <2> QED
    BY <1>1, <1>2, <2>1, <2>2
<1>3. CASE ~KeepAlive(c)
  <2>1. d = [e EXCEPT !.conn = "shutting"]
    BY <1>1, <1>3 DEF fin, client_close
  <2> DEFINE a == [c EXCEPT !.conn = "shutting"]
  <2>2. /\ d \in Connections /\ d.conn = "shutting" /\ d.bottled = e.bottled /\ d.wreq = e.wreq
        /\ d.wire = e.wire /\ d.alive = e.alive /\ d.connection = e.connection
        /\ d.upgrade = e.upgrade /\ d.refs = e.refs /\ d.closing = e.closing
        /\ d.onData = e.onData
    BY <1>1, <2>1 DEF Connections
  <2>3. /\ a.conn = "shutting" /\ a.wire = c.wire /\ a.alive = c.alive
        /\ a.connection = c.connection /\ a.upgrade = c.upgrade
        /\ a.refs = c.refs /\ a.closing = c.closing /\ a.onData = c.onData
    BY DEF Connections
  <2> HIDE DEF a
  <2>5. Sends(a, d, w)
    BY <2>2, <2>3 DEF Sends, Written
  <2> QED
    BY <1>3, <2>2, <2>5 DEF a
<1> QED
  BY <1>2, <1>3

-----------------------------------------------------------------------------
(* The elements of the stream. *)

(* p is q without its first k elements; p begins q. *)
Drops(q, p, k) ==
  k \in 0 .. Len(q) /\ Len(p) = Len(q) - k /\ \A i \in 1 .. Len(p) : p[i] = q[i + k]
Begins(q, p) == Len(p) <= Len(q) /\ \A i \in 1 .. Len(p) : p[i] = q[i]

(* The rest of a sequence behind its first k elements, and those elements. *)
LEMMA SubSeqFacts ==
  ASSUME NEW S, NEW q \in Seq(S), NEW k \in 0 .. Len(q)
  PROVE  /\ SubSeq(q, k + 1, Len(q)) \in Seq(S) /\ Drops(q, SubSeq(q, k + 1, Len(q)), k)
         /\ SubSeq(q, 1, k) \in Seq(S) /\ Begins(q, SubSeq(q, 1, k)) /\ Len(SubSeq(q, 1, k)) = k
<1> DEFINE p == SubSeq(q, k + 1, Len(q))
           b == SubSeq(q, 1, k)
<1>1. Len(q) \in Nat /\ k \in Nat /\ k <= Len(q)
  OBVIOUS
<1>2. k + 1 \in 1 .. Len(q) + 1 /\ Len(q) \in (k + 1) - 1 .. Len(q) /\ 1 \in 1 .. Len(q) + 1
      /\ k \in 1 - 1 .. Len(q)
  BY <1>1
<1>3. /\ p \in Seq(S) /\ Len(p) = Len(q) - (k + 1) + 1
      /\ \A i \in 1 .. Len(q) - (k + 1) + 1 : p[i] = q[(k + 1) + i - 1]
  BY <1>2, SubSeqProperties
<1>4. /\ b \in Seq(S) /\ Len(b) = k - 1 + 1 /\ \A i \in 1 .. k - 1 + 1 : b[i] = q[1 + i - 1]
  BY <1>2, SubSeqProperties
<1> HIDE DEF p, b
<1>5. Drops(q, p, k)
  BY <1>1, <1>3 DEF Drops
<1>6. Begins(q, b) /\ Len(b) = k
  BY <1>1, <1>4 DEF Begins
<1> QED
  BY <1>3, <1>4, <1>5, <1>6 DEF p, b

(* The rest behind the first element. *)
LEMMA TailFacts ==
  ASSUME NEW S, NEW q \in Seq(S), q # <<>>
  PROVE  Tail(q) \in Seq(S) /\ Drops(q, Tail(q), 1) /\ 1 \in 1 .. Len(q) /\ q[1] \in S
<1>1. Len(q) \in Nat /\ Len(q) > 0
  BY EmptySeq
<1>2. Tail(q) \in Seq(S) /\ Len(Tail(q)) = Len(q) - 1
      /\ \A i \in 1 .. Len(q) - 1 : Tail(q)[i] = q[i + 1]
  BY <1>1, HeadTailProperties
<1>3. q[1] \in S
  BY <1>1, ElementOfSeq
<1> QED
  BY <1>1, <1>2, <1>3 DEF Drops

(* What is dropped in front is dropped from the whole. *)
LEMMA DropsInFront ==
  ASSUME NEW S, NEW a \in Seq(S), NEW b \in Seq(S), NEW p \in Seq(S), NEW k, Drops(a, p, k)
  PROVE  Drops(a \o b, p \o b, k)
<1> DEFINE x == a \o b
           y == p \o b
<1>1. /\ Len(x) = Len(a) + Len(b) /\ Len(a) \in Nat /\ Len(b) \in Nat
      /\ \A i \in 1 .. Len(a) : x[i] = a[i]
      /\ \A i \in 1 .. Len(b) : x[Len(a) + i] = b[i]
  BY ConcatFacts
<1>2. /\ Len(y) = Len(p) + Len(b) /\ Len(p) \in Nat
      /\ \A i \in 1 .. Len(p) : y[i] = p[i]
      /\ \A i \in 1 .. Len(b) : y[Len(p) + i] = b[i]
  BY ConcatFacts
<1>3. /\ k \in 0 .. Len(a) /\ Len(p) = Len(a) - k /\ \A i \in 1 .. Len(p) : p[i] = a[i + k]
  BY DEF Drops
<1> HIDE DEF x, y
<1>4. ASSUME NEW i \in 1 .. Len(y) PROVE y[i] = x[i + k]
  <2>1. CASE i \in 1 .. Len(p)
    <3>1. i + k \in 1 .. Len(a)
      BY <1>1, <1>3, <2>1
    <3> QED
      BY <1>1, <1>2, <1>3, <2>1, <3>1
  <2>2. CASE i \notin 1 .. Len(p)
    <3>1. i - Len(p) \in 1 .. Len(b) /\ i = Len(p) + (i - Len(p)) /\ i + k = Len(a) + (i - Len(p))
      BY <1>1, <1>2, <1>3, <2>2
    <3> QED
      BY <1>1, <1>2, <3>1
  <2> QED
    BY <2>1, <2>2
<1>5. Len(y) = Len(x) - k /\ k \in 0 .. Len(x)
  BY <1>1, <1>2, <1>3
<1> QED
  BY <1>4, <1>5 DEF Drops, x, y

(* What begins a sequence behind others begins the whole with them. *)
LEMMA BeginsBehind ==
  ASSUME NEW S, NEW a \in Seq(S), NEW b \in Seq(S), NEW p \in Seq(S), Begins(b, p)
  PROVE  Begins(a \o b, a \o p)
<1> DEFINE x == a \o b
           y == a \o p
<1>1. /\ Len(x) = Len(a) + Len(b) /\ Len(a) \in Nat /\ Len(b) \in Nat
      /\ \A i \in 1 .. Len(a) : x[i] = a[i]
      /\ \A i \in 1 .. Len(b) : x[Len(a) + i] = b[i]
  BY ConcatFacts
<1>2. /\ Len(y) = Len(a) + Len(p) /\ Len(p) \in Nat
      /\ \A i \in 1 .. Len(a) : y[i] = a[i]
      /\ \A i \in 1 .. Len(p) : y[Len(a) + i] = p[i]
  BY ConcatFacts
<1>3. Len(p) <= Len(b) /\ \A i \in 1 .. Len(p) : p[i] = b[i]
  BY DEF Begins
<1> HIDE DEF x, y
<1>4. ASSUME NEW i \in 1 .. Len(y) PROVE y[i] = x[i]
  <2>1. CASE i \in 1 .. Len(a)
    BY <1>1, <1>2, <2>1
  <2>2. CASE i \notin 1 .. Len(a)
    <3>1. i - Len(a) \in 1 .. Len(p) /\ i - Len(a) \in 1 .. Len(b) /\ i = Len(a) + (i - Len(a))
      BY <1>1, <1>2, <1>3, <2>2
    <3> QED
      BY <1>1, <1>2, <1>3, <3>1
  <2> QED
    BY <2>1, <2>2
<1> QED
  BY <1>1, <1>2, <1>3, <1>4 DEF Begins, x, y

(* The end of a stream is read as the stream was. *)
LEMMA ReadsDropped ==
  ASSUME NEW reqs, NEW raw, NEW cut, NEW q \in Seq(Elements), NEW p \in Seq(Elements), NEW k,
         Drops(q, p, k), Reads(reqs, raw, cut, q)
  PROVE  /\ Reads(reqs, raw, cut, p)
         /\ k > 0 /\ p # <<>> => Follows(reqs, q[k], p[1])
         /\ k > 0 /\ p = <<>> /\ ~cut => Final(Len(reqs), q[k])
<1>1. /\ Len(q) \in Nat /\ Len(p) \in Nat /\ k \in Nat /\ k <= Len(q)
      /\ Len(p) = Len(q) - k /\ \A i \in 1 .. Len(p) : p[i] = q[i + k]
  BY DEF Drops
<1>2. q = <<>> <=> Len(q) = 0
  BY EmptySeq
<1>3. p = <<>> <=> Len(p) = 0
  BY EmptySeq
<1>4. /\ \A i \in 1 .. Len(q) : Belongs(reqs, raw, q[i])
      /\ \A i \in 1 .. Len(q) - 1 : Follows(reqs, q[i], q[i + 1])
      /\ ~cut /\ q # <<>> => Final(Len(reqs), q[Len(q)])
  BY DEF Reads
<1>5. ASSUME NEW i \in 1 .. Len(p) PROVE Belongs(reqs, raw, p[i])
  <2>1. i + k \in 1 .. Len(q) /\ p[i] = q[i + k]
    BY <1>1
  <2> QED
    BY <1>4, <2>1
<1>6. ASSUME NEW i \in 1 .. Len(p) - 1 PROVE Follows(reqs, p[i], p[i + 1])
  <2>1. i + k \in 1 .. Len(q) - 1 /\ p[i] = q[i + k] /\ p[i + 1] = q[(i + k) + 1]
    BY <1>1
  <2> QED
    BY <1>4, <2>1
<1>7. p # <<>> => p[Len(p)] = q[Len(q)] /\ q # <<>>
  BY <1>1, <1>2, <1>3
<1>8. Reads(reqs, raw, cut, p)
  BY <1>4, <1>5, <1>6, <1>7 DEF Reads
<1>9. ASSUME k > 0, p # <<>> PROVE Follows(reqs, q[k], p[1])
  <2>1. k \in 1 .. Len(q) - 1 /\ p[1] = q[k + 1]
    BY <1>1, <1>3, <1>9
  <2> QED
    BY <1>4, <2>1
<1>10. ASSUME k > 0, p = <<>>, ~cut PROVE Final(Len(reqs), q[k])
  <2>1. k = Len(q) /\ q # <<>>
    BY <1>1, <1>2, <1>3, <1>10
  <2> QED
    BY <1>4, <1>10, <2>1
<1> QED
  BY <1>8, <1>9, <1>10

(* The beginning of a stream is read as a stream that is cut. *)
LEMMA ReadsCut ==
  ASSUME NEW reqs, NEW raw, NEW cut, NEW q \in Seq(Elements), NEW p \in Seq(Elements),
         Begins(q, p), Reads(reqs, raw, cut, q)
  PROVE  Reads(reqs, raw, TRUE, p)
<1>1. /\ Len(q) \in Nat /\ Len(p) \in Nat /\ Len(p) <= Len(q)
      /\ \A i \in 1 .. Len(p) : p[i] = q[i]
  BY DEF Begins
<1>2. ASSUME NEW i \in 1 .. Len(p) - 1 PROVE Follows(reqs, p[i], p[i + 1])
  <2>1. i \in 1 .. Len(q) - 1 /\ p[i] = q[i] /\ p[i + 1] = q[i + 1]
    BY <1>1
  <2> QED
    BY <2>1 DEF Reads
<1>3. ASSUME NEW i \in 1 .. Len(p) PROVE Belongs(reqs, raw, p[i])
  <2>1. i \in 1 .. Len(q) /\ p[i] = q[i]
    BY <1>1
  <2> QED
    BY <2>1 DEF Reads
<1> QED
  BY <1>2, <1>3 DEF Reads

(* A stream and another one that goes on where it ends. *)
LEMMA ReadsJoined ==
  ASSUME NEW reqs, NEW raw, NEW q \in Seq(Elements), NEW p \in Seq(Elements), p # <<>>,
         \A i \in 1 .. Len(q) : Belongs(reqs, raw, q[i]),
         \A i \in 1 .. Len(q) - 1 : Follows(reqs, q[i], q[i + 1]),
         Reads(reqs, raw, FALSE, p),
         q # <<>> => Follows(reqs, q[Len(q)], p[1])
  PROVE  Reads(reqs, raw, FALSE, q \o p)
<1> DEFINE x == q \o p
<1>1. /\ Len(x) = Len(q) + Len(p) /\ Len(q) \in Nat /\ Len(p) \in Nat
      /\ \A i \in 1 .. Len(q) : x[i] = q[i]
      /\ \A i \in 1 .. Len(p) : x[Len(q) + i] = p[i]
  BY ConcatFacts
<1>2. Len(p) > 0 /\ (q # <<>> <=> Len(q) > 0)
  BY <1>1, EmptySeq
<1>3. /\ \A i \in 1 .. Len(p) : Belongs(reqs, raw, p[i])
      /\ \A i \in 1 .. Len(p) - 1 : Follows(reqs, p[i], p[i + 1])
      /\ Final(Len(reqs), p[Len(p)])
  BY DEF Reads
<1> HIDE DEF x
<1>4. ASSUME NEW i \in 1 .. Len(x) PROVE Belongs(reqs, raw, x[i])
  <2>1. CASE i \in 1 .. Len(q)
    BY <1>1, <2>1
  <2>2. CASE i \notin 1 .. Len(q)
    <3>1. i - Len(q) \in 1 .. Len(p) /\ i = Len(q) + (i - Len(q))
      BY <1>1, <2>2
    <3>2. x[i] = p[i - Len(q)]
      BY <1>1, <3>1
    <3> QED
      BY <1>3, <3>1, <3>2
  <2> QED
    BY <2>1, <2>2
<1>5. ASSUME NEW i \in 1 .. Len(x) - 1 PROVE Follows(reqs, x[i], x[i + 1])
  <2>1. CASE i \in 1 .. Len(q) - 1
    <3>1. x[i] = q[i] /\ x[i + 1] = q[i + 1]
      BY <1>1, <2>1
    <3> QED
      BY <2>1, <3>1
  <2>2. CASE i = Len(q)
    <3>1. i \in 1 .. Len(q) /\ 1 \in 1 .. Len(p) /\ x[Len(q) + 1] = p[1]
      BY <1>1, <1>2, <2>2
    <3>2. x[i] = q[Len(q)]
      BY <1>1, <2>2, <3>1
    <3> QED
      BY <1>2, <2>2, <3>1, <3>2
  <2>3. CASE i > Len(q)
    <3>1. i - Len(q) \in 1 .. Len(p) - 1 /\ i = Len(q) + (i - Len(q))
          /\ i + 1 = Len(q) + ((i - Len(q)) + 1)
      BY <1>1, <2>3
    <3>2. i - Len(q) \in 1 .. Len(p) /\ (i - Len(q)) + 1 \in 1 .. Len(p)
      BY <1>1, <3>1
    <3> DEFINE j == i - Len(q)
    <3> HIDE DEF j
    <3>3. x[i] = p[j] /\ x[i + 1] = p[j + 1]
      <4>1. j \in 1 .. Len(p) /\ j + 1 \in 1 .. Len(p) /\ i = Len(q) + j /\ i + 1 = Len(q) + (j + 1)
        BY <3>1, <3>2 DEF j
      <4> QED
        BY <1>1, <4>1
    <3> QED
      BY <1>3, <3>1, <3>3 DEF j
  <2> QED
    BY <1>1, <2>1, <2>2, <2>3
<1>6. Final(Len(reqs), x[Len(x)])
  <2>1. Len(p) \in 1 .. Len(p) /\ Len(x) = Len(q) + Len(p)
    BY <1>1, <1>2
  <2> QED
    BY <1>1, <1>3, <2>1
<1> QED
  BY <1>4, <1>5, <1>6 DEF Reads, x

(* The elements of a request are a stream of their own. *)
LEMMA StreamReads ==
  ASSUME NEW reqs \in Seq(Asked), NEW raw, NEW n \in Nat \ {0}, n = Len(reqs),
         reqs[n].conn = "upgrade" => reqs[n].body = 0
  PROVE  LET p == Stream(n, reqs[n])
         IN /\ p \in Seq(Elements) /\ p # <<>> /\ p[1].kind = "url1" /\ p[1].r = n
            /\ Reads(reqs, raw, FALSE, p)
<1> DEFINE a == reqs[n]
           k == a.body
           m == IF a.conn = "keep" THEN 2 ELSE 0
           A == <<El(n, "url1", 0), El(n, "url2", 0)>>
           B == IF a.conn = "keep" THEN <<El(n, "value1", 0), El(n, "value2", 0)>> ELSE <<>>
           e == El(n, IF a.conn = "upgrade" THEN "upgrade" ELSE "end", k)
           C == <<e>>
           D == [i \in 1 .. k |-> El(n, "data", k - i)]
           p == Stream(n, a)
<1>1. a \in Asked /\ a.conn \in {"none", "keep", "upgrade"} /\ k \in Nat
  <2>1. n \in 1 .. Len(reqs) /\ MaxBody \in Nat
    BY WebAssumption
  <2>2. a \in Asked
    BY <2>1, ElementOfSeq
  <2> QED
    BY <2>1, <2>2 DEF Asked
<1>2. m \in Nat /\ m <= 2 /\ k \in Nat
  BY <1>1
<1> HIDE DEF a, k
<1>3. A \in Seq(Elements) /\ Len(A) = 2 /\ A[1] = El(n, "url1", 0) /\ A[2] = El(n, "url2", 0)
  <2>1. El(n, "url1", 0) \in Elements /\ El(n, "url2", 0) \in Elements
    BY DEF Elements, El
  <2> QED
    BY <2>1
<1>4. /\ B \in Seq(Elements) /\ Len(B) = m
      /\ m = 2 => B[1] = El(n, "value1", 0) /\ B[2] = El(n, "value2", 0)
  <2>1. El(n, "value1", 0) \in Elements /\ El(n, "value2", 0) \in Elements
    BY DEF Elements, El
  <2>2. CASE a.conn = "keep"
    BY <2>1, <2>2
  <2>3. CASE a.conn # "keep"
    BY <2>3
  <2> QED
    BY <2>2, <2>3
<1>5. e \in Elements /\ C \in Seq(Elements) /\ Len(C) = 1 /\ C[1] = e
  BY <1>1 DEF Elements, El
<1>6. D \in Seq(Elements) /\ Len(D) = k /\ \A i \in 1 .. k : D[i] = El(n, "data", k - i)
  <2>1. \A i \in 1 .. k : El(n, "data", k - i) \in Elements
    BY <1>1 DEF Elements, El
  <2>2. D \in Seq(Elements)
    BY <1>1, <2>1, IsASeq
  <2> QED
    BY <1>1, <2>2, LenProperties
<1>7. p = ((A \o B) \o C) \o D
  BY DEF Stream, k
<1> HIDE DEF p, A, B, C, D, e, m
<1>8. /\ A \o B \in Seq(Elements) /\ Len(A \o B) = 2 + m
      /\ (A \o B)[1] = El(n, "url1", 0) /\ (A \o B)[2] = El(n, "url2", 0)
      /\ m = 2 => (A \o B)[3] = El(n, "value1", 0) /\ (A \o B)[4] = El(n, "value2", 0)
  <2>0. A \in Seq(Elements) /\ B \in Seq(Elements)
    BY <1>3, <1>4
  <2>1. /\ A \o B \in Seq(Elements) /\ Len(A \o B) = Len(A) + Len(B)
        /\ \A i \in 1 .. Len(A) : (A \o B)[i] = A[i]
        /\ \A i \in 1 .. Len(B) : (A \o B)[Len(A) + i] = B[i]
    BY <2>0, ConcatFacts
  <2> QED
    BY <1>2, <1>3, <1>4, <2>1
<1> DEFINE AB == A \o B
<1> HIDE DEF AB
<1>9. /\ AB \o C \in Seq(Elements) /\ Len(AB \o C) = 3 + m
      /\ \A i \in 1 .. 2 + m : (AB \o C)[i] = AB[i]
      /\ (AB \o C)[3 + m] = e
  <2>0. AB \in Seq(Elements) /\ C \in Seq(Elements)
    BY <1>5, <1>8 DEF AB
  <2>1. AB \in Seq(Elements) /\ Len(AB) = 2 + m
    BY <1>8 DEF AB
  <2>2. /\ AB \o C \in Seq(Elements) /\ Len(AB \o C) = Len(AB) + Len(C)
        /\ \A i \in 1 .. Len(AB) : (AB \o C)[i] = AB[i]
        /\ \A i \in 1 .. Len(C) : (AB \o C)[Len(AB) + i] = C[i]
    BY <2>0, ConcatFacts
  <2> QED
    BY <1>2, <1>5, <2>1, <2>2
<1> DEFINE ABC == AB \o C
<1> HIDE DEF ABC
<1>10. /\ p \in Seq(Elements) /\ Len(p) = 3 + m + k
       /\ \A i \in 1 .. 3 + m : p[i] = ABC[i]
       /\ \A i \in 1 .. k : p[3 + m + i] = El(n, "data", k - i)
  <2>0. ABC \in Seq(Elements) /\ D \in Seq(Elements)
    BY <1>6, <1>9 DEF ABC
  <2>1. ABC \in Seq(Elements) /\ Len(ABC) = 3 + m /\ p = ABC \o D
    BY <1>7, <1>9 DEF ABC, AB
  <2>2. /\ ABC \o D \in Seq(Elements) /\ Len(ABC \o D) = Len(ABC) + Len(D)
        /\ \A i \in 1 .. Len(ABC) : (ABC \o D)[i] = ABC[i]
        /\ \A i \in 1 .. Len(D) : (ABC \o D)[Len(ABC) + i] = D[i]
    BY <2>0, ConcatFacts
  <2> QED
    BY <1>2, <1>6, <2>1, <2>2
<1>11. /\ p[1] = El(n, "url1", 0) /\ p[2] = El(n, "url2", 0)
       /\ m = 2 => p[3] = El(n, "value1", 0) /\ p[4] = El(n, "value2", 0)
       /\ p[3 + m] = e
       /\ \A i \in 1 .. k : p[3 + m + i] = El(n, "data", k - i)
  <2>1. 1 \in 1 .. 2 + m /\ 1 \in 1 .. 3 + m /\ 2 \in 1 .. 2 + m /\ 2 \in 1 .. 3 + m
        /\ 3 + m \in 1 .. 3 + m
    BY <1>2
  <2>2. p[1] = AB[1] /\ p[2] = AB[2] /\ p[3 + m] = e
    <3>1. ABC[1] = AB[1] /\ ABC[2] = AB[2] /\ ABC[3 + m] = e
      BY <1>9, <2>1 DEF ABC
    <3> QED
      BY <1>10, <2>1, <3>1
  <2>3. m = 2 => p[3] = AB[3] /\ p[4] = AB[4]
    <3>1. m = 2 => 3 \in 1 .. 2 + m /\ 3 \in 1 .. 3 + m /\ 4 \in 1 .. 2 + m /\ 4 \in 1 .. 3 + m
      OBVIOUS
    <3>2. m = 2 => p[3] = ABC[3] /\ p[4] = ABC[4]
      BY <1>10, <3>1
    <3>3. m = 2 => ABC[3] = AB[3] /\ ABC[4] = AB[4]
      BY <1>9, <3>1 DEF ABC
    <3> QED
      BY <3>2, <3>3
  <2> QED
    BY <1>8, <1>10, <2>2, <2>3 DEF AB
<1>12. ASSUME NEW i \in 1 .. Len(p)
       PROVE  i = 1 \/ i = 2 \/ (m = 2 /\ i \in {3, 4}) \/ i = 3 + m
              \/ (i - (3 + m) \in 1 .. k /\ i = 3 + m + (i - (3 + m)))
  <2>1. m \in {0, 2}
    BY DEF m
  <2> QED
    BY <1>1, <1>10, <2>1
<1>13. /\ m = 2 <=> a.conn = "keep"
       /\ reqs[n] = a /\ a.body = k /\ n \in 1 .. Len(reqs) /\ (a.conn = "upgrade" => k = 0)
  BY DEF m, a, k
<1>14. /\ El(n, "url1", 0).r = n /\ El(n, "url1", 0).kind = "url1"
       /\ El(n, "url2", 0).r = n /\ El(n, "url2", 0).kind = "url2"
       /\ El(n, "value1", 0).r = n /\ El(n, "value1", 0).kind = "value1"
       /\ El(n, "value2", 0).r = n /\ El(n, "value2", 0).kind = "value2"
       /\ e.r = n /\ e.kind = (IF a.conn = "upgrade" THEN "upgrade" ELSE "end")
       /\ e.body = k
       /\ \A i \in Int : El(n, "data", i).r = n /\ El(n, "data", i).kind = "data"
                         /\ El(n, "data", i).body = i
  BY DEF El, e, k
<1>15. ASSUME NEW i \in 1 .. Len(p) PROVE Belongs(reqs, raw, p[i])
  <2>1. CASE i = 1
    BY <1>11, <1>13, <1>14, <2>1 DEF Belongs
  <2>0. CASE i = 2
    BY <1>11, <1>13, <1>14, <2>0 DEF Belongs
  <2>2. CASE m = 2 /\ i = 3
    BY <1>11, <1>13, <1>14, <2>2 DEF Belongs
  <2>3. CASE m = 2 /\ i = 4
    BY <1>11, <1>13, <1>14, <2>3 DEF Belongs
  <2>4. CASE i = 3 + m
    BY <1>1, <1>11, <1>13, <1>14, <2>4 DEF Belongs
  <2>5. CASE i - (3 + m) \in 1 .. k /\ i = 3 + m + (i - (3 + m))
    <3> DEFINE j == i - (3 + m)
    <3>1. j \in 1 .. k /\ i = 3 + m + j /\ k - j \in Int /\ k - j < k
      BY <1>1, <2>5
    <3> HIDE DEF j
    <3>2. p[i] = El(n, "data", k - j)
      BY <1>11, <3>1
    <3>3. p[i].r = n /\ p[i].kind = "data" /\ p[i].body = k - j
      BY <1>14, <3>1, <3>2
    <3> QED
      BY <1>13, <3>1, <3>3 DEF Belongs
  <2> QED
    BY <1>12, <2>0, <2>1, <2>2, <2>3, <2>4, <2>5
<1>16. ASSUME NEW i \in 1 .. Len(p) - 1 PROVE Follows(reqs, p[i], p[i + 1])
  <2>0. i \in 1 .. Len(p) /\ Len(p) = 3 + m + k
    BY <1>1, <1>2, <1>10
  <2>6. CASE i = 1
    <3>1. p[i + 1] = El(n, "url2", 0)
      BY <1>11, <2>6
    <3> QED
      BY <1>11, <1>14, <2>6, <3>1 DEF Follows
  <2>1. CASE i = 2
    <3>1. CASE m = 2
      <4>1. p[i + 1] = El(n, "value1", 0)
        BY <1>11, <2>1, <3>1
      <4> QED
        BY <1>11, <1>13, <1>14, <2>1, <3>1, <4>1 DEF Follows, AfterUrl
    <3>2. CASE m # 2
      <4>1. p[i + 1] = e
        BY <1>11, <2>1, <3>2 DEF m
      <4> QED
        BY <1>11, <1>13, <1>14, <2>1, <3>2, <4>1 DEF Follows, AfterUrl
    <3> QED
      BY <3>1, <3>2
  <2>2. CASE m = 2 /\ i = 3
    BY <1>11, <1>14, <2>2 DEF Follows
  <2>3. CASE m = 2 /\ i = 4
    <3>1. p[i + 1] = e /\ e.kind = "end"
      BY <1>11, <1>13, <1>14, <2>3
    <3> QED
      BY <1>11, <1>14, <2>3, <3>1 DEF Follows
  <2>4. CASE i = 3 + m
    <3>1. k > 0 /\ 1 \in 1 .. k
      BY <1>1, <1>2, <2>0, <2>4
    <3>2. p[i + 1] = El(n, "data", k - 1) /\ k - 1 \in Int
      BY <1>1, <1>11, <2>4, <3>1
    <3> QED
      BY <1>11, <1>13, <1>14, <2>4, <3>1, <3>2 DEF Follows
  <2>5. CASE i - (3 + m) \in 1 .. k /\ i = 3 + m + (i - (3 + m))
    <3> DEFINE j == i - (3 + m)
    <3>1. /\ p[i] = El(n, "data", k - j) /\ k - j \in Int
      BY <1>1, <1>11, <2>5
    <3>2. j + 1 \in 1 .. k /\ i + 1 = 3 + m + (j + 1) /\ k - j > 0
          /\ k - (j + 1) = (k - j) - 1 /\ k - (j + 1) \in Int
      <4>1. i \in Nat /\ i <= 2 + m + k /\ m \in Nat /\ k \in Nat
        BY <1>2, <2>0
      <4>2. j \in 1 .. k - 1
        BY <2>5, <4>1
      <4>3. i + 1 = 3 + m + (j + 1)
        BY <4>1
      <4> HIDE DEF j
      <4> QED
        BY <4>1, <4>2, <4>3
    <3>3. p[i + 1] = El(n, "data", k - (j + 1))
      BY <1>11, <3>2
    <3> HIDE DEF j
    <3>4. /\ p[i].kind = "data" /\ p[i].r = n /\ p[i].body = k - j
          /\ p[i + 1].kind = "data" /\ p[i + 1].r = n /\ p[i + 1].body = k - (j + 1)
      <4>1. k - j \in Int /\ k - (j + 1) \in Int
        BY <3>1, <3>2
      <4> QED
        BY <1>14, <3>1, <3>3, <4>1
    <3> QED
      BY <3>2, <3>4 DEF Follows
  <2> QED
    BY <1>12, <2>0, <2>1, <2>2, <2>3, <2>4, <2>5, <2>6
<1>17. Final(Len(reqs), p[Len(p)])
  <2>1. CASE k = 0
    <3>1. p[Len(p)] = e
      BY <1>2, <1>10, <1>11, <2>1
    <3> QED
      BY <1>14, <2>1, <3>1 DEF Final
  <2>2. CASE k # 0
    <3>1. k \in 1 .. k /\ Len(p) = 3 + m + k
      BY <1>1, <1>10, <2>2
    <3>2. p[Len(p)] = El(n, "data", k - k) /\ k - k = 0
      BY <1>1, <1>11, <3>1
    <3> QED
      BY <1>14, <3>2 DEF Final
  <2> QED
    BY <2>1, <2>2
<1>18. p # <<>>
  BY <1>1, <1>2, <1>10
<1> QED
  BY <1>10, <1>11, <1>14, <1>15, <1>16, <1>17, <1>18 DEF Reads, p, a, k

-----------------------------------------------------------------------------
(* The state of a connection that is not closed. *)

Standing == Types /\ Asking /\ Live /\ s.conn # "closed" /\ s.alive

(* The types of the fields. *)
LEMMA FieldTypes ==
  ASSUME Types
  PROVE  /\ s.wire \in Seq(Tokens) /\ s.wreq \in Seq(Tokens) /\ s.alive \in BOOLEAN
         /\ s.bottled \in BOOLEAN /\ s.upgrade \in BOOLEAN /\ s.response \in Responses
         /\ s.conn \in {"open", "shutting", "closed"}
         /\ s.connection \in {"none", "piece", "keep-alive"}
         /\ s.refs \in Int /\ s.closing \in BOOLEAN /\ s.onData \in BOOLEAN
         /\ cl.reqs \in Seq(Asked) /\ cl.n \in Nat /\ cl.raw \in Nat
         /\ cl.gone \in BOOLEAN /\ cl.cut \in BOOLEAN /\ Len(cl.reqs) \in Nat
         /\ parser.state \in {"start", "url", "headers", "body", "error"} /\ parser.left \in Int
         /\ Out \in Seq(Tokens) /\ Rest \in Seq(Elements)
<1>1. s.wire \in Seq(Tokens) /\ s.wreq \in Seq(Tokens) /\ buf \in Seq(Elements)
      /\ input \in Seq(Elements)
  BY DEF Types, Connections
<1>2. Out \in Seq(Tokens)
  BY <1>1, ConcatFacts DEF Out
<1>3. Rest \in Seq(Elements)
  BY <1>1, ConcatFacts DEF Rest
<1>4. cl.reqs \in Seq(Asked)
  BY DEF Types, Clients
<1>5. Len(cl.reqs) \in Nat
  BY <1>4, LenProperties
<1> QED
  BY <1>1, <1>2, <1>3, <1>4, <1>5 DEF Types, Connections, Clients, Parsers

(* The rest, and the part of it that has been read. *)
LEMMA RestFacts ==
  ASSUME Types
  PROVE  /\ Rest \in Seq(Elements) /\ buf \in Seq(Elements) /\ input \in Seq(Elements)
         /\ Len(Rest) = Len(buf) + Len(input) /\ Len(buf) \in Nat /\ Len(input) \in Nat
         /\ \A i \in 1 .. Len(buf) : Rest[i] = buf[i] /\ i \in 1 .. Len(Rest)
         /\ buf = <<>> => Rest = input
         /\ buf # <<>> => Rest # <<>> /\ 1 \in 1 .. Len(buf) /\ Rest[1] = buf[1]
         /\ \A i \in 1 .. Len(Rest) : Rest[i] \in Elements
<1>1. buf \in Seq(Elements) /\ input \in Seq(Elements)
  BY DEF Types
<1>2. /\ Rest \in Seq(Elements) /\ Len(Rest) = Len(buf) + Len(input)
      /\ Len(buf) \in Nat /\ Len(input) \in Nat
      /\ \A i \in 1 .. Len(buf) : Rest[i] = buf[i] /\ i \in 1 .. Len(Rest)
      /\ buf = <<>> => Rest = input
  BY <1>1, ConcatFacts DEF Rest
<1>3. buf # <<>> => 1 \in 1 .. Len(buf)
  BY <1>1, <1>2, EmptySeq
<1>4. \A i \in 1 .. Len(Rest) : Rest[i] \in Elements
  BY <1>2, ElementOfSeq
<1>5. Rest = <<>> => Len(Rest) = 0
  BY <1>2, EmptySeq
<1>6. buf # <<>> => Rest # <<>> /\ Rest[1] = buf[1]
  BY <1>2, <1>3, <1>5
<1> QED
  BY <1>1, <1>2, <1>3, <1>4, <1>6

(* The first element of the rest belongs to one of the requests. *)
LEMMA FirstBelongs ==
  ASSUME Types, Script, Rest # <<>>
  PROVE  Belongs(cl.reqs, cl.raw, Rest[1]) /\ Rest[1] \in Elements /\ 1 \in 1 .. Len(Rest)
<1>1. 1 \in 1 .. Len(Rest)
  BY RestFacts, EmptySeq
<1> QED
  BY <1>1, RestFacts DEF Script, Reads

(* Between two callbacks the parser is what it will be. *)
LEMMA ResumedFacts ==
  ASSUME at \notin {"onRequest", "onData"}
  PROVE  Resumed = parser
  BY DEF Resumed

(* A step that leaves what is written, and the answers to write, alone. *)
LEMMA FramingStays ==
  ASSUME Types, Framing, Current \in 0 .. Len(cl.reqs),
         s'.wire = s.wire, s'.wreq = s.wreq, s'.bottled = s.bottled,
         s'.response = s.response, todo' = todo, todo # <<>> => s'.upgrade = s.upgrade,
         \A r \in 1 .. Current : cl'.reqs[r] = cl.reqs[r]
  PROVE  Framing' /\ Current' = Current /\ Out' = Out
<1>1. Out' = Out
  BY DEF Out
<1>2. Current' = Current
  BY <1>1 DEF Current
<1>3. \A r \in 1 .. Current : Answered(r) => Answered(r)'
  BY DEF Answered
<1>4. todo # <<>> => Awaits(Out, todo[1], s)'
  BY <1>1 DEF Framing, Awaits
<1>5. \A r \in 1 .. Current' : r < Current' \/ todo' = <<>> => Answered(r)'
  BY <1>2, <1>3 DEF Framing
<1>6. InOrder(Out, Current)'
  BY <1>1, <1>2 DEF Framing
<1> QED
  BY <1>1, <1>2, <1>4, <1>5, <1>6 DEF Framing

(* What the parser is about to look at. *)
LEMMA AtParse ==
  ASSUME Standing, at = "parse"
  PROVE  /\ buf # <<>> /\ Rest # <<>> /\ Rest[1] = buf[1] /\ Rest[1] \in Elements
         /\ Belongs(cl.reqs, cl.raw, Rest[1])
         /\ Resumed = parser /\ ~s.upgrade /\ (s.conn = "shutting" => cl.cut)
         /\ Expected(parser, Rest[1].kind)
         /\ Rest[1].kind # "data" => Rest[1].r = Current + 1 /\ todo = <<>>
         /\ Rest[1].kind = "data" => parser.state = "body" /\ Rest[1].r = Current
         /\ mode = "pipelined" => todo = <<>>
         /\ Current \in 0 .. Len(cl.reqs)
<1> USE DEF Standing, Live
<1>1. buf # <<>> /\ Rest # <<>> /\ Rest[1] = buf[1] /\ 1 \in 1 .. Len(buf)
  BY RestFacts DEF Position
<1>2. Belongs(cl.reqs, cl.raw, Rest[1]) /\ Rest[1] \in Elements
  BY <1>1, FirstBelongs
<1>3. Resumed = parser
  BY ResumedFacts
<1>4. ~s.upgrade
  BY <1>1 DEF Turn
<1>5. s.conn = "shutting" => cl.cut
  BY <1>1 DEF Shut
<1>6. Meets(parser, s.upgrade, Rest, Current, Len(cl.reqs), cl.cut)
  BY <1>3 DEF Position
<1>7. parser.state \in {"start", "url", "headers", "body", "error"}
  BY FieldTypes
<1>8. /\ parser.state = "start" => Rest[1].kind = "url1" /\ Rest[1].r = Current + 1
      /\ parser.state = "url" => Rest[1].kind = "url2" /\ Rest[1].r = Current + 1
      /\ parser.state = "headers" =>
           Rest[1].kind \in {"value1", "value2", "end", "upgrade"} /\ Rest[1].r = Current + 1
      /\ parser.state = "body" => Rest[1].kind = "data" /\ Rest[1].r = Current
      /\ parser.state # "error"
  BY <1>1, <1>4, <1>6, <1>7 DEF Meets
<1>9. Expected(parser, Rest[1].kind)
  BY <1>7, <1>8 DEF Expected
<1>10. Current \in 0 .. Len(cl.reqs)
  BY DEF Turn
<1>11. mode = "pipelined" => todo = <<>>
  BY DEF Turn
<1>12. ASSUME Rest[1].kind # "data" PROVE Rest[1].r = Current + 1 /\ todo = <<>>
  <2>1. Rest[1].r = Current + 1
    BY <1>7, <1>8, <1>12
  <2>2. mode = "sequential" /\ todo # <<>> => buf[1].r <= Current
    BY <1>1 DEF Turn
  <2>3. mode \in {"sequential", "pipelined"} /\ Current \in Nat
    BY <1>10, FieldTypes DEF Types
  <2> QED
    BY <1>1, <1>11, <2>1, <2>2, <2>3
<1> QED
  BY <1>1, <1>2, <1>3, <1>4, <1>5, <1>7, <1>8, <1>9, <1>10, <1>11, <1>12

-----------------------------------------------------------------------------
(* The parser goes through its chunk. *)

(* The parser takes the first k elements of the chunk. *)
LEMMA Taken ==
  ASSUME Standing, Types', NEW k \in Nat \ {0}, Drops(buf, buf', k), buf # <<>>,
         cl' = cl, input' = input, seen' = seen + k
  PROVE  /\ Script' /\ Drops(Rest, Rest', k)
         /\ Rest' # <<>> => Follows(cl.reqs, Rest[k], Rest'[1])
         /\ Rest' = <<>> => cl.cut \/ Final(Len(cl.reqs), Rest[k])
         /\ ~cl.cut => cl.n = seen' + Len(buf') + Len(input')
         /\ buf' # <<>> => buf'[Len(buf')] = buf[Len(buf)]
         /\ Rest' \in Seq(Elements)
         /\ Rest' # <<>> => Belongs(cl.reqs, cl.raw, Rest'[1])
         /\ \A i \in 1 .. Len(buf') : buf'[i].r \in 1 .. Len(cl.reqs)
<1> USE DEF Standing, Live
<1>1. /\ buf \in Seq(Elements) /\ buf' \in Seq(Elements) /\ input \in Seq(Elements)
      /\ Rest \in Seq(Elements)
  BY FieldTypes DEF Types
<1>2. Rest' = buf' \o input
  BY DEF Rest
<1>3. Rest' \in Seq(Elements)
  BY <1>1, <1>2, ConcatFacts
<1>4. Drops(Rest, Rest', k)
  BY <1>1, <1>2, DropsInFront DEF Rest
<1>5. Reads(cl.reqs, cl.raw, cl.cut, Rest)
  BY DEF Script
<1> DEFINE q == Rest
           p == Rest'
<1>6. /\ q \in Seq(Elements) /\ p \in Seq(Elements) /\ Drops(q, p, k)
      /\ Reads(cl.reqs, cl.raw, cl.cut, q)
  BY <1>1, <1>3, <1>4, <1>5
<1> HIDE DEF p, q
<1>7. /\ Reads(cl.reqs, cl.raw, cl.cut, p)
      /\ k > 0 /\ p # <<>> => Follows(cl.reqs, q[k], p[1])
      /\ k > 0 /\ p = <<>> /\ ~cl.cut => Final(Len(cl.reqs), q[k])
  BY <1>6, ReadsDropped
<1>8. Script'
  BY <1>7 DEF Script, p
<1>9. Len(buf') = Len(buf) - k /\ Len(buf) \in Nat /\ Len(buf') \in Nat
      /\ \A i \in 1 .. Len(buf') : buf'[i] = buf[i + k]
  BY <1>1, LenProperties DEF Drops
<1>10. ~cl.cut => cl.n = seen' + Len(buf') + Len(input')
  <2>1. ~cl.cut => cl.n = seen + Len(buf) + Len(input)
    BY DEF Position
  <2>2. Len(input) \in Nat /\ seen \in Nat
    BY <1>1, LenProperties DEF Types
  <2> QED
    BY <1>9, <2>1, <2>2
<1>11. buf' # <<>> => buf'[Len(buf')] = buf[Len(buf)]
  <2>1. buf' # <<>> => Len(buf') > 0
    BY <1>1, EmptySeq
  <2> QED
    BY <1>9, <2>1
<1>12. p # <<>> => Belongs(cl.reqs, cl.raw, p[1])
  <2>1. p # <<>> => 1 \in 1 .. Len(p)
    BY <1>6, EmptySeq
  <2> QED
    BY <1>7, <2>1 DEF Reads
<1>13. ASSUME NEW i \in 1 .. Len(buf') PROVE buf'[i].r \in 1 .. Len(cl.reqs)
  <2>1. i + k \in 1 .. Len(buf) /\ buf'[i] = buf[i + k]
    BY <1>9
  <2>2. \A j \in 1 .. Len(buf) : Rest[j] = buf[j] /\ j \in 1 .. Len(Rest)
    BY RestFacts
  <2>3. \A j \in 1 .. Len(Rest) : Rest[j].r \in 1 .. Len(cl.reqs)
    BY <1>5 DEF Reads, Belongs
  <2> QED
    BY <2>1, <2>2, <2>3
<1> QED
  BY <1>3, <1>4, <1>7, <1>8, <1>10, <1>11, <1>12, <1>13 DEF p, q

(* A request begins, with a URL or a half of it that parseUrl takes. *)
LEMMA UrlExecuted ==
  ASSUME Standing, at = "parse", execute_url, UNCHANGED <<mode, cl, input>>
  PROVE  Standing'
<1> USE DEF Standing, Live
<1> DEFINE k == UrlPieces
           half == k = 1 /\ Rest[1].kind = "url1"
<1>0. /\ buf # <<>> /\ Rest # <<>> /\ Rest[1] = buf[1] /\ Rest[1].kind \in {"url1", "url2"}
      /\ Rest[1].r = Current + 1 /\ todo = <<>> /\ ~s.upgrade
      /\ Belongs(cl.reqs, cl.raw, Rest[1]) /\ (s.conn = "shutting" => cl.cut)
      /\ Current \in 0 .. Len(cl.reqs)
  BY AtParse DEF execute_url, AtUrl
<1>1. /\ s' = (IF buf[1].kind = "url1" THEN [s EXCEPT !.connection = "none", !.upgrade = FALSE]
               ELSE s)
      /\ parser' = [state |-> IF half THEN "url" ELSE "headers", left |-> 0]
      /\ buf' = SubSeq(buf, k + 1, Len(buf)) /\ seen' = seen + k
      /\ at' = (IF Len(buf) = k THEN "loop" ELSE "parse") /\ todo' = todo
      /\ mode' = mode /\ cl' = cl /\ input' = input
  BY <1>0 DEF execute_url, onMessageBegin, GoesOn
<1>2. buf \in Seq(Elements) /\ Len(buf) \in Nat /\ 1 \in 1 .. Len(buf) /\ k \in 1 .. Len(buf)
      /\ k \in {1, 2} /\ (k = 2 => Rest[1].kind = "url1" /\ Rest[2] = buf[2])
  <2>1. buf \in Seq(Elements) /\ Len(buf) \in Nat /\ 1 \in 1 .. Len(buf)
        /\ \A i \in 1 .. Len(buf) : Rest[i] = buf[i]
    BY <1>0, RestFacts
  <2>2. CASE Len(buf) > 1 /\ buf[1].kind = "url1"
    <3>1. k = 2 /\ 2 \in 1 .. Len(buf)
      BY <2>1, <2>2 DEF UrlPieces
    <3> QED
      BY <1>0, <2>1, <2>2, <3>1
  <2>3. CASE ~(Len(buf) > 1 /\ buf[1].kind = "url1")
    <3>1. k = 1
      BY <2>3 DEF UrlPieces
    <3> HIDE DEF k
    <3> QED
      BY <2>1, <3>1
  <2> QED
    BY <2>2, <2>3
<1> HIDE DEF k
<1>3. buf' \in Seq(Elements) /\ Drops(buf, buf', k)
  BY <1>1, <1>2, SubSeqFacts
<1>4. /\ s' \in Connections /\ s'.wire = s.wire /\ s'.wreq = s.wreq /\ s'.bottled = s.bottled
      /\ s'.response = s.response /\ s'.conn = s.conn /\ s'.alive = s.alive /\ s'.upgrade = FALSE
      /\ s'.refs = s.refs /\ s'.closing = s.closing /\ s'.onData = s.onData
  BY <1>0, <1>1 DEF Types, Connections
<1>5. Types'
  <2>1. parser' \in Parsers /\ seen' \in Nat
    BY <1>1, <1>2 DEF Types, Parsers
  <2> QED
    BY <1>1, <1>3, <1>4, <2>1 DEF Types
<1>6. /\ Script' /\ Drops(Rest, Rest', k)
      /\ Rest' # <<>> => Follows(cl.reqs, Rest[k], Rest'[1])
      /\ Rest' = <<>> => cl.cut \/ Final(Len(cl.reqs), Rest[k])
      /\ ~cl.cut => cl.n = seen' + Len(buf') + Len(input')
      /\ buf' # <<>> => buf'[Len(buf')] = buf[Len(buf)]
  <2>1. k \in Nat \ {0}
    BY <1>2
  <2> QED
    BY <1>0, <1>1, <1>3, <1>5, <2>1, Taken
<1>7. Framing' /\ Current' = Current
  BY <1>0, <1>1, <1>4, FramingStays
<1>8. Resumed' = parser'
  BY <1>1 DEF Resumed
<1>9. /\ Rest[k].r = Current + 1 /\ Rest[k].kind = (IF half THEN "url1" ELSE "url2")
  <2>1. CASE k = 1
    BY <1>0, <2>1
  <2>2. CASE k = 2
    <3>1. Follows(cl.reqs, Rest[1], Rest[2])
      <4>1. \A i \in 1 .. Len(Rest) - 1 : Follows(cl.reqs, Rest[i], Rest[i + 1])
        BY DEF Script, Reads
      <4>2. 1 \in 1 .. Len(Rest) - 1
        BY <1>2, <2>2, RestFacts
      <4> QED
        BY <4>1, <4>2
    <3> QED
      BY <1>0, <1>2, <2>2, <3>1 DEF Follows
  <2> QED
    BY <1>2, <2>1, <2>2
<1>10. Rest' = <<>> => cl.cut
  BY <1>6, <1>9 DEF Final
<1>11. Rest' # <<>> => /\ Rest'[1].r = Current + 1
                       /\ Rest'[1].kind = (IF half THEN "url2"
                                           ELSE AfterUrl(cl.reqs[Current + 1].conn))
  BY <1>6, <1>9 DEF Follows
<1>12. parser'.state = (IF half THEN "url" ELSE "headers")
  BY <1>1
<1> HIDE DEF half
<1>13. Position'
  <2>1. Meets(parser', FALSE, Rest', Current, Len(cl.reqs), cl.cut)
    BY <1>10, <1>11, <1>12 DEF Meets, AfterUrl
  <2>2. at' = "loop" => buf' = <<>>
    <3>1. Len(buf) = k => Len(buf') = 0
      BY <1>2, <1>3 DEF Drops
    <3> QED
      BY <1>1, <1>3, <3>1, EmptySeq
  <2>3. at' = "parse" => buf' # <<>>
    <3>1. Len(buf) # k => Len(buf') # 0
      BY <1>2, <1>3 DEF Drops
    <3> QED
      BY <1>1, <1>3, <3>1, EmptySeq
  <2>4. at' \in {"loop", "parse"}
    BY <1>1
  <2>5. Meets(Resumed, s.upgrade, Rest, Current, Len(cl.reqs), cl.cut)'
    BY <1>1, <1>4, <1>7, <1>8, <2>1
  <2> QED
    BY <1>6, <2>2, <2>3, <2>4, <2>5 DEF Position
<1>14. Turn'
  BY <1>0, <1>1, <1>4, <1>7 DEF Turn
<1>15. Recognised'
  <2>1. ASSUME Rest' # <<>>, Resumed'.state = "headers"
        PROVE  /\ Rest'[1].kind # "value2"
               /\ Rest'[1].kind = "end" => cl.reqs[Rest'[1].r].conn # "keep"
    BY <1>8, <1>11, <1>12, <2>1 DEF AfterUrl
  <2>2. mode = "pipelined" /\ buf' # <<>> => buf'[Len(buf')].kind # "value1"
    BY <1>0, <1>6 DEF Recognised
  <2> QED
    BY <1>0, <1>1, <2>1, <2>2 DEF Recognised
<1>16. Shut'
  <2>1. s'.conn = "shutting" => cl'.cut
    BY <1>0, <1>1, <1>4
  <2> QED
    BY <1>0, <1>1, <1>4, <2>1 DEF Shut
<1>17. Asking'
  BY <1>1, <1>4 DEF Asking
<1> QED
  BY <1>4, <1>5, <1>6, <1>7, <1>13, <1>14, <1>15, <1>16, <1>17

(* A header value, or a half of it. *)
LEMMA ValueExecuted ==
  ASSUME Standing, at = "parse", execute_value, UNCHANGED <<mode, cl, input>>
  PROVE  Standing'
<1> USE DEF Standing, Live
<1> DEFINE k == IF Len(buf) > 1 /\ buf[1].kind = "value1" THEN 2 ELSE 1
           value == IF k = 2 THEN "keep-alive" ELSE "piece"
<1>0. /\ buf # <<>> /\ Rest # <<>> /\ Rest[1] = buf[1] /\ Rest[1].kind \in {"value1", "value2"}
      /\ Rest[1].r = Current + 1 /\ todo = <<>> /\ ~s.upgrade /\ Resumed = parser
      /\ parser.state = "headers"
      /\ Belongs(cl.reqs, cl.raw, Rest[1]) /\ (s.conn = "shutting" => cl.cut)
      /\ Current \in 0 .. Len(cl.reqs)
  <2>1. Rest[1].kind \in {"value1", "value2"}
    BY AtParse DEF execute_value
  <2>2. Expected(parser, Rest[1].kind) /\ parser.state \in {"start", "url", "headers", "body", "error"}
    BY AtParse, FieldTypes
  <2>3. parser.state = "headers"
    BY <2>1, <2>2 DEF Expected
  <2> QED
    BY <2>1, <2>3, AtParse
<1>1. /\ s' = [s EXCEPT !.connection = value]
      /\ parser' = parser /\ buf' = SubSeq(buf, k + 1, Len(buf)) /\ seen' = seen + k
      /\ at' = (IF Len(buf) = k THEN "loop" ELSE "parse") /\ todo' = todo
      /\ mode' = mode /\ cl' = cl /\ input' = input
  BY DEF execute_value, onHeaderValue, GoesOn
<1>2. buf \in Seq(Elements) /\ Len(buf) \in Nat /\ 1 \in 1 .. Len(buf) /\ k \in 1 .. Len(buf)
      /\ k \in {1, 2} /\ (k = 1 /\ Rest[1].kind = "value1" => Len(buf) = 1)
      /\ (k = 2 => Rest[1].kind = "value1" /\ Rest[2] = buf[2])
      /\ value \in {"piece", "keep-alive"}
  <2>1. buf \in Seq(Elements) /\ Len(buf) \in Nat /\ 1 \in 1 .. Len(buf)
        /\ \A i \in 1 .. Len(buf) : Rest[i] = buf[i]
    BY <1>0, RestFacts
  <2>2. CASE Len(buf) > 1 /\ buf[1].kind = "value1"
    <3>1. k = 2 /\ value = "keep-alive" /\ 2 \in 1 .. Len(buf)
      BY <2>1, <2>2
    <3> QED
      BY <1>0, <2>1, <2>2, <3>1
  <2>3. CASE ~(Len(buf) > 1 /\ buf[1].kind = "value1")
    <3>1. k = 1 /\ value = "piece"
      BY <2>3
    <3>2. k \in 1 .. Len(buf)
      BY <2>1, <3>1
    <3>3. Rest[1].kind = "value1" => Len(buf) = 1
      BY <1>0, <2>1, <2>3
    <3> HIDE DEF k, value
    <3> QED
      BY <2>1, <3>1, <3>2, <3>3
  <2> QED
    BY <2>2, <2>3
<1> HIDE DEF k, value
<1>3. buf' \in Seq(Elements) /\ Drops(buf, buf', k)
  BY <1>1, <1>2, SubSeqFacts
<1>4. /\ s' \in Connections /\ s'.wire = s.wire /\ s'.wreq = s.wreq /\ s'.bottled = s.bottled
      /\ s'.response = s.response /\ s'.conn = s.conn /\ s'.alive = s.alive
      /\ s'.upgrade = s.upgrade /\ s'.connection = value
      /\ s'.refs = s.refs /\ s'.closing = s.closing /\ s'.onData = s.onData
  BY <1>1, <1>2 DEF Types, Connections
<1>5. Types'
  <2>1. seen' \in Nat
    BY <1>1, <1>2 DEF Types
  <2> QED
    BY <1>1, <1>3, <1>4, <2>1 DEF Types
<1>6. /\ Script' /\ Drops(Rest, Rest', k)
      /\ Rest' # <<>> => Follows(cl.reqs, Rest[k], Rest'[1])
      /\ Rest' = <<>> => cl.cut \/ Final(Len(cl.reqs), Rest[k])
      /\ ~cl.cut => cl.n = seen' + Len(buf') + Len(input')
      /\ buf' # <<>> => buf'[Len(buf')] = buf[Len(buf)]
  <2>1. k \in Nat \ {0}
    BY <1>2
  <2> QED
    BY <1>0, <1>1, <1>3, <1>5, <2>1, Taken
<1>7. Framing' /\ Current' = Current
  BY <1>0, <1>1, <1>4, FramingStays
<1>8. Resumed' = parser'
  BY <1>1 DEF Resumed
<1>9. /\ Rest[k].r = Current + 1 /\ Rest[k].kind \in {"value1", "value2"}
      /\ k = 2 => Rest[k].kind = "value2"
  <2>1. CASE k = 1
    BY <1>0, <2>1
  <2>2. CASE k = 2
    <3>1. Follows(cl.reqs, Rest[1], Rest[2])
      <4>1. \A i \in 1 .. Len(Rest) - 1 : Follows(cl.reqs, Rest[i], Rest[i + 1])
        BY DEF Script, Reads
      <4>2. 1 \in 1 .. Len(Rest) - 1
        BY <1>2, <2>2, RestFacts
      <4> QED
        BY <4>1, <4>2
    <3> QED
      BY <1>0, <1>2, <2>2, <3>1 DEF Follows
  <2> QED
    BY <1>2, <2>1, <2>2
<1>10. Rest' = <<>> => cl.cut
  BY <1>6, <1>9 DEF Final
<1>11. Rest' # <<>> => /\ Rest'[1].r = Current + 1 /\ Rest'[1].kind \in {"value2", "end"}
                       /\ k = 2 => Rest'[1].kind = "end"
  BY <1>6, <1>9 DEF Follows
<1>12. Position'
  <2>1. Meets(parser', FALSE, Rest', Current, Len(cl.reqs), cl.cut)
    BY <1>0, <1>1, <1>10, <1>11 DEF Meets
  <2>2. at' = "loop" => buf' = <<>>
    <3>1. Len(buf) = k => Len(buf') = 0
      BY <1>2, <1>3 DEF Drops
    <3> QED
      BY <1>1, <1>3, <3>1, EmptySeq
  <2>3. at' = "parse" => buf' # <<>>
    <3>1. Len(buf) # k => Len(buf') # 0
      BY <1>2, <1>3 DEF Drops
    <3> QED
      BY <1>1, <1>3, <3>1, EmptySeq
  <2>4. at' \in {"loop", "parse"}
    BY <1>1
  <2>5. Meets(Resumed, s.upgrade, Rest, Current, Len(cl.reqs), cl.cut)'
    <3>1. s'.upgrade = FALSE
      BY <1>0, <1>4, FieldTypes
    <3> QED
      BY <1>1, <1>7, <1>8, <2>1, <3>1
  <2> QED
    BY <1>6, <2>2, <2>3, <2>4, <2>5 DEF Position
<1>13. Turn'
  BY <1>0, <1>1, <1>4, <1>7 DEF Turn
<1>14. Recognised'
  <2>1. CASE mode = "pipelined"
    <3>1. Rest[1].kind # "value2"
      BY <1>0, <2>1 DEF Recognised
    <3>2. buf[Len(buf)].kind # "value1"
      BY <1>0, <2>1 DEF Recognised
    <3>3. k = 2
      BY <1>0, <1>2, <3>1, <3>2
    <3>4. KeepAlive(s')
      BY <1>4, <3>3 DEF KeepAlive, value
    <3>5. buf' # <<>> => buf'[Len(buf')].kind # "value1"
      BY <1>6, <3>2
    <3>6. Rest' # <<>> => Rest'[1].kind # "value2"
      BY <1>11, <3>3
    <3> QED
      BY <3>4, <3>5, <3>6 DEF Recognised
  <2>2. CASE mode # "pipelined"
    BY <1>1, <2>2 DEF Recognised
  <2> QED
    BY <2>1, <2>2
<1>15. Shut'
  <2>1. s'.conn = "shutting" => cl'.cut
    BY <1>0, <1>1, <1>4
  <2> QED
    BY <1>0, <1>1, <1>4, <2>1 DEF Shut
<1>16. Asking'
  BY <1>1, <1>4 DEF Asking
<1> QED
  BY <1>4, <1>5, <1>6, <1>7, <1>12, <1>13, <1>14, <1>15, <1>16

(* A request that is not kept alive is the last one. *)
LEMMA LastAsked ==
  ASSUME Types, Asking, NEW c \in 1 .. Len(cl.reqs), cl.reqs[c].conn # "keep"
  PROVE  c = Len(cl.reqs)
<1>1. Len(cl.reqs) \in Nat
  BY FieldTypes
<1> QED
  BY <1>1 DEF Asking

(* The head of a request ends: the program is given the request. *)
LEMMA HeadersExecuted ==
  ASSUME Standing, at = "parse", execute_headers, UNCHANGED <<mode, cl, input>>
  PROVE  Standing'
<1> USE DEF Standing, Live
<1> DEFINE e == Rest[1]
           c == Current + 1
           up == e.kind = "upgrade"
           given == Given(c, e.body)
<1>0. /\ buf # <<>> /\ Rest # <<>> /\ e = buf[1] /\ e.kind \in {"end", "upgrade"}
      /\ e.r = c /\ todo = <<>> /\ ~s.upgrade /\ Resumed = parser
      /\ parser.state = "headers" /\ e \in Elements
      /\ Belongs(cl.reqs, cl.raw, e) /\ (s.conn = "shutting" => cl.cut)
      /\ Current \in 0 .. Len(cl.reqs)
  <2>1. Rest[1].kind \in {"end", "upgrade"}
    BY AtParse DEF execute_headers
  <2>2. Expected(parser, Rest[1].kind) /\ parser.state \in {"start", "url", "headers", "body", "error"}
    BY AtParse, FieldTypes
  <2>3. parser.state = "headers"
    BY <2>1, <2>2 DEF Expected
  <2> QED
    BY <2>1, <2>3, AtParse
<1> HIDE DEF e
<1>1. /\ s' = [s EXCEPT !.upgrade = up, !.response = NewResponse]
      /\ parser' = [parser EXCEPT !.left = e.body] /\ todo' = Append(todo, given)
      /\ buf' = Tail(buf) /\ seen' = seen + 1 /\ at' = "onRequest"
      /\ mode' = mode /\ cl' = cl /\ input' = input
  BY <1>0 DEF execute_headers, onHeadersComplete
<1>2. buf \in Seq(Elements) /\ buf' \in Seq(Elements) /\ Drops(buf, buf', 1)
  BY <1>0, <1>1, TailFacts DEF Types
<1>3. /\ c \in 1 .. Len(cl.reqs) /\ Len(cl.reqs) \in Nat /\ Current \in Nat
      /\ up \in BOOLEAN /\ (up <=> cl.reqs[c].conn = "upgrade") /\ (up => e.body = 0)
      /\ e.body = cl.reqs[c].body /\ e.body \in Nat
  <2>1. c \in 1 .. Len(cl.reqs) /\ Len(cl.reqs) \in Nat /\ Current \in Nat
    BY <1>0, FieldTypes DEF Belongs
  <2>2. e.kind = "end" => cl.reqs[c].conn # "upgrade" /\ e.body = cl.reqs[c].body
    BY <1>0 DEF Belongs
  <2>3. e.kind = "upgrade" => cl.reqs[c].conn = "upgrade" /\ e.body = 0
    BY <1>0 DEF Belongs
  <2>4. cl.reqs[c].conn = "upgrade" => cl.reqs[c].body = 0
    BY <2>1 DEF Asking
  <2>5. e.body \in Nat
    BY <1>0 DEF Elements
  <2> QED
    BY <1>0, <2>1, <2>2, <2>3, <2>4, <2>5
<1> HIDE DEF up
<1>4. /\ s' \in Connections /\ s'.wire = s.wire /\ s'.wreq = s.wreq /\ s'.bottled = s.bottled
      /\ s'.response = NewResponse /\ s'.conn = s.conn /\ s'.alive = s.alive
      /\ s'.upgrade = up /\ s'.connection = s.connection
      /\ s'.refs = s.refs /\ s'.closing = s.closing /\ s'.onData = s.onData
  <2>1. NewResponse \in Responses
    BY DEF NewResponse, Responses
  <2> QED
    BY <1>1, <1>3, <2>1 DEF Types, Connections
<1>5. /\ given \in Answers /\ given.r = c /\ given.body = e.body /\ given.framing = "none"
      /\ todo' \in Seq(Answers) /\ Len(todo') = 1 /\ todo' # <<>> /\ todo'[1] = given
  <2>1. /\ given \in Answers /\ given.r = c /\ given.body = e.body /\ given.framing = "none"
    BY <1>3 DEF Given, Answers
  <2> HIDE DEF given
  <2>2. todo' = <<given>>
    BY <1>0, <1>1
  <2> QED
    BY <2>1, <2>2
<1> HIDE DEF given
<1>6. parser' \in Parsers /\ parser'.state = "headers" /\ parser'.left = e.body
  <2>1. parser \in Parsers /\ parser.state = "headers" /\ e.body \in Int
    BY <1>0, <1>3 DEF Types
  <2>2. parser' = [parser EXCEPT !.left = e.body]
    BY <1>1
  <2> QED
    BY <2>1, <2>2 DEF Parsers
<1>7. Types'
  <2>1. seen' \in Nat
    BY <1>1 DEF Types
  <2> QED
    BY <1>1, <1>2, <1>4, <1>5, <1>6, <2>1 DEF Types
<1>8. /\ Script' /\ Drops(Rest, Rest', 1)
      /\ Rest' # <<>> => Follows(cl.reqs, e, Rest'[1])
      /\ Rest' = <<>> => cl.cut \/ Final(Len(cl.reqs), e)
      /\ ~cl.cut => cl.n = seen' + Len(buf') + Len(input')
      /\ buf' # <<>> => buf'[Len(buf')] = buf[Len(buf)]
      /\ Rest' # <<>> => Belongs(cl.reqs, cl.raw, Rest'[1])
      /\ \A i \in 1 .. Len(buf') : buf'[i].r \in 1 .. Len(cl.reqs)
      /\ Rest' \in Seq(Elements)
  <2>1. 1 \in Nat \ {0}
    OBVIOUS
  <2> QED
    BY <1>0, <1>1, <1>2, <1>7, <2>1, Taken DEF e
<1>9. Current' = c
  BY <1>5 DEF Current
<1>10. Out' = Out
  BY <1>4 DEF Out
<1>11. /\ parser'.left > 0 => Resumed'.state = "body" /\ Resumed'.left = e.body
       /\ parser'.left = 0 => Resumed'.state = "start"
  <2>1. Resumed' = [parser' EXCEPT !.state = IF parser'.left > 0 THEN "body" ELSE "start"]
    BY <1>1, <1>6 DEF Resumed
  <2> QED
    BY <1>6, <2>1 DEF Parsers
<1>12. cl.raw = 0 \/ ~up
  BY <1>0, <1>3, FieldTypes DEF Turn
<1>13. up => c = Len(cl.reqs) /\ Rest' = <<>> /\ buf' = <<>>
  <2>1. ASSUME up PROVE c = Len(cl.reqs) /\ cl.raw = 0
    BY <1>3, <1>12, <2>1, LastAsked
  <2>2. ASSUME up, Rest' # <<>> PROVE FALSE
    <3>1. Rest'[1].kind = "raw"
      BY <1>8, <2>2 DEF Follows, up
    <3> QED
      BY <1>8, <2>1, <2>2, <3>1 DEF Belongs
  <2>3. Rest' = <<>> => buf' = <<>>
    <3>1. Rest' = buf' \o input' /\ input' \in Seq(Elements)
      BY <1>1 DEF Rest, Types
    <3>2. Len(Rest') = Len(buf') + Len(input') /\ Len(buf') \in Nat /\ Len(input') \in Nat
      BY <1>2, <3>1, ConcatFacts
    <3> QED
      BY <1>2, <1>8, <3>2, EmptySeq
  <2> QED
    BY <2>1, <2>2, <2>3
<1>14. Meets(Resumed, s.upgrade, Rest, Current, Len(cl.reqs), cl.cut)'
  <2>1. CASE up
    <3>1. e.body = 0 /\ Rest' = <<>> /\ c = Len(cl.reqs)
      BY <1>3, <1>13, <2>1
    <3>2. Resumed'.state = "start" /\ s'.upgrade
      BY <1>4, <1>6, <1>11, <2>1, <3>1
    <3> QED
      BY <1>1, <1>9, <3>1, <3>2 DEF Meets
  <2>2. CASE ~up /\ e.body = 0
    <3>1. Resumed'.state = "start" /\ ~s'.upgrade
      BY <1>4, <1>6, <1>11, <2>2
    <3>2. e.kind = "end"
      BY <1>0, <2>2 DEF up
    <3>3. Rest' # <<>> => Rest'[1].kind = "url1" /\ Rest'[1].r = c + 1
      BY <1>0, <1>8, <2>2, <3>2 DEF Follows
    <3>4. Rest' = <<>> => cl.cut \/ c = Len(cl.reqs)
      BY <1>0, <1>8 DEF Final
    <3> QED
      BY <1>1, <1>9, <3>1, <3>3, <3>4 DEF Meets
  <2>3. CASE ~up /\ e.body > 0
    <3>1. Resumed'.state = "body" /\ Resumed'.left = e.body /\ ~s'.upgrade
      BY <1>4, <1>6, <1>11, <2>3
    <3>2. e.kind = "end"
      BY <1>0, <2>3 DEF up
    <3>3. Rest' # <<>> => Rest'[1].kind = "data" /\ Rest'[1].r = c /\ Rest'[1].body = e.body - 1
      BY <1>0, <1>8, <2>3, <3>2 DEF Follows
    <3>4. Rest' = <<>> => cl.cut
      BY <1>8, <2>3, <3>2 DEF Final
    <3> QED
      BY <1>1, <1>3, <1>9, <2>3, <3>1, <3>3, <3>4 DEF Meets
  <2> QED
    BY <1>3, <2>1, <2>2, <2>3
<1>15. Position'
  BY <1>1, <1>3, <1>6, <1>8, <1>9, <1>14 DEF Position
<1>16. Turn'
  <2>1. mode = "sequential" => Len(cl.reqs) = c
    BY <1>3 DEF Turn
  <2>2. Resumed'.state # "start" => Resumed'.state = "body" /\ e.body > 0
    BY <1>3, <1>6, <1>11
  <2>3. cl.raw > 0 => FALSE
    <3>1. cl.raw > 0 => Current = Len(cl.reqs)
      BY DEF Turn
    <3> QED
      BY <1>3, <3>1
  <2>4. \A i \in 1 .. Len(buf') : mode = "sequential" => buf'[i].r <= c
    BY <1>3, <1>8, <2>1
  <2>5. todo'[1].body = cl.reqs[c].body
    BY <1>3, <1>5
  <2>6. (s'.upgrade <=> c > 0 /\ cl.reqs[c].conn = "upgrade") /\ (s'.upgrade => buf' = <<>>)
    BY <1>3, <1>4, <1>13
  <2>7. c \in 0 .. Len(cl.reqs) /\ c > 0 /\ (mode = "sequential" => Len(cl.reqs) <= c + 1)
    BY <1>3, <2>1
  <2> QED
    BY <1>1, <1>5, <1>9, <2>1, <2>2, <2>3, <2>4, <2>5, <2>6, <2>7 DEF Turn
<1>17. Recognised'
  <2>1. CASE mode = "pipelined"
    <3>1. cl.reqs[c].conn = "keep" => KeepAlive(s)
      <4>1. e.kind = "end" /\ cl.reqs[e.r].conn = "keep" => KeepAlive(s)
        BY <1>0, <2>1 DEF Recognised, e
      <4>2. cl.reqs[c].conn = "keep" => e.kind = "end"
        BY <1>0, <1>3 DEF up
      <4> QED
        BY <1>0, <4>1, <4>2
    <3>2. KeepAlive(s) => KeepAlive(s')
      BY <1>4 DEF KeepAlive
    <3>3. buf' # <<>> => buf'[Len(buf')].kind # "value1"
      BY <1>0, <1>8, <2>1 DEF Recognised
    <3>4. Resumed'.state # "headers"
      BY <1>3, <1>6, <1>11
    <3> QED
      BY <1>1, <1>9, <3>1, <3>2, <3>3, <3>4 DEF Recognised
  <2>2. CASE mode # "pipelined"
    BY <1>1, <2>2 DEF Recognised
  <2> QED
    BY <2>1, <2>2
<1>18. Shut'
  <2>1. s'.conn = "shutting" => cl'.cut
    BY <1>0, <1>1, <1>4
  <2> QED
    BY <1>1, <1>4, <2>1, FieldTypes DEF Shut, Asking
<1>19. Framing'
  <2>1. \A i \in 1 .. Len(Out) : Placed(Out, i) /\ Out[i].r \in 1 .. Current
    BY DEF Framing, InOrder
  <2>2. \A i \in 1 .. Len(Out) : Out[i].r \in 1 .. c /\ Out[i].r < c
    BY <1>3, <2>1
  <2>3. InOrder(Out, c) /\ Silent(Out, c)
    BY <2>1, <2>2 DEF InOrder, Silent
  <2>4. ~s.bottled /\ s.wreq = <<>>
    BY <1>0 DEF Framing
  <2>5. \A r \in 1 .. c : r < c => Answered(r)
    BY <1>0, <1>3 DEF Framing
  <2>6. \A r \in 1 .. c : r < c => Answered(r)'
    BY <1>1, <1>4, <2>5 DEF Answered
  <2>7. Awaits(Out, todo[1], s)'
    BY <1>4, <1>5, <1>10, <2>3 DEF Awaits
  <2> QED
    BY <1>4, <1>5, <1>9, <1>10, <2>3, <2>4, <2>6, <2>7 DEF Framing
<1>20. Asking'
  BY <1>1, <1>4 DEF Asking
<1> QED
  BY <1>4, <1>7, <1>8, <1>15, <1>16, <1>17, <1>18, <1>19, <1>20

(* A piece of the body of a request: the program is given it. *)
LEMMA BodyExecuted ==
  ASSUME Standing, at = "parse", execute_body, UNCHANGED <<mode, cl, input>>
  PROVE  Standing'
<1> USE DEF Standing, Live
<1> DEFINE e == Rest[1]
           c == Current
<1>0. /\ buf # <<>> /\ Rest # <<>> /\ e = buf[1] /\ e.kind = "data"
      /\ e.r = c /\ ~s.upgrade /\ Resumed = parser /\ parser.state = "body"
      /\ e \in Elements /\ (s.conn = "shutting" => cl.cut) /\ (mode = "pipelined" => todo = <<>>)
      /\ c \in 0 .. Len(cl.reqs)
  BY AtParse DEF execute_body
<1> HIDE DEF e, c
<1>1. /\ s' = s /\ parser' = [parser EXCEPT !.left = @ - 1] /\ todo' = todo
      /\ buf' = Tail(buf) /\ seen' = seen + 1 /\ at' = "onData"
      /\ mode' = mode /\ cl' = cl /\ input' = input
  BY <1>0 DEF execute_body
<1>2. buf \in Seq(Elements) /\ buf' \in Seq(Elements) /\ Drops(buf, buf', 1)
  BY <1>0, <1>1, TailFacts DEF Types
<1>3. parser' \in Parsers /\ parser'.state = "body" /\ parser'.left = parser.left - 1
      /\ parser.left \in Int
  <2>1. parser \in Parsers /\ parser.state = "body"
    BY <1>0 DEF Types
  <2>2. parser' = [parser EXCEPT !.left = @ - 1]
    BY <1>1
  <2> QED
    BY <2>1, <2>2 DEF Parsers
<1>4. Types'
  <2>1. seen' \in Nat
    BY <1>1 DEF Types
  <2> QED
    BY <1>1, <1>2, <1>3, <2>1 DEF Types
<1>5. /\ Script' /\ Drops(Rest, Rest', 1)
      /\ Rest' # <<>> => Follows(cl.reqs, e, Rest'[1])
      /\ Rest' = <<>> => cl.cut \/ Final(Len(cl.reqs), e)
      /\ ~cl.cut => cl.n = seen' + Len(buf') + Len(input')
      /\ buf' # <<>> => buf'[Len(buf')] = buf[Len(buf)]
      /\ \A i \in 1 .. Len(buf') : buf'[i].r \in 1 .. Len(cl.reqs)
  <2>1. 1 \in Nat \ {0}
    OBVIOUS
  <2> QED
    BY <1>0, <1>1, <1>2, <1>4, <2>1, Taken DEF e
<1>6. Framing' /\ Current' = c
  BY <1>0, <1>1, FramingStays DEF c
<1>7. parser.left > 0 /\ c > 0 /\ e.body = parser.left - 1
  <2>1. Meets(parser, s.upgrade, Rest, c, Len(cl.reqs), cl.cut)
    BY <1>0 DEF Position, c
  <2> QED
    BY <1>0, <2>1 DEF Meets, e
<1>8. /\ parser'.left > 0 => Resumed'.state = "body" /\ Resumed'.left = e.body
      /\ parser'.left = 0 => Resumed'.state = "start"
  <2>1. Resumed' = [parser' EXCEPT !.state = IF parser'.left > 0 THEN "body" ELSE "start"]
    BY <1>1, <1>3 DEF Resumed
  <2> QED
    BY <1>3, <1>7, <2>1 DEF Parsers
<1>9. /\ Rest' # <<>> => IF e.body > 0 THEN Rest'[1].r = c /\ Rest'[1].kind = "data"
                                             /\ Rest'[1].body = e.body - 1
                         ELSE Rest'[1].r = c + 1 /\ Rest'[1].kind = "url1"
      /\ Rest' = <<>> => cl.cut \/ (e.body = 0 /\ c = Len(cl.reqs))
  BY <1>0, <1>5 DEF Follows, Final
<1>10. Meets(Resumed, s.upgrade, Rest, Current, Len(cl.reqs), cl.cut)'
  <2>1. CASE e.body = 0
    <3>1. Resumed'.state = "start" /\ ~s'.upgrade
      BY <1>0, <1>1, <1>3, <1>7, <1>8, <2>1
    <3> QED
      BY <1>1, <1>6, <1>9, <2>1, <3>1 DEF Meets
  <2>2. CASE e.body > 0
    <3>1. Resumed'.state = "body" /\ Resumed'.left = e.body /\ ~s'.upgrade
      BY <1>0, <1>1, <1>3, <1>7, <1>8, <2>2
    <3> QED
      BY <1>1, <1>6, <1>7, <1>9, <2>2, <3>1 DEF Meets
  <2> QED
    BY <1>3, <1>7, <2>1, <2>2
<1>11. Position'
  <2>1. parser'.state = "body" /\ parser'.left >= 0 /\ Current' > 0 /\ ~s'.upgrade
    BY <1>0, <1>1, <1>3, <1>6, <1>7
  <2> QED
    BY <1>1, <1>5, <1>10, <2>1 DEF Position
<1>12. Turn'
  <2>1. todo # <<>> => todo[1].body > 0
    BY <1>0 DEF Turn
  <2>2. Resumed'.state # "start" => Resumed'.state = "body"
    BY <1>3, <1>7, <1>8
  <2>3. ASSUME mode = "sequential", todo # <<>>, NEW i \in 1 .. Len(buf') PROVE buf'[i].r <= c
    <3>1. \A j \in 1 .. Len(buf) : buf[j].r <= c
      BY <2>3 DEF Turn, c
    <3>2. i + 1 \in 1 .. Len(buf) /\ buf'[i] = buf[i + 1]
      BY <1>2, LenProperties DEF Drops
    <3> QED
      BY <3>1, <3>2
  <2>4. Settled' <=> Settled
    BY <1>1 DEF Settled
  <2> QED
    BY <1>0, <1>1, <1>6, <2>1, <2>2, <2>3, <2>4 DEF Turn, c
<1>13. Recognised'
  <2>1. mode = "pipelined" /\ buf' # <<>> => buf'[Len(buf')].kind # "value1"
    BY <1>0, <1>5 DEF Recognised
  <2>2. Resumed'.state # "headers"
    BY <1>3, <1>7, <1>8
  <2> QED
    BY <1>0, <1>1, <2>1, <2>2 DEF Recognised
<1>14. Shut'
  <2>1. s'.conn = "shutting" => cl'.cut
    BY <1>0, <1>1
  <2> QED
    BY <1>1, <2>1 DEF Shut
<1>15. Asking'
  BY <1>1 DEF Asking
<1> QED
  BY <1>1, <1>4, <1>5, <1>6, <1>11, <1>12, <1>13, <1>14, <1>15

(* What holds in a worker that is dead. *)
LEMMA Dies ==
  ASSUME Types', Asking', ~s'.alive, WorkerSurvives', WellFramed'
  PROVE  WebInv'
  BY DEF WebInv

(* What was sent is in order until the connection is closed. *)
LEMMA FramingFacts ==
  ASSUME Framing
  PROVE  WellFramed
  BY DEF Framing, InOrder, WellFramed, Out

(* parseUrl does not take a URL, or a half of it. *)
LEMMA UrlIsRefused ==
  ASSUME Standing, at = "parse", execute_refused_url, UNCHANGED <<mode, cl, input>>
  PROVE  WebInv'
<1>1. /\ AtUrl("refused") /\ s' = [s EXCEPT !.alive = FALSE] /\ mode' = mode /\ cl' = cl
      /\ input' = input /\ buf' = buf /\ at' = at /\ parser' = parser /\ todo' = todo
      /\ seen' = seen
  BY DEF execute_refused_url
<1>2. /\ s' \in Connections /\ ~s'.alive /\ s'.conn = s.conn /\ s'.wire = s.wire
      /\ s'.wreq = s.wreq /\ s'.onData = s.onData
  BY <1>1 DEF Standing, Types, Connections
<1>3. Types' /\ Asking'
  BY <1>1, <1>2 DEF Standing, Types, Asking
<1>4. WorkerSurvives'
  <2>1. AtUrl("refused")'
    BY <1>1 DEF AtUrl, UrlPieces
  <2> QED
    BY <1>1, <1>2, <2>1 DEF WorkerSurvives, UrlRefused
<1>5. WellFramed'
  <2>1. WellFramed
    BY FramingFacts DEF Standing, Live
  <2> QED
    BY <1>2, <2>1 DEF WellFramed
<1> QED
  BY <1>2, <1>3, <1>4, <1>5, Dies

(* The parser is never given what it does not expect. *)
LEMMA Executed ==
  ASSUME Standing, lhttp_parser_execute
  PROVE  Standing' \/ WebInv'
<1>1. at = "parse" /\ UNCHANGED <<mode, cl, input>>
  BY DEF lhttp_parser_execute
<1>2. Expected(parser, buf[1].kind)
  BY <1>1, AtParse
<1>3. execute_url \/ execute_refused_url \/ execute_value \/ execute_headers \/ execute_body
  BY <1>2 DEF lhttp_parser_execute
<1> QED
  BY <1>1, <1>3, UrlExecuted, UrlIsRefused, ValueExecuted, HeadersExecuted, BodyExecuted

(* A callback returns, and the parser goes on. *)
LEMMA Returned ==
  ASSUME Awkward \subseteq {"abort"}, Standing, callback_returns
  PROVE  Standing'
<1> USE DEF Standing, Live
<1>1. /\ at \in {"onRequest", "onData"} /\ parser' = Resumed
      /\ mode = "pipelined" /\ at = "onRequest" => todo = <<>>
      /\ buf' = (IF s.upgrade \/ Resumed.state = "error" THEN <<>> ELSE buf)
      /\ at' = (IF buf' = <<>> THEN "loop" ELSE "parse")
      /\ mode' = mode /\ cl' = cl /\ input' = input /\ s' = s /\ todo' = todo /\ seen' = seen
  BY DEF callback_returns
<1>2. Meets(Resumed, s.upgrade, Rest, Current, Len(cl.reqs), cl.cut)
  BY DEF Position
<1>3. buf' = buf
  <2>1. Resumed.state # "error"
    BY <1>2 DEF Meets
  <2>2. s.upgrade => buf = <<>>
    BY DEF Turn
  <2> QED
    BY <1>1, <2>1, <2>2
<1>4. Resumed \in Parsers
  <2>1. parser \in Parsers
    BY DEF Types
  <2> QED
    BY <2>1 DEF Resumed, Parsers
<1>5. Types'
  BY <1>1, <1>3, <1>4 DEF Types
<1>6. Resumed' = Resumed
  BY <1>1 DEF Resumed
<1>7. Rest' = Rest
  BY <1>1, <1>3 DEF Rest
<1>8. Framing' /\ Current' = Current
  BY <1>1, FramingStays DEF Turn
<1>9. Script'
  BY <1>1, <1>7 DEF Script
<1>10. Position'
  BY <1>1, <1>2, <1>3, <1>6, <1>7, <1>8 DEF Position
<1>11. Settled' <=> Settled
  BY <1>1 DEF Settled
<1>12. mode = "pipelined" => todo = <<>>
  BY <1>1 DEF Turn
<1>13. Turn'
  BY <1>1, <1>3, <1>6, <1>8, <1>11, <1>12 DEF Turn
<1>14. Recognised'
  BY <1>1, <1>3, <1>6, <1>7, <1>8 DEF Recognised
<1>15. Shut'
  BY <1>1, <1>3, <1>6 DEF Shut
<1>16. Asking'
  BY <1>1 DEF Asking
<1> QED
  BY <1>1, <1>5, <1>8, <1>9, <1>10, <1>13, <1>14, <1>15, <1>16

-----------------------------------------------------------------------------
(* The connection. *)

(* A sequence is its beginning and the rest of it. *)
LEMMA SplitFacts ==
  ASSUME NEW S, NEW q \in Seq(S), NEW k \in 0 .. Len(q)
  PROVE  SubSeq(q, 1, k) \o SubSeq(q, k + 1, Len(q)) = q
<1> DEFINE a == SubSeq(q, 1, k)
           b == SubSeq(q, k + 1, Len(q))
           x == a \o b
<1>1. a \in Seq(S) /\ b \in Seq(S) /\ Begins(q, a) /\ Drops(q, b, k) /\ Len(a) = k
  BY SubSeqFacts
<1> HIDE DEF a, b
<1>2. /\ x \in Seq(S) /\ Len(x) = Len(a) + Len(b) /\ Len(a) \in Nat /\ Len(b) \in Nat
      /\ \A i \in 1 .. Len(a) : x[i] = a[i]
      /\ \A i \in 1 .. Len(b) : x[Len(a) + i] = b[i]
  <2>1. a \in Seq(S) /\ b \in Seq(S)
    BY <1>1
  <2>2. /\ a \o b \in Seq(S) /\ Len(a \o b) = Len(a) + Len(b) /\ Len(a) \in Nat /\ Len(b) \in Nat
        /\ \A i \in 1 .. Len(a) : (a \o b)[i] = a[i] /\ i \in 1 .. Len(a \o b)
        /\ \A i \in 1 .. Len(b) :
             (a \o b)[Len(a) + i] = b[i] /\ Len(a) + i \in 1 .. Len(a \o b)
    BY <2>1, ConcatFacts
  <2> QED
    BY <2>2
<1>3. Len(q) \in Nat /\ Len(b) = Len(q) - k /\ \A i \in 1 .. Len(b) : b[i] = q[i + k]
  BY <1>1, LenProperties DEF Drops
<1> HIDE DEF x
<1>4. ASSUME NEW i \in 1 .. Len(x) PROVE x[i] = q[i]
  <2>1. CASE i \in 1 .. k
    BY <1>1, <1>2, <2>1 DEF Begins
  <2>2. CASE i \notin 1 .. k
    <3> DEFINE j == i - k
    <3>1. j \in 1 .. Len(b) /\ i = Len(a) + j /\ j + k = i
      BY <1>1, <1>2, <2>2
    <3> HIDE DEF j
    <3> QED
      BY <1>2, <1>3, <3>1
  <2> QED
    BY <2>1, <2>2
<1>5. Len(x) = Len(q)
  BY <1>1, <1>2, <1>3
<1>6. x = q
  BY <1>2, <1>4, <1>5, SeqEqual
<1> QED
  BY <1>6 DEF x, a, b

(* A chunk is read: it goes to the parser, or to the program when the      *)
(* connection is upgraded.                                                 *)
LEMMA HasRead ==
  ASSUME Awkward \subseteq {"abort"}, Standing, ~Settled, on_read
  PROVE  Standing'
<1> USE DEF Standing, Live
<1>0. PICK k \in 1 .. Len(input) :
        /\ input[k].kind = "value1" => mode = "sequential" \/ "split" \in Awkward
        /\ input' = SubSeq(input, k + 1, Len(input))
        /\ IF s.upgrade /\ s.onData
             THEN at' = "onData" /\ seen' = seen + k /\ UNCHANGED buf
             ELSE at' = "parse" /\ buf' = SubSeq(input, 1, k) /\ UNCHANGED seen
  BY DEF on_read
<1>1. /\ at = "loop" /\ s.conn = "open" /\ buf = <<>> /\ mode' = mode /\ cl' = cl
      /\ parser' = parser /\ s' = s /\ todo' = todo
  BY DEF on_read, Position
<1>2. input \in Seq(Elements) /\ Len(input) \in Nat /\ k \in 0 .. Len(input) /\ k \in Nat /\ k > 0
  BY LenProperties DEF Types
<1>3. /\ input' \in Seq(Elements) /\ Drops(input, input', k)
      /\ SubSeq(input, 1, k) \in Seq(Elements) /\ Begins(input, SubSeq(input, 1, k))
      /\ Len(SubSeq(input, 1, k)) = k
  BY <1>0, <1>2, SubSeqFacts
<1>4. Len(input') = Len(input) - k
  BY <1>3 DEF Drops
<1>5. Rest = input
  BY <1>1, RestFacts
<1>6. Resumed = parser
  BY <1>1, ResumedFacts
<1>7. Meets(parser, s.upgrade, Rest, Current, Len(cl.reqs), cl.cut)
  BY <1>6 DEF Position
<1>8. Framing' /\ Current' = Current
  BY <1>1, FramingStays DEF Turn
<1>9. Settled' <=> Settled
  BY <1>1 DEF Settled
<1>10. Asking'
  BY <1>1 DEF Asking
<1>11. Shut'
  BY <1>1 DEF Shut
<1>14. s.upgrade => s.onData
  BY FieldTypes DEF Turn, Asking
<1>12. CASE s.upgrade
  <2>1. at' = "onData" /\ seen' = seen + k /\ buf' = <<>>
    BY <1>0, <1>1, <1>12, <1>14
  <2>2. Rest' = input'
    <3>1. Rest' = <<>> \o input'
      BY <2>1 DEF Rest
    <3>2. <<>> \in Seq(Elements)
      OBVIOUS
    <3> QED
      BY <1>3, <3>1, <3>2, ConcatFacts
  <2>3. Types'
    <3>1. seen' \in Nat
      BY <1>2, <2>1 DEF Types
    <3>2. buf' \in Seq(Elements)
      BY <2>1
    <3> QED
      BY <1>1, <1>3, <2>1, <3>1, <3>2 DEF Types
  <2>4. Reads(cl.reqs, cl.raw, cl.cut, input')
    <3>1. Reads(cl.reqs, cl.raw, cl.cut, input)
      BY <1>5 DEF Script
    <3> QED
      BY <1>2, <1>3, <3>1, ReadsDropped
  <2>5. Script'
    BY <1>1, <2>2, <2>4 DEF Script
  <2>6. parser.state = "start" /\ Current = Len(cl.reqs)
    BY <1>7, <1>12 DEF Meets
  <2>7. Resumed' = parser
    BY <1>1, <1>12, <2>1, <2>6 DEF Resumed
  <2>8. input # <<>> /\ 1 \in 1 .. Len(input)
    BY <1>2, EmptySeq
  <2>9. \A i \in 1 .. Len(input) : input[i].kind = "raw"
    BY <1>5, <1>7, <1>12, <2>6 DEF Meets
  <2>10. todo = <<>>
    <3>1. Belongs(cl.reqs, cl.raw, input[1])
      BY <1>5, <2>8, FirstBelongs
    <3>2. cl.raw > 0
      BY <2>8, <2>9, <3>1 DEF Belongs
    <3> QED
      BY <3>2 DEF Turn
  <2>11. \A i \in 1 .. Len(input') : input'[i].kind = "raw"
    <3>1. \A i \in 1 .. Len(input') : i + k \in 1 .. Len(input) /\ input'[i] = input[i + k]
      BY <1>2, <1>3, <1>4 DEF Drops
    <3> QED
      BY <2>9, <3>1
  <2>12. Position'
    <3>1. Meets(parser, s.upgrade, input', Current, Len(cl.reqs), cl.cut)
      BY <1>12, <2>6, <2>11 DEF Meets
    <3>2. ~cl.cut => cl.n = seen' + Len(buf') + Len(input')
      <4>1. ~cl.cut => cl.n = seen + 0 + Len(input)
        BY <1>1 DEF Position
      <4>2. seen \in Nat
        BY DEF Types
      <4> QED
        BY <1>2, <1>4, <2>1, <4>1, <4>2
    <3> QED
      BY <1>1, <1>8, <1>12, <2>1, <2>2, <2>6, <2>7, <3>1, <3>2 DEF Position
  <2>13. Turn'
    BY <1>1, <1>8, <2>1, <2>10 DEF Turn
  <2>14. Recognised'
    BY <1>1, <2>1, <2>6, <2>7, <2>10 DEF Recognised
  <2> QED
    BY <1>1, <1>8, <1>10, <1>11, <2>3, <2>5, <2>12, <2>13, <2>14
<1>13. CASE ~s.upgrade
  <2>1. at' = "parse" /\ seen' = seen /\ buf' = SubSeq(input, 1, k)
        /\ (input[k].kind = "value1" => mode = "sequential")
    BY <1>0, <1>13
  <2>2. buf' \in Seq(Elements) /\ Len(buf') = k /\ buf' # <<>> /\ buf'[Len(buf')] = input[k]
        /\ \A i \in 1 .. k : buf'[i] = input[i]
    <3>1. buf' \in Seq(Elements) /\ Len(buf') = k
      BY <1>3, <2>1
    <3>2. \A i \in 1 .. k : buf'[i] = input[i]
      BY <1>3, <2>1, <3>1 DEF Begins
    <3>3. k \in 1 .. k
      BY <1>2
    <3>4. buf' # <<>>
      BY <1>2, <3>1
    <3> QED
      BY <3>1, <3>2, <3>3, <3>4
  <2>3. Types'
    BY <1>1, <1>3, <2>1, <2>2 DEF Types
  <2>4. Rest' = Rest
    <3>1. SubSeq(input, 1, k) \o SubSeq(input, k + 1, Len(input)) = input
      BY <1>2, SplitFacts
    <3>2. Rest' = SubSeq(input, 1, k) \o SubSeq(input, k + 1, Len(input))
      BY <1>0, <2>1 DEF Rest
    <3> QED
      BY <1>5, <3>1, <3>2
  <2>5. Script'
    BY <1>1, <2>4 DEF Script
  <2>6. Resumed' = parser
    BY <1>1, <2>1 DEF Resumed
  <2>7. Position'
    <3>1. ~cl.cut => cl.n = seen' + Len(buf') + Len(input')
      <4>1. ~cl.cut => cl.n = seen + 0 + Len(input)
        BY <1>1 DEF Position
      <4>2. seen \in Nat
        BY DEF Types
      <4> QED
        BY <1>2, <1>4, <2>1, <2>2, <4>1, <4>2
    <3> QED
      BY <1>1, <1>7, <1>8, <2>1, <2>2, <2>4, <2>6, <3>1 DEF Position
  <2>8. Turn'
    <3>1. ASSUME mode = "sequential", todo # <<>>, NEW i \in 1 .. Len(buf')
          PROVE  buf'[i].r <= Current
      <4>1. Current = Len(cl.reqs)
        BY <3>1 DEF Turn
      <4>2. buf'[i] = Rest[i] /\ i \in 1 .. Len(Rest)
        BY <1>2, <1>5, <2>2
      <4>3. Rest[i].r \in 1 .. Len(cl.reqs)
        BY <4>2 DEF Script, Reads, Belongs
      <4> QED
        BY <4>1, <4>2, <4>3
    <3>2. todo # <<>> => mode # "pipelined"
      BY <1>1 DEF Turn
    <3> QED
      BY <1>1, <1>6, <1>8, <1>9, <1>13, <2>1, <2>6, <3>1, <3>2 DEF Turn
  <2>9. Recognised'
    BY <1>1, <1>6, <1>8, <2>1, <2>2, <2>4, <2>6 DEF Recognised, Types
  <2> QED
    BY <1>1, <1>8, <1>10, <1>11, <2>3, <2>5, <2>7, <2>8, <2>9
<1> QED
  BY <1>12, <1>13

(* The client has left: the connection is shut down. *)
LEMMA EndOfFile ==
  ASSUME Standing, on_eof
  PROVE  Standing'
<1> USE DEF Standing, Live
<1>1. /\ at = "loop" /\ s.conn = "open" /\ input = <<>> /\ s' = [s EXCEPT !.conn = "shutting"]
      /\ mode' = mode /\ cl' = cl /\ input' = input /\ buf' = buf /\ at' = at
      /\ parser' = parser /\ todo' = todo /\ seen' = seen
  BY DEF on_eof, client_close
<1>2. buf = <<>> /\ Rest = <<>>
  <2>1. buf = <<>>
    BY <1>1 DEF Position
  <2> QED
    BY <1>1, <2>1, RestFacts
<1>3. /\ s' \in Connections /\ s'.wire = s.wire /\ s'.wreq = s.wreq /\ s'.bottled = s.bottled
      /\ s'.response = s.response /\ s'.conn = "shutting" /\ s'.alive = s.alive
      /\ s'.upgrade = s.upgrade /\ s'.connection = s.connection
      /\ s'.refs = s.refs /\ s'.closing = s.closing /\ s'.onData = s.onData /\ cl.gone
  BY <1>1 DEF on_eof, Types, Connections
<1>4. Types'
  BY <1>1, <1>3 DEF Types
<1>5. Framing' /\ Current' = Current
  BY <1>1, <1>3, FramingStays DEF Turn
<1>6. Resumed' = Resumed /\ Rest' = Rest /\ (Settled' <=> Settled)
  BY <1>1, <1>3 DEF Resumed, Rest, Settled
<1>7. Script' /\ Asking'
  BY <1>1, <1>3, <1>6 DEF Script, Asking
<1>8. Position'
  BY <1>1, <1>3, <1>5, <1>6 DEF Position
<1>9. Turn'
  BY <1>1, <1>3, <1>5, <1>6 DEF Turn
<1>10. Recognised'
  BY <1>1, <1>3, <1>5, <1>6 DEF Recognised, KeepAlive
<1>11. Shut'
  <2>1. Meets(Resumed, s.upgrade, Rest, Current, Len(cl.reqs), cl.cut)
    BY DEF Position
  <2>2. Resumed.state = "start" \/ cl.cut
    BY <1>2, <2>1 DEF Meets
  <2> QED
    BY <1>1, <1>2, <1>3, <1>6, <2>2 DEF Shut
<1> QED
  BY <1>3, <1>4, <1>5, <1>7, <1>8, <1>9, <1>10, <1>11

(* Everything is written: from now on the handle has no descriptor, and    *)
(* the parser is between two messages unless the client has left in the    *)
(* middle of one.                                                          *)
LEMMA ShutDown ==
  ASSUME Standing, after_shutdown
  PROVE  WebInv'
<1> USE DEF Standing, Live
<1>1. /\ at = "loop" /\ s.conn = "shutting"
      /\ s' = [s EXCEPT !.conn = "closed", !.closing = TRUE]
      /\ mode' = mode /\ cl' = cl /\ input' = input /\ buf' = buf /\ at' = at
      /\ parser' = parser /\ todo' = todo /\ seen' = seen
  BY DEF after_shutdown
<1>2. /\ s' \in Connections /\ s'.conn = "closed" /\ s'.alive = s.alive /\ s'.refs = s.refs
      /\ s'.onData = s.onData /\ s'.response = s.response
  BY <1>1 DEF Types, Connections
<1>3. finish_raises(parser) => cl.cut
  <2>1. Resumed = parser
    BY <1>1, ResumedFacts
  <2>2. ~cl.cut => parser.state = "start"
    BY <1>1, <2>1 DEF Shut
  <2> QED
    BY <2>2 DEF finish_raises
<1>4. todo # <<>> => Len(todo) = 1
  BY DEF Turn
<1>5. todo # <<>> /\ todo[1].framing = "none" => ~s.response.headers_sent
  BY DEF Framing, Awaits, NewResponse
<1>6. ~cl.gone => todo = <<>> /\ s.refs > 0
  BY <1>1 DEF Shut
<1>7. Types' /\ Asking'
  BY <1>1, <1>2 DEF Types, Asking
<1>8. Gone'
  BY <1>1, <1>2, <1>3, <1>4, <1>5, <1>6 DEF Gone, finish_raises
<1> QED
  BY <1>2, <1>7, <1>8 DEF WebInv

(* What is left of a closed connection when p is finished: its reference   *)
(* is given back, for the second time only when the client left first.     *)
LEMMA AfterClose ==
  ASSUME Types, Gone, s.conn = "closed", NEW c \in Connections, NEW p,
         s.closing \/ cl.gone, s' = tcp_after_close(c, p), p = parser,
         c.conn = "closed" /\ c.alive /\ c.refs = s.refs /\ c.onData = s.onData,
         (todo' = todo /\ c.response = s.response /\ ~c.closing) \/ (cl.gone /\ todo' = <<>>),
         parser' = parser, UNCHANGED <<mode, cl, input, buf, at, seen>>, Asking
  PROVE  WebInv'
<1> DEFINE lives == c.alive /\ c.refs > 0 /\ ~finish_raises(p)
           n == c.refs - 1
<1>1. c.refs \in Int /\ n \in Int /\ lives \in BOOLEAN
  BY DEF Connections, finish_raises
<1>2. s' = [c EXCEPT !.refs = n, !.alive = lives]
  BY DEF tcp_after_close
<1> HIDE DEF lives, n
<1>3. /\ s' \in Connections /\ s'.conn = "closed" /\ s'.alive = lives /\ s'.refs = n
      /\ s'.onData = s.onData /\ s'.response = c.response /\ s'.closing = c.closing
  BY <1>1, <1>2 DEF Connections
<1>4. Types' /\ Asking'
  <2>1. todo \in Seq(Answers) /\ <<>> \in Seq(Answers)
    BY DEF Types
  <2>2. todo' = todo \/ todo' = <<>>
    OBVIOUS
  <2>3. todo' \in Seq(Answers)
    BY <2>1, <2>2
  <2> QED
    BY <1>3, <2>3 DEF Types, Asking
<1>5. WellFramed'
  BY <1>3 DEF WellFramed
<1>6. CASE ~lives
  <2>1. cl.cut \/ n < 0
    BY <1>1, <1>6 DEF Gone, lives, n
  <2>2. n < 0 => cl.gone
    <3>1. n < 0 => ~(s.refs > 0)
      BY <1>1 DEF n
    <3> QED
      BY <3>1 DEF Gone
  <2>3. WorkerSurvives'
    BY <1>3, <2>1, <2>2 DEF WorkerSurvives
  <2> QED
    BY <1>3, <1>4, <1>5, <1>6, <2>3, Dies
<1>7. CASE lives
  <2>1. Gone'
    <3>2. CASE todo' = todo /\ c.response = s.response /\ ~c.closing
      BY <1>3, <3>2 DEF Gone, finish_raises
    <3>3. CASE cl.gone /\ todo' = <<>>
      BY <1>3, <3>3 DEF Gone, finish_raises
    <3> QED
      BY <3>2, <3>3
  <2> QED
    BY <1>3, <1>4, <1>7, <2>1 DEF WebInv
<1> QED
  BY <1>6, <1>7

(* The handle is closed: the parser finishes. *)
LEMMA Closed ==
  ASSUME WebInv, on_close
  PROVE  WebInv'
<1>1. /\ s.alive /\ s.closing /\ s' = tcp_after_close([s EXCEPT !.closing = FALSE], parser)
      /\ UNCHANGED <<mode, cl, input, buf, at, parser, todo, seen>>
  BY DEF on_close
<1>2. s.conn = "closed"
  BY <1>1 DEF WebInv, Live, Shut
<1>3. Types /\ Asking /\ Gone
  BY <1>1, <1>2 DEF WebInv
<1> DEFINE c == [s EXCEPT !.closing = FALSE]
<1>4. /\ c \in Connections /\ c.conn = "closed" /\ c.alive /\ c.refs = s.refs
      /\ c.onData = s.onData /\ c.response = s.response /\ ~c.closing
  BY <1>1, <1>2, <1>3 DEF Types, Connections
<1>5. s' = tcp_after_close(c, parser)
  BY <1>1
<1> HIDE DEF c
<1> QED
  BY <1>1, <1>2, <1>3, <1>4, <1>5, AfterClose

-----------------------------------------------------------------------------
(* The client. *)

(* The client leaves: a part of what is on its way is lost. *)
LEMMA Left ==
  ASSUME WebInv, leave
  PROVE  WebInv'
<1>0. Types /\ Asking
  BY DEF WebInv
<1>1. PICK k \in 0 .. Len(input) :
        /\ k < Len(input) => "abort" \in Awkward
        /\ input' = SubSeq(input, 1, k)
        /\ cl' = [cl EXCEPT !.gone = TRUE, !.cut = k < Len(input)]
  BY DEF leave
<1>2. /\ ~cl.gone /\ mode' = mode /\ buf' = buf /\ at' = at /\ parser' = parser /\ s' = s
      /\ todo' = todo /\ seen' = seen
  BY DEF leave
<1>3. input \in Seq(Elements) /\ Len(input) \in Nat
  BY <1>0, LenProperties DEF Types
<1>4. input' \in Seq(Elements) /\ Begins(input, input') /\ Len(input') = k
  BY <1>1, <1>3, SubSeqFacts
<1>5. /\ cl' \in Clients /\ cl'.reqs = cl.reqs /\ cl'.raw = cl.raw /\ cl'.n = cl.n
      /\ cl'.gone = TRUE /\ cl'.cut \in BOOLEAN /\ (cl'.cut <=> k < Len(input))
  <2> DEFINE lost == k < Len(input)
  <2>1. lost \in BOOLEAN /\ cl' = [cl EXCEPT !.gone = TRUE, !.cut = lost] /\ cl \in Clients
    BY <1>0, <1>1 DEF Types
  <2> HIDE DEF lost
  <2>2. /\ cl' \in Clients /\ cl'.reqs = cl.reqs /\ cl'.raw = cl.raw /\ cl'.n = cl.n
        /\ cl'.gone = TRUE /\ cl'.cut = lost
    BY <2>1 DEF Clients
  <2> QED
    BY <2>1, <2>2 DEF lost
<1>6. Types'
  BY <1>0, <1>2, <1>4, <1>5 DEF Types
<1>7. ~cl.cut
  BY <1>0, <1>2, FieldTypes DEF Asking
<1>8. Asking'
  BY <1>0, <1>2, <1>5 DEF Asking
<1>9. ~cl'.cut => input' = input
  <2>1. ~cl'.cut => Len(input') = Len(input)
    <3>1. k \in Nat /\ k <= Len(input)
      BY <1>3
    <3> QED
      BY <1>3, <1>4, <1>5, <3>1
  <2>2. \A i \in 1 .. Len(input') : input'[i] = input[i]
    BY <1>4 DEF Begins
  <2> QED
    BY <1>3, <1>4, <2>1, <2>2, SeqEqual
<1>12. CASE ~s.alive
  <2>1. UrlRefused /\ WellFramed
    BY <1>2, <1>7, <1>12 DEF WebInv, WorkerSurvives
  <2>2. UrlRefused'
    BY <1>2, <1>5, <2>1 DEF UrlRefused, AtUrl, UrlPieces
  <2>3. WellFramed'
    BY <1>2, <2>1 DEF WellFramed
  <2> QED
    BY <1>2, <1>6, <1>8, <1>12, <2>2, <2>3, Dies DEF WorkerSurvives
<1>10. CASE s.alive /\ s.conn = "closed"
  <2>1. Gone
    BY <1>10 DEF WebInv
  <2>2. Gone'
    BY <1>2, <1>5, <1>7, <2>1 DEF Gone, finish_raises
  <2> QED
    BY <1>2, <1>6, <1>8, <1>10, <2>2 DEF WebInv
<1>11. CASE s.alive /\ s.conn # "closed"
  <2> USE DEF Live
  <2>0. Live
    BY <1>11 DEF WebInv
  <2>1. /\ Rest \in Seq(Elements) /\ Rest' \in Seq(Elements) /\ Begins(Rest, Rest')
    <3>1. buf \in Seq(Elements) /\ Rest \in Seq(Elements) /\ Rest' = buf \o input'
      BY <1>0, <1>2, FieldTypes DEF Types, Rest
    <3>2. Rest' \in Seq(Elements)
      BY <1>4, <3>1, ConcatFacts
    <3>3. Begins(Rest, Rest')
      BY <1>3, <1>4, <3>1, BeginsBehind DEF Rest
    <3> QED
      BY <3>1, <3>2, <3>3
  <2>2. /\ \A i \in 1 .. Len(Rest') : Rest'[i] = Rest[i] /\ i \in 1 .. Len(Rest)
        /\ Rest' # <<>> => Rest # <<>> /\ Rest'[1] = Rest[1]
        /\ ~cl'.cut => Rest' = Rest
    <3>1. Len(Rest') <= Len(Rest) /\ Len(Rest') \in Nat /\ Len(Rest) \in Nat
          /\ \A i \in 1 .. Len(Rest') : Rest'[i] = Rest[i]
      BY <2>1, LenProperties DEF Begins
    <3>2. Rest' # <<>> => 1 \in 1 .. Len(Rest')
      BY <2>1, <3>1, EmptySeq
    <3>3. Rest = <<>> => Len(Rest) = 0
      OBVIOUS
    <3>4. ~cl'.cut => Rest' = Rest
      BY <1>2, <1>9 DEF Rest
    <3> QED
      BY <3>1, <3>2, <3>3, <3>4
  <2>3. Script'
    <3>1. Reads(cl.reqs, cl.raw, cl.cut, Rest)
      BY <2>0 DEF Script
    <3>2. Reads(cl.reqs, cl.raw, TRUE, Rest')
      <4> DEFINE q == Rest
                 p == Rest'
      <4>1. q \in Seq(Elements) /\ p \in Seq(Elements) /\ Begins(q, p)
            /\ Reads(cl.reqs, cl.raw, cl.cut, q)
        BY <2>1, <3>1
      <4> HIDE DEF p, q
      <4>2. Reads(cl.reqs, cl.raw, TRUE, p)
        BY <4>1, ReadsCut
      <4> QED
        BY <4>2 DEF p
    <3>3. CASE cl'.cut
      BY <1>5, <3>2, <3>3 DEF Script, Reads
    <3>4. CASE ~cl'.cut
      BY <1>5, <1>7, <2>2, <3>1, <3>4 DEF Script, Reads
    <3> QED
      BY <3>3, <3>4
  <2>4. Resumed' = Resumed /\ (Settled' <=> Settled)
    BY <1>2 DEF Resumed, Settled
  <2>5. Framing' /\ Current' = Current
    BY <1>0, <1>2, <1>5, <2>0, FramingStays DEF Turn
  <2>6. Meets(Resumed, s.upgrade, Rest', Current, Len(cl.reqs), cl'.cut)
    <3>1. Meets(Resumed, s.upgrade, Rest, Current, Len(cl.reqs), cl.cut)
      BY <2>0 DEF Position
    <3>2. CASE cl'.cut
      BY <2>2, <3>1, <3>2 DEF Meets
    <3>3. CASE ~cl'.cut
      <4>1. cl'.cut = cl.cut
        BY <1>0, <1>5, <1>7, <3>3, FieldTypes
      <4> QED
        BY <2>2, <3>1, <3>3, <4>1
    <3> QED
      BY <3>2, <3>3
  <2>7. Position'
    <3>1. ~cl'.cut => cl'.n = seen' + Len(buf') + Len(input')
      BY <1>2, <1>5, <1>7, <1>9, <2>0 DEF Position
    <3> QED
      BY <1>2, <1>5, <2>0, <2>4, <2>5, <2>6, <3>1 DEF Position
  <2>8. Turn'
    BY <1>2, <1>5, <2>0, <2>4, <2>5 DEF Turn
  <2>9. Recognised'
    BY <1>2, <1>5, <2>0, <2>2, <2>4, <2>5 DEF Recognised
  <2>10. Shut'
    BY <1>2, <1>5, <1>7, <2>0, <2>4 DEF Shut
  <2> QED
    BY <1>2, <1>6, <1>8, <1>11, <2>3, <2>5, <2>7, <2>8, <2>9, <2>10 DEF WebInv
<1> QED
  BY <1>10, <1>11, <1>12

(* A request that has been answered is the one that the program is at, or  *)
(* an earlier one, and if it is the program's oldest it is settled.        *)
LEMMA AnsweredFacts ==
  ASSUME Standing, NEW n \in Nat \ {0}, Answered(n)
  PROVE  /\ n <= Current
         /\ n = Current /\ todo # <<>> =>
              cl.reqs[n].conn # "upgrade" /\ Settled
<1> USE DEF Standing, Live
<1>1. s.wire \in Seq(Tokens) /\ s.wreq \in Seq(Tokens) /\ Out = s.wire \o s.wreq
  BY FieldTypes DEF Out
<1>2. /\ Len(Out) = Len(s.wire) + Len(s.wreq) /\ Len(s.wire) \in Nat /\ Len(s.wreq) \in Nat
      /\ \A i \in 1 .. Len(s.wire) : Out[i] = s.wire[i] /\ i \in 1 .. Len(Out)
      /\ Out \in Seq(Tokens) /\ Len(s.wire) <= Len(Out) /\ Len(Out) \in Nat
  <2> DEFINE a == s.wire
             b == s.wreq
  <2>1. a \in Seq(Tokens) /\ b \in Seq(Tokens) /\ Out = a \o b
    BY <1>1
  <2> HIDE DEF a, b
  <2>2. /\ Len(a \o b) = Len(a) + Len(b) /\ Len(a) \in Nat /\ Len(b) \in Nat
        /\ \A i \in 1 .. Len(a) : (a \o b)[i] = a[i] /\ i \in 1 .. Len(a \o b)
        /\ a \o b \in Seq(Tokens)
    BY <2>1, ConcatFacts
  <2>3. Len(a) <= Len(a \o b) /\ Len(a \o b) \in Nat
    BY <2>2
  <2> QED
    BY <2>1, <2>2, <2>3 DEF a, b
<1>3. PICK i \in 1 .. Len(s.wire) :
        s.wire[i].r = n /\ (Ends(s.wire, i) \/ cl.reqs[n].conn = "upgrade")
  BY DEF Answered, Whole
<1>4. i \in 1 .. Len(Out) /\ Out[i].r = n /\ Out[i].r \in 1 .. Current
  BY <1>2, <1>3 DEF Framing, InOrder
<1>5. n <= Current
  BY <1>4 DEF Turn
<1>6. ASSUME n = Current, todo # <<>>
      PROVE  cl.reqs[n].conn # "upgrade" /\ Settled
  <2>1. todo[1].r = n
    BY <1>6 DEF Current
  <2>2. Awaits(Out, todo[1], s) /\ (s.upgrade => todo[1].framing = "none")
    BY <1>6 DEF Framing
  <2>3. todo[1].framing # "none"
    <3>1. todo[1].framing = "none" => Silent(Out, n)
      BY <2>1, <2>2 DEF Awaits
    <3>2. ~Silent(Out, n)
      BY <1>4 DEF Silent
    <3> QED
      BY <3>1, <3>2
  <2>4. cl.reqs[n].conn # "upgrade"
    BY <1>6, <2>2, <2>3 DEF Turn
  <2>5. Ends(Out, i)
    <3>1. Ends(s.wire, i)
      BY <1>3, <2>4
    <3> QED
      BY <1>1, <1>2, <3>1, EndsOfPrefix
  <2>6. ~Unended(Out, n)
    BY <1>4, <2>5 DEF Unended
  <2>7. todo[1].framing \in {"none", "chunked", "length"}
    <3>1. todo[1] \in Answers
      BY <1>6, TailFacts DEF Types
    <3> QED
      BY <3>1 DEF Answers
  <2>8. todo[1].framing = "length" /\ todo[1].left = 0
    BY <2>1, <2>2, <2>3, <2>6, <2>7 DEF Awaits, InChunks, OneLeft
  <2> QED
    BY <1>6, <2>4, <2>8 DEF Settled
<1> QED
  BY <1>5, <1>6

(* Elements of the requests so far are such elements when there are more.  *)
LEMMA MoreAsked ==
  ASSUME NEW reqs \in Seq(Asked), NEW a \in Asked, NEW raw, NEW q \in Seq(Elements),
         \A i \in 1 .. Len(q) : Belongs(reqs, raw, q[i]),
         \A i \in 1 .. Len(q) - 1 : Follows(reqs, q[i], q[i + 1])
  PROVE  /\ \A i \in 1 .. Len(q) : Belongs(Append(reqs, a), raw, q[i])
         /\ \A i \in 1 .. Len(q) - 1 : Follows(Append(reqs, a), q[i], q[i + 1])
<1> DEFINE more == Append(reqs, a)
<1>1. /\ Len(more) = Len(reqs) + 1 /\ Len(reqs) \in Nat
      /\ \A i \in 1 .. Len(reqs) : more[i] = reqs[i]
  BY AppendFacts
<1> HIDE DEF more
<1>2. ASSUME NEW i \in 1 .. Len(q)
      PROVE  Belongs(more, raw, q[i]) /\ q[i].r \in 1 .. Len(reqs) /\ more[q[i].r] = reqs[q[i].r]
  <2>1. q[i].r \in 1 .. Len(reqs) /\ Belongs(reqs, raw, q[i])
    BY DEF Belongs
  <2>2. more[q[i].r] = reqs[q[i].r] /\ q[i].r \in 1 .. Len(more)
    BY <1>1, <2>1
  <2> QED
    BY <2>1, <2>2 DEF Belongs
<1>3. ASSUME NEW i \in 1 .. Len(q) - 1 PROVE Follows(more, q[i], q[i + 1])
  <2>1. i \in 1 .. Len(q)
    BY LenProperties
  <2>2. more[q[i].r] = reqs[q[i].r] /\ Follows(reqs, q[i], q[i + 1])
    BY <1>2, <2>1
  <2> QED
    BY <2>2 DEF Follows
<1> QED
  BY <1>2, <1>3 DEF more

(* The client asks again. *)
LEMMA Sent ==
  ASSUME Awkward \subseteq {"abort"}, Standing, NEW q \in Asked, send(q)
  PROVE  Standing'
<1> USE DEF Standing, Live
<1> DEFINE n == Len(cl.reqs)
           m == n + 1
           new == Stream(m, q)
           reqs == Append(cl.reqs, q)
<1>1. /\ ~cl.gone /\ s.conn = "open"
      /\ n > 0 => cl.reqs[n].conn = "keep" /\ (mode = "sequential" => Answered(n))
      /\ mode = "pipelined" => q.body = 0 /\ q.conn # "upgrade"
      /\ q.conn = "upgrade" => q.body = 0 /\ s.onData
      /\ cl' = [cl EXCEPT !.reqs = reqs, !.n = @ + Len(new)]
      /\ input' = input \o new
      /\ mode' = mode /\ buf' = buf /\ at' = at /\ parser' = parser /\ s' = s
      /\ todo' = todo /\ seen' = seen
  BY DEF send
<1>2. /\ cl.reqs \in Seq(Asked) /\ n \in Nat /\ m \in Nat \ {0} /\ m = n + 1
  <2>1. cl.reqs \in Seq(Asked) /\ n \in Nat
    BY FieldTypes
  <2> QED
    BY <2>1
<1>3. /\ reqs \in Seq(Asked) /\ Len(reqs) = m /\ reqs[m] = q
      /\ \A i \in 1 .. n : reqs[i] = cl.reqs[i]
  <2>1. cl.reqs \in Seq(Asked) /\ Len(cl.reqs) = n
    BY <1>2
  <2> QED
    BY <2>1, AppendFacts
<1>4. /\ new \in Seq(Elements) /\ new # <<>> /\ new[1].kind = "url1" /\ new[1].r = m
      /\ Reads(reqs, cl.raw, FALSE, new)
  <2> HIDE DEF reqs
  <2>1. LET p == Stream(m, reqs[m])
        IN /\ p \in Seq(Elements) /\ p # <<>> /\ p[1].kind = "url1" /\ p[1].r = m
           /\ Reads(reqs, cl.raw, FALSE, p)
    BY <1>1, <1>2, <1>3, StreamReads
  <2> QED
    BY <1>3, <2>1
<1> HIDE DEF new, m, reqs
<1>5. Len(new) \in Nat
  BY <1>4, LenProperties
<1>6. /\ cl' \in Clients /\ cl'.reqs = reqs /\ cl'.n = cl.n + Len(new) /\ cl'.raw = cl.raw
      /\ cl'.gone = cl.gone /\ cl'.cut = cl.cut
  <2>1. cl \in Clients /\ cl' = [cl EXCEPT !.reqs = reqs, !.n = @ + Len(new)]
    BY <1>1 DEF Types
  <2>2. cl.n + Len(new) \in Nat
    BY <1>5, FieldTypes
  <2> QED
    BY <1>3, <2>1, <2>2 DEF Clients
<1>7. ~cl.cut
  BY <1>1 DEF Asking
<1>8. /\ input \in Seq(Elements) /\ buf \in Seq(Elements) /\ Rest \in Seq(Elements)
      /\ input' \in Seq(Elements) /\ Len(input') = Len(input) + Len(new) /\ Len(input) \in Nat
  <2>1. input \in Seq(Elements) /\ buf \in Seq(Elements) /\ Rest \in Seq(Elements)
        /\ Len(input) \in Nat
    BY RestFacts
  <2>2. input \o new \in Seq(Elements) /\ Len(input \o new) = Len(input) + Len(new)
    BY <1>4, <2>1, ConcatFacts
  <2> QED
    BY <1>1, <2>1, <2>2
<1>9. Types'
  BY <1>1, <1>6, <1>8 DEF Types
<1>10. Rest' = Rest \o new
  <2>1. Rest' = buf \o (input \o new)
    BY <1>1 DEF Rest
  <2>2. buf \in Seq(Elements) /\ input \in Seq(Elements) /\ new \in Seq(Elements)
    BY <1>4, <1>8
  <2>3. buf \o (input \o new) = (buf \o input) \o new
    BY <2>2, ConcatAssociative
  <2> QED
    BY <2>1, <2>3 DEF Rest
<1>11. cl.raw = 0
  BY <1>1, FieldTypes DEF Turn
<1>12. ASSUME Rest # <<>>
       PROVE  /\ Rest[Len(Rest)].r = n /\ Rest[Len(Rest)].kind \in {"end", "data"}
              /\ Rest[Len(Rest)].body = 0
  <2>1. Len(Rest) \in 1 .. Len(Rest)
    BY <1>8, <1>12, EmptySeq, LenProperties
  <2>2. Final(n, Rest[Len(Rest)]) /\ Belongs(cl.reqs, cl.raw, Rest[Len(Rest)])
    BY <1>7, <1>12, <2>1 DEF Script, Reads
  <2>3. cl.reqs[n].conn = "keep"
    BY <1>1, <1>2, <2>2 DEF Belongs
  <2> QED
    BY <1>11, <2>2, <2>3 DEF Final, Belongs
<1>13. Script'
  <2> DEFINE r == Rest
  <2>1. /\ \A i \in 1 .. Len(r) : Belongs(cl.reqs, cl.raw, r[i])
        /\ \A i \in 1 .. Len(r) - 1 : Follows(cl.reqs, r[i], r[i + 1])
        /\ r \in Seq(Elements)
        /\ r # <<>> => r[Len(r)].r = n /\ r[Len(r)].kind \in {"end", "data"} /\ r[Len(r)].body = 0
    BY <1>8, <1>12 DEF Script, Reads
  <2> HIDE DEF r
  <2>2. /\ \A i \in 1 .. Len(r) : Belongs(reqs, cl.raw, r[i])
        /\ \A i \in 1 .. Len(r) - 1 : Follows(reqs, r[i], r[i + 1])
    BY <1>2, <2>1, MoreAsked DEF reqs
  <2>3. r # <<>> => Follows(reqs, r[Len(r)], new[1])
    BY <1>2, <1>4, <2>1 DEF Follows
  <2>4. Reads(reqs, cl.raw, FALSE, r \o new)
    BY <1>4, <2>1, <2>2, <2>3, ReadsJoined
  <2>5. cl.cut = FALSE
    BY <1>7, FieldTypes
  <2> QED
    BY <1>6, <1>10, <2>4, <2>5 DEF Script, r
<1>14. /\ Rest # <<>> => Rest' # <<>> /\ Rest'[1] = Rest[1]
       /\ Rest = <<>> => Rest'[1].kind = "url1" /\ Rest'[1].r = m
       /\ Rest' # <<>>
  <2> DEFINE r == Rest
  <2>1. r \in Seq(Elements) /\ new \in Seq(Elements) /\ Rest' = r \o new
    BY <1>4, <1>8, <1>10
  <2> HIDE DEF r
  <2>2. /\ Len(r \o new) = Len(r) + Len(new) /\ Len(r) \in Nat /\ Len(new) \in Nat
        /\ \A i \in 1 .. Len(r) : (r \o new)[i] = r[i]
        /\ r = <<>> => r \o new = new
    BY <2>1, ConcatFacts
  <2>3. Len(new) > 0 /\ (r # <<>> => 1 \in 1 .. Len(r))
    BY <1>4, <2>1, <2>2, EmptySeq
  <2>4. Rest' # <<>>
    <3>1. Len(Rest') > 0
      BY <2>1, <2>2, <2>3
    <3> QED
      BY <3>1
  <2> QED
    BY <1>4, <2>1, <2>2, <2>3, <2>4 DEF r
<1>15. Current \in 0 .. n /\ Current \in Nat
  BY <1>2 DEF Turn
<1>16. Framing' /\ Current' = Current
  <2>1. \A r \in 1 .. Current : cl'.reqs[r] = cl.reqs[r]
    BY <1>2, <1>3, <1>6, <1>15
  <2> QED
    BY <1>1, <1>2, <1>15, <2>1, FramingStays
<1>17. Resumed' = Resumed /\ (Settled' <=> Settled)
  BY <1>1 DEF Resumed, Settled
<1>18. Meets(Resumed, s.upgrade, Rest, Current, n, cl.cut)
  BY DEF Position
<1>19. ~s.upgrade
  BY <1>1, <1>2, <1>15, <1>18 DEF Turn, Meets
<1>20. Meets(Resumed, s.upgrade, Rest', Current, m, cl.cut)
  BY <1>2, <1>7, <1>14, <1>18, <1>19 DEF Meets
<1>21. Position'
  <2>1. cl'.n = seen' + Len(buf') + Len(input')
    <3>1. cl.n = seen + Len(buf) + Len(input)
      BY <1>7 DEF Position
    <3>2. seen \in Nat /\ Len(buf) \in Nat
      BY RestFacts DEF Types
    <3> QED
      BY <1>1, <1>5, <1>6, <1>8, <3>1, <3>2
  <2>2. Meets(Resumed, s.upgrade, Rest, Current, Len(cl.reqs), cl.cut)'
    BY <1>1, <1>3, <1>6, <1>16, <1>17, <1>20
  <2> QED
    BY <1>1, <1>16, <2>1, <2>2 DEF Position
<1>22. ASSUME mode = "sequential" PROVE Current = n /\ (todo # <<>> => Settled)
  <2>1. CASE n = 0
    BY <1>15, <2>1 DEF Turn
  <2>2. CASE n > 0
    <3>1. Answered(n) /\ n \in Nat \ {0}
      BY <1>1, <1>2, <1>22, <2>2
    <3>2. n <= Current /\ (n = Current /\ todo # <<>> => Settled)
      BY <3>1, AnsweredFacts
    <3> QED
      BY <1>2, <1>15, <3>2
  <2> QED
    BY <1>2, <2>1, <2>2
<1>23. Turn'
  <2>1. Current > 0 => reqs[Current] = cl.reqs[Current]
    BY <1>3, <1>15
  <2>2. Current \in 0 .. m /\ (mode = "sequential" => m <= Current + 1)
    BY <1>2, <1>15, <1>22
  <2> HIDE DEF n
  <2> QED
    BY <1>1, <1>3, <1>6, <1>11, <1>16, <1>17, <1>19, <1>22, <2>1, <2>2 DEF Turn
<1>24. Recognised'
  <2>1. CASE mode = "pipelined"
    <3>1. Current > 0 => reqs[Current] = cl.reqs[Current]
      BY <1>3, <1>15
    <3>2. todo # <<>> => Current > 0
      BY DEF Turn
    <3>3. Resumed.state = "headers" => Rest # <<>>
      BY <1>7, <1>18, <1>19 DEF Meets
    <3>4. Rest # <<>> => reqs[Rest[1].r] = cl.reqs[Rest[1].r]
      BY <1>3, FirstBelongs DEF Belongs
    <3> QED
      BY <1>1, <1>6, <1>14, <1>16, <1>17, <2>1, <3>1, <3>2, <3>3, <3>4 DEF Recognised
  <2>2. CASE mode # "pipelined"
    BY <1>1, <2>2 DEF Recognised
  <2> QED
    BY <2>1, <2>2
<1>25. Shut'
  BY <1>1, <1>6 DEF Shut
<1>26. Asking'
  <2>1. ASSUME NEW i \in 1 .. m
        PROVE  /\ i < m => reqs[i].conn = "keep"
               /\ mode = "pipelined" => reqs[i].body = 0 /\ reqs[i].conn # "upgrade"
               /\ reqs[i].conn = "upgrade" => reqs[i].body = 0 /\ s.onData
    <3>1. CASE i = m
      BY <1>1, <1>2, <1>3, <3>1
    <3>2. CASE i # m
      <4>1. i \in 1 .. n /\ reqs[i] = cl.reqs[i] /\ (i < n \/ (i = n /\ n > 0))
        BY <1>2, <1>3, <3>2
      <4> QED
        BY <1>1, <4>1 DEF Asking
    <3> QED
      BY <3>1, <3>2
  <2> QED
    BY <1>1, <1>3, <1>6, <1>7, <2>1 DEF Asking
<1> QED
  BY <1>1, <1>9, <1>13, <1>16, <1>21, <1>23, <1>24, <1>25, <1>26

(* The client of an upgraded connection sends data. *)
LEMMA RawSent ==
  ASSUME Awkward \subseteq {"abort"}, Standing, send_raw
  PROVE  Standing'
<1> USE DEF Standing, Live
<1> DEFINE n == Len(cl.reqs)
           e == El(n, "raw", 0)
<1>1. /\ ~cl.gone /\ s.conn = "open" /\ n > 0 /\ cl.reqs[n].conn = "upgrade" /\ Answered(n)
      /\ cl' = [cl EXCEPT !.n = @ + 1, !.raw = @ + 1] /\ input' = Append(input, e)
      /\ mode' = mode /\ buf' = buf /\ at' = at /\ parser' = parser /\ s' = s
      /\ todo' = todo /\ seen' = seen
  BY DEF send_raw
<1>2. n \in Nat \ {0} /\ cl.raw \in Nat /\ cl.n \in Nat
  BY <1>1, FieldTypes
<1>3. e \in Elements /\ e.kind = "raw" /\ e.r = n
  BY <1>2 DEF El, Elements
<1> HIDE DEF e
<1>4. /\ cl' \in Clients /\ cl'.reqs = cl.reqs /\ cl'.n = cl.n + 1 /\ cl'.raw = cl.raw + 1
      /\ cl'.gone = cl.gone /\ cl'.cut = cl.cut
  <2>1. cl \in Clients /\ cl' = [cl EXCEPT !.n = @ + 1, !.raw = @ + 1]
    BY <1>1 DEF Types
  <2>2. cl.n + 1 \in Nat /\ cl.raw + 1 \in Nat
    BY <1>2
  <2> DEFINE i == cl.n + 1
             j == cl.raw + 1
  <2>3. cl' = [cl EXCEPT !.n = i, !.raw = j]
    BY <2>1
  <2> HIDE DEF i, j
  <2>4. i \in Nat /\ j \in Nat
    BY <2>2 DEF i, j
  <2>5. /\ cl' \in Clients /\ cl'.reqs = cl.reqs /\ cl'.n = i /\ cl'.raw = j
        /\ cl'.gone = cl.gone /\ cl'.cut = cl.cut
    BY <2>1, <2>3, <2>4 DEF Clients
  <2> QED
    BY <2>5 DEF i, j
<1>5. ~cl.cut
  BY <1>1 DEF Asking
<1>6. /\ input \in Seq(Elements) /\ buf \in Seq(Elements) /\ Rest \in Seq(Elements)
      /\ input' \in Seq(Elements) /\ Len(input') = Len(input) + 1 /\ Len(input) \in Nat
      /\ Len(buf) \in Nat
  <2>1. input \in Seq(Elements) /\ buf \in Seq(Elements) /\ Rest \in Seq(Elements)
        /\ Len(input) \in Nat /\ Len(buf) \in Nat
    BY RestFacts
  <2>2. Append(input, e) \in Seq(Elements) /\ Len(Append(input, e)) = Len(input) + 1
    BY <1>3, <2>1, AppendFacts
  <2> QED
    BY <1>1, <2>1, <2>2
<1>7. Types'
  BY <1>1, <1>4, <1>6 DEF Types
<1>8. Current = n /\ todo = <<>> /\ s.upgrade /\ Current \in 0 .. n
  <2>1. Current \in 0 .. n
    BY DEF Turn
  <2>2. n <= Current /\ (n = Current /\ todo # <<>> => cl.reqs[n].conn # "upgrade")
    BY <1>1, <1>2, AnsweredFacts
  <2>3. Current = n /\ todo = <<>>
    BY <1>1, <1>2, <2>1, <2>2
  <2> QED
    BY <1>1, <1>2, <2>1, <2>3 DEF Turn
<1>9. Resumed.state = "start" /\ \A i \in 1 .. Len(Rest) : Rest[i].kind = "raw"
  <2>1. Meets(Resumed, s.upgrade, Rest, Current, Len(cl.reqs), cl.cut)
    BY DEF Position
  <2> QED
    BY <1>8, <2>1 DEF Meets
<1> DEFINE r == Rest
<1>10. Rest' = Append(r, e)
  <2>1. Rest' = buf \o Append(input, e)
    BY <1>1 DEF Rest
  <2> QED
    BY <1>3, <1>6, <2>1, ConcatAppend DEF Rest
<1>11. /\ r \in Seq(Elements) /\ (\A i \in 1 .. Len(r) : r[i].kind = "raw")
       /\ Reads(cl.reqs, cl.raw, FALSE, r)
  <2>1. cl.cut = FALSE
    BY <1>5, FieldTypes
  <2> QED
    BY <1>6, <1>9, <2>1 DEF Script
<1> HIDE DEF r
<1> DEFINE x == Append(r, e)
<1>12. /\ x \in Seq(Elements) /\ Len(x) = Len(r) + 1 /\ Len(r) \in Nat /\ x[Len(r) + 1] = e
       /\ \A i \in 1 .. Len(r) : x[i] = r[i]
       /\ x # <<>>
  BY <1>3, <1>11, AppendFacts
<1> HIDE DEF x
<1>13. \A i \in 1 .. Len(x) : x[i].kind = "raw"
  <2>1. \A i \in 1 .. Len(x) : i \in 1 .. Len(r) \/ i = Len(r) + 1
    BY <1>12
  <2> QED
    BY <1>3, <1>11, <1>12, <2>1
<1>14. Reads(cl.reqs, cl.raw + 1, FALSE, x)
  <2>1. Belongs(cl.reqs, cl.raw + 1, e)
    BY <1>1, <1>2, <1>3 DEF Belongs
  <2>2. ASSUME NEW i \in 1 .. Len(r) PROVE Belongs(cl.reqs, cl.raw + 1, r[i])
    <3>1. Belongs(cl.reqs, cl.raw, r[i])
      BY <1>11 DEF Reads
    <3> QED
      BY <1>2, <3>1 DEF Belongs
  <2>3. ASSUME NEW i \in 1 .. Len(x) PROVE Belongs(cl.reqs, cl.raw + 1, x[i])
    <3>1. i \in 1 .. Len(r) \/ i = Len(r) + 1
      BY <1>12
    <3> QED
      BY <1>12, <2>1, <2>2, <3>1
  <2>4. ASSUME NEW i \in 1 .. Len(x) - 1 PROVE Follows(cl.reqs, x[i], x[i + 1])
    <3>1. i \in 1 .. Len(r) /\ x[i] = r[i]
      BY <1>12
    <3>2. CASE i = Len(r)
      <4>1. x[i + 1] = e /\ r # <<>>
        BY <1>12, <3>1, <3>2
      <4>2. Final(n, r[i])
        BY <1>11, <3>2, <4>1 DEF Reads
      <4> QED
        BY <1>3, <1>11, <3>1, <4>1, <4>2 DEF Follows, Final
    <3>3. CASE i # Len(r)
      <4>1. i \in 1 .. Len(r) - 1 /\ x[i + 1] = r[i + 1]
        BY <1>12, <3>1, <3>3
      <4> QED
        BY <1>11, <3>1, <4>1 DEF Reads
    <3> QED
      BY <3>2, <3>3
  <2>5. Final(n, x[Len(x)])
    BY <1>3, <1>12 DEF Final
  <2> QED
    BY <2>3, <2>4, <2>5 DEF Reads
<1>15. Script'
  <2>1. cl'.cut = FALSE
    BY <1>4, <1>5, FieldTypes
  <2> QED
    BY <1>4, <1>10, <1>14, <2>1 DEF Script, x
<1>16. Framing' /\ Current' = Current
  <2>1. \A i \in 1 .. Current : cl'.reqs[i] = cl.reqs[i]
    BY <1>4
  <2> QED
    BY <1>1, <1>8, <2>1, FramingStays
<1>17. Resumed' = Resumed /\ (Settled' <=> Settled) /\ Rest' = x
  BY <1>1, <1>10 DEF Resumed, Settled, x
<1>18. Position'
  <2>1. Meets(Resumed, s.upgrade, x, Current, n, cl.cut)
    BY <1>8, <1>9, <1>13 DEF Meets
  <2>2. cl'.n = seen' + Len(buf') + Len(input')
    <3>1. cl.n = seen + Len(buf) + Len(input) /\ seen \in Nat
      BY <1>5 DEF Position, Types
    <3> QED
      BY <1>1, <1>4, <1>6, <3>1
  <2>3. Meets(Resumed, s.upgrade, Rest, Current, Len(cl.reqs), cl.cut)'
    BY <1>1, <1>4, <1>16, <1>17, <2>1
  <2> QED
    BY <1>1, <1>16, <2>2, <2>3 DEF Position
<1>19. Turn'
  BY <1>1, <1>4, <1>8, <1>16, <1>17 DEF Turn
<1>20. Recognised'
  BY <1>1, <1>4, <1>8, <1>9, <1>16, <1>17 DEF Recognised
<1>21. Shut'
  BY <1>1, <1>4 DEF Shut
<1>22. Asking'
  BY <1>1, <1>4 DEF Asking
<1> QED
  BY <1>1, <1>7, <1>15, <1>16, <1>18, <1>19, <1>20, <1>21, <1>22

-----------------------------------------------------------------------------
(* The program. *)

(* What the program knows when it answers. *)
LEMMA CallFacts ==
  ASSUME Awkward \subseteq {"abort"}, Standing, MayCall
  PROVE  /\ todo # <<>> /\ Len(todo) = 1 /\ todo[1] \in Answers /\ todo[1].r = Current
         /\ Tail(todo) = <<>> /\ Current \in Nat \ {0} /\ Current \in 1 .. Len(cl.reqs)
         /\ at \in {"onRequest", "onData", "loop"}
         /\ InOrder(Out, Current) /\ Before(Out, Current) /\ Awaits(Out, todo[1], s)
         /\ (s.upgrade => todo[1].framing = "none") /\ (~s.bottled => s.wreq = <<>>)
         /\ s \in Connections /\ Out = Written(s)
<1> USE DEF Standing, Live
<1>1. todo # <<>> /\ at \in {"onRequest", "onData", "loop"}
  BY DEF MayCall
<1>2. /\ Len(todo) = 1 /\ todo[1] \in Answers /\ todo[1].r = Current
  BY <1>1, TailFacts DEF Turn, Current, Types
<1>3. Tail(todo) = <<>>
  <2>1. todo \in Seq(Answers)
    BY DEF Types
  <2>2. Tail(todo) \in Seq(Answers) /\ Len(Tail(todo)) = 0
    BY <1>1, <1>2, <2>1, TailFacts DEF Drops
  <2> QED
    BY <2>2, EmptySeq
<1>4. Current \in Nat \ {0} /\ Current \in 1 .. Len(cl.reqs) /\ Len(cl.reqs) \in Nat
  BY <1>1, FieldTypes DEF Turn
<1>5. Before(Out, Current)
  <2> DEFINE a == s.wire
             b == s.wreq
  <2>1. a \in Seq(Tokens) /\ b \in Seq(Tokens) /\ Out = a \o b
    BY FieldTypes DEF Out
  <2>2. ASSUME NEW r \in 1 .. Current - 1 PROVE \E j \in 1 .. Len(a) : a[j].r = r /\ Ends(a, j)
    <3>1. Answered(r)
      BY <1>4, <2>2 DEF Framing
    <3>2. cl.reqs[r].conn = "keep"
      BY <1>4, <2>2 DEF Asking
    <3> QED
      BY <3>1, <3>2 DEF Answered, Whole
  <2> HIDE DEF a, b
  <2>3. /\ Len(a \o b) = Len(a) + Len(b) /\ Len(a) \in Nat /\ Len(b) \in Nat
        /\ a \o b \in Seq(Tokens)
        /\ \A i \in 1 .. Len(a) : (a \o b)[i] = a[i] /\ i \in 1 .. Len(a \o b)
    BY <2>1, ConcatFacts
  <2>4. Len(a) <= Len(a \o b) /\ Len(a \o b) \in Nat
    BY <2>3
  <2>5. \A j \in 1 .. Len(a) : Ends(a \o b, j) <=> Ends(a, j)
    BY <2>1, <2>3, <2>4, EndsOfPrefix
  <2>6. ASSUME NEW r \in 1 .. Current - 1
        PROVE  \E j \in 1 .. Len(Out) : Out[j].r = r /\ Ends(Out, j)
    <3>1. PICK j \in 1 .. Len(a) : a[j].r = r /\ Ends(a, j)
      BY <2>2
    <3>2. j \in 1 .. Len(Out) /\ Out[j].r = r /\ Ends(Out, j)
      BY <2>1, <2>3, <2>5, <3>1
    <3> QED
      BY <3>2
  <2> QED
    BY <2>6 DEF Before
<1>6. /\ InOrder(Out, Current) /\ Awaits(Out, todo[1], s)
      /\ (s.upgrade => todo[1].framing = "none") /\ (~s.bottled => s.wreq = <<>>)
  BY <1>1 DEF Framing
<1>7. s \in Connections /\ Out = Written(s)
  BY DEF Types, Out, Written
<1> QED
  BY <1>1, <1>2, <1>3, <1>4, <1>5, <1>6, <1>7

(* When the program may finish a request, the parser is behind it, and the *)
(* rest of a chunk is only there when the connection is kept.              *)
LEMMA CompleteFacts ==
  ASSUME Awkward \subseteq {"abort"}, Standing, MayCall, Complete
  PROVE  Resumed.state = "start" /\ at # "onData" /\ (~KeepAlive(s) => buf = <<>>)
<1> USE DEF Standing, Live
<1>1. todo # <<>> /\ Current \in 1 .. Len(cl.reqs)
  BY CallFacts
<1>2. todo[1].body = 0 \/ (at = "loop" /\ parser.state = "start")
  BY DEF Complete
<1>3. Resumed.state = "start"
  <2>1. CASE todo[1].body = 0
    BY <1>1, <2>1 DEF Turn
  <2>2. CASE at = "loop" /\ parser.state = "start"
    BY <2>2, ResumedFacts
  <2> QED
    BY <1>2, <2>1, <2>2
<1>4. at # "onData"
  BY <1>1, <1>2 DEF Turn
<1>5. ASSUME ~KeepAlive(s), buf # <<>> PROVE FALSE
  <2>1. Rest # <<>> /\ Rest[1] = buf[1] /\ 1 \in 1 .. Len(buf)
    BY <1>5, RestFacts
  <2>2. ~s.upgrade
    BY <1>5 DEF Turn
  <2>3. Rest[1].r = Current + 1
    <3>1. Meets(Resumed, s.upgrade, Rest, Current, Len(cl.reqs), cl.cut)
      BY DEF Position
    <3> QED
      BY <1>3, <2>1, <2>2, <3>1 DEF Meets
  <2>4. CASE mode = "sequential"
    <3>1. buf[1].r <= Current
      BY <1>1, <2>1, <2>4 DEF Turn
    <3> QED
      BY <1>1, <2>1, <2>3, <3>1
  <2>5. CASE mode = "pipelined"
    <3>1. cl.reqs[Current].conn # "keep"
      BY <1>1, <1>5, <2>5 DEF Recognised
    <3>2. Current = Len(cl.reqs)
      BY <1>1, <3>1, LastAsked
    <3>3. Rest[1].r \in 1 .. Len(cl.reqs)
      BY <2>1, FirstBelongs DEF Belongs
    <3> QED
      BY <1>1, <2>3, <3>2, <3>3
  <2> QED
    BY <2>4, <2>5 DEF Types
<1> QED
  BY <1>3, <1>4, <1>5

(* What has been answered stays answered, whatever is written.             *)
LEMMA AnsweredStays ==
  ASSUME Types, Types', cl' = cl,
         Len(s.wire) <= Len(s'.wire), \A i \in 1 .. Len(s.wire) : s'.wire[i] = s.wire[i],
         NEW r, Answered(r)
  PROVE  Answered(r)'
<1> DEFINE v == s.wire
           w == s'.wire
<1>1. v \in Seq(Tokens) /\ w \in Seq(Tokens)
  BY DEF Types, Connections
<1>2. Len(v) <= Len(w) /\ \A i \in 1 .. Len(v) : w[i] = v[i]
  OBVIOUS
<1>3. /\ \A i \in 1 .. Len(v) : i \in 1 .. Len(w)
      /\ Whole(v, r) \/ ((\E i \in 1 .. Len(v) : v[i].r = r) /\ cl.reqs[r].conn = "upgrade")
  <2>1. Len(v) \in Nat /\ Len(w) \in Nat
    BY <1>1, LenProperties
  <2> QED
    BY <1>2, <2>1 DEF Answered
<1> HIDE DEF v, w
<1>4. Len(v) \in Nat /\ Len(w) \in Nat
  BY <1>1, LenProperties
<1>5. \A i \in 1 .. Len(v) : Ends(w, i) <=> Ends(v, i)
  BY <1>1, <1>2, <1>4, EndsOfPrefix
<1>6. Whole(v, r) => Whole(w, r)
  BY <1>2, <1>3, <1>5 DEF Whole
<1>7. (\E i \in 1 .. Len(v) : v[i].r = r) => \E i \in 1 .. Len(w) : w[i].r = r
  BY <1>2, <1>3
<1> QED
  BY <1>3, <1>6, <1>7 DEF Answered, w

(* A call that does not finish the request: w has been written, and what   *)
(* is left of the answer goes on behind it.                                *)
LEMMA AnswerGoesOn ==
  ASSUME Awkward \subseteq {"abort"}, Standing, MayCall, ~Settled, NEW w \in Seq(Tokens),
         Sends(s, s', w), InOrder(w, Current), todo' \in Seq(Answers), Len(todo') = 1,
         todo'[1].r = Current, todo'[1].body = todo[1].body, Awaits(w, todo'[1], s'),
         s.upgrade => todo'[1].framing = "none",
         UNCHANGED <<mode, cl, input, buf, at, parser, seen>>
  PROVE  Standing'
<1> USE DEF Standing, Live
<1>1. todo # <<>> /\ Current \in 1 .. Len(cl.reqs) /\ Current \in Nat \ {0} /\ todo' # <<>>
      /\ Len(todo) = 1
  <2>1. todo' # <<>>
    BY EmptySeq
  <2> QED
    BY <2>1, CallFacts
<1>2. /\ s' \in Connections /\ Written(s') = w /\ s'.conn = s.conn /\ s'.alive = s.alive
      /\ s'.connection = s.connection /\ s'.upgrade = s.upgrade /\ s'.refs = s.refs
      /\ s'.closing = s.closing /\ s'.onData = s.onData /\ (~s'.bottled => s'.wreq = <<>>)
      /\ Len(s.wire) <= Len(s'.wire) /\ \A i \in 1 .. Len(s.wire) : s'.wire[i] = s.wire[i]
  BY DEF Sends
<1>3. Types'
  BY <1>2 DEF Types
<1>4. Out' = w
  BY <1>2 DEF Out, Written
<1>5. Current' = Current
  BY <1>1 DEF Current
<1>6. Resumed' = Resumed /\ Rest' = Rest
  BY <1>2 DEF Resumed, Rest
<1>7. Framing'
  <2>1. \A r \in 1 .. Current : r < Current => Answered(r)
    BY DEF Framing
  <2>2. \A r \in 1 .. Current : r < Current => Answered(r)'
    BY <1>2, <1>3, <2>1, AnsweredStays
  <2> QED
    BY <1>1, <1>2, <1>4, <1>5, <2>2 DEF Framing
<1>8. Script' /\ Asking'
  BY <1>2, <1>6 DEF Script, Asking
<1>9. Position'
  BY <1>2, <1>5, <1>6 DEF Position
<1>10. Turn'
  <2>1. mode = "sequential" => Len(cl.reqs) = Current
    BY <1>1 DEF Turn
  <2>2. cl.raw > 0 => FALSE
    BY <1>1 DEF Turn
  <2> QED
    BY <1>1, <1>2, <1>5, <1>6, <2>1, <2>2 DEF Turn
<1>11. Recognised'
  BY <1>1, <1>2, <1>5, <1>6 DEF Recognised, KeepAlive
<1>12. Shut'
  BY <1>1, <1>2, <1>6 DEF Shut
<1> QED
  BY <1>2, <1>3, <1>7, <1>8, <1>9, <1>10, <1>11, <1>12

(* A call that finishes the request: w has been written, with the whole    *)
(* answer at its end and nothing left in the bottle.                       *)
LEMMA AnswerEnds ==
  ASSUME Awkward \subseteq {"abort"}, Standing, MayCall, NEW w \in Seq(Tokens),
         Sends([s EXCEPT !.conn = s'.conn], s', w), InOrder(w, Current), ~s'.bottled,
         w # <<>>, w[Len(w)].r = Current, Ends(w, Len(w)) \/ s.upgrade,
         todo' = <<>>,
         \/ parser' = parser /\ s'.conn = s.conn
         \/ /\ Complete /\ parser' = fin_parser(s, parser)
            /\ s'.conn = IF KeepAlive(s) THEN s.conn ELSE "shutting",
         UNCHANGED <<mode, cl, input, buf, at, seen>>
  PROVE  Standing'
<1> USE DEF Standing, Live
<1>1. todo # <<>> /\ Current \in 1 .. Len(cl.reqs) /\ Current \in Nat \ {0}
      /\ at \in {"onRequest", "onData", "loop"}
  BY CallFacts
<1>2. /\ s' \in Connections /\ Written(s') = w /\ s'.alive = s.alive
      /\ s'.connection = s.connection /\ s'.upgrade = s.upgrade /\ s'.wreq = <<>>
      /\ s'.refs = s.refs /\ s'.closing = s.closing /\ s'.onData = s.onData
      /\ Len(s.wire) <= Len(s'.wire) /\ \A i \in 1 .. Len(s.wire) : s'.wire[i] = s.wire[i]
  <2> DEFINE a == [s EXCEPT !.conn = s'.conn]
  <2>1. /\ a.alive = s.alive /\ a.connection = s.connection /\ a.upgrade = s.upgrade
        /\ a.wire = s.wire /\ a.refs = s.refs /\ a.closing = s.closing
        /\ a.onData = s.onData
    BY DEF Types, Connections
  <2> HIDE DEF a
  <2>2. Sends(a, s', w)
    BY DEF a
  <2> QED
    BY <2>1, <2>2 DEF Sends
<1>3. s'.conn \in {s.conn, "shutting"} /\ s'.conn # "closed"
  OBVIOUS
<1>4. parser' = parser \/ (Complete /\ parser' = lhttp_parser_new)
  BY DEF fin_parser, lhttp_parser_reinitialize
<1>5. parser' \in Parsers
  BY <1>4 DEF Types, lhttp_parser_new, Parsers
<1>6. Types'
  <2>1. <<>> \in Seq(Answers)
    OBVIOUS
  <2> QED
    BY <1>2, <1>5, <2>1 DEF Types
<1>7. Out' = w /\ s'.wire = w
  <2>1. s'.wire \in Seq(Tokens) /\ s'.wreq = <<>>
    BY <1>2 DEF Connections
  <2>2. s'.wire \o <<>> = s'.wire
    BY <2>1
  <2> QED
    BY <1>2, <2>2 DEF Out, Written
<1>8. Current' = Current
  BY <1>7 DEF Current
<1>9. Rest' = Rest
  BY DEF Rest
<1>10. Resumed' = Resumed \/ (Complete /\ Resumed'.state = "start" /\ at # "onData")
  <2>1. CASE parser' = parser
    BY <1>2, <2>1 DEF Resumed
  <2>2. CASE Complete /\ parser' = lhttp_parser_new
    <3>1. at # "onData"
      BY <2>2, CompleteFacts
    <3>2. Resumed' = parser'
      BY <2>2, <3>1 DEF Resumed, lhttp_parser_new
    <3> QED
      BY <2>2, <3>1, <3>2 DEF lhttp_parser_new
  <2> QED
    BY <1>4, <2>1, <2>2
<1>11. ASSUME NEW r, r = Current PROVE Answered(r)'
  <2>1. Len(w) \in 1 .. Len(w)
    BY EmptySeq, LenProperties
  <2>2. CASE Ends(w, Len(w))
    <3>1. Whole(w, r)
      BY <1>11, <2>1, <2>2 DEF Whole
    <3> QED
      BY <1>7, <3>1 DEF Answered
  <2>3. CASE s.upgrade
    <3>1. cl'.reqs[r].conn = "upgrade"
      BY <1>11, <2>3 DEF Turn
    <3> QED
      BY <1>7, <1>11, <2>1, <3>1 DEF Answered
  <2> QED
    BY <2>2, <2>3
<1>12. Framing'
  <2>1. \A r \in 1 .. Current : r < Current => Answered(r)
    BY DEF Framing
  <2>2. \A r \in 1 .. Current : r < Current => Answered(r)'
    BY <1>2, <1>6, <2>1, AnsweredStays
  <2>3. \A r \in 1 .. Current : Answered(r)'
    <3>1. \A r \in 1 .. Current : r < Current \/ r = Current
      BY <1>1
    <3> QED
      BY <1>11, <2>2, <3>1
  <2> QED
    BY <1>2, <1>7, <1>8, <2>3 DEF Framing
<1>13. Script' /\ Asking'
  BY <1>2, <1>9 DEF Script, Asking
<1>14. Meets(Resumed', s.upgrade, Rest, Current, Len(cl.reqs), cl.cut)
  <2>1. Meets(Resumed, s.upgrade, Rest, Current, Len(cl.reqs), cl.cut)
    BY DEF Position
  <2>2. CASE Resumed' = Resumed
    BY <2>1, <2>2
  <2>3. CASE Complete /\ Resumed'.state = "start"
    <3>1. Resumed.state = "start"
      BY <2>3, CompleteFacts
    <3> QED
      BY <2>1, <2>3, <3>1 DEF Meets
  <2> QED
    BY <1>10, <2>2, <2>3
<1>15. Position'
  <2>1. at = "onRequest" => parser'.state \in {"headers", "start"} /\ parser'.left >= 0
    BY <1>4 DEF Position, lhttp_parser_new
  <2>2. at = "onData" => parser' = parser
    BY <1>4, CompleteFacts
  <2>3. Meets(Resumed, s.upgrade, Rest, Current, Len(cl.reqs), cl.cut)'
    BY <1>2, <1>8, <1>9, <1>14
  <2> QED
    BY <1>2, <1>8, <2>1, <2>2, <2>3 DEF Position
<1>16. Turn'
  <2>1. mode = "sequential" => Len(cl.reqs) <= Current + 1
    BY DEF Turn
  <2>2. cl.raw > 0 => FALSE
    BY <1>1 DEF Turn
  <2> QED
    BY <1>2, <1>8, <2>1, <2>2 DEF Turn
<1>17. Recognised'
  BY <1>2, <1>8, <1>9, <1>10 DEF Recognised, KeepAlive
<1>18. Shut'
  <2>1. CASE s'.conn = s.conn
    <3>1. s'.conn = "shutting" /\ ~cl.cut => Resumed.state = "start" /\ buf = <<>>
      BY <1>1, <2>1 DEF Shut
    <3> QED
      BY <1>1, <1>2, <1>10, <3>1 DEF Shut
  <2>2. CASE s'.conn # s.conn
    <3>1. Complete /\ ~KeepAlive(s)
      BY <2>2
    <3>2. Resumed.state = "start" /\ buf = <<>>
      BY <3>1, CompleteFacts
    <3> QED
      BY <1>1, <1>2, <1>10, <3>2 DEF Shut
  <2> QED
    BY <2>1, <2>2
<1> QED
  BY <1>2, <1>3, <1>6, <1>12, <1>13, <1>15, <1>16, <1>17, <1>18

(* The program bottles. *)
LEMMA BottleCalled ==
  ASSUME Awkward \subseteq {"abort"}, Standing, prog_bottle
  PROVE  Standing'
<1>1. /\ MayCall /\ ~s.bottled /\ ~Settled /\ s' = bottle(s)
      /\ UNCHANGED <<mode, cl, input, buf, at, parser, todo, seen>>
  BY DEF prog_bottle
<1>2. /\ todo # <<>> /\ Len(todo) = 1 /\ todo[1].r = Current /\ InOrder(Out, Current)
      /\ Awaits(Out, todo[1], s) /\ (s.upgrade => todo[1].framing = "none")
      /\ s \in Connections /\ Out = Written(s) /\ Out \in Seq(Tokens)
  BY <1>1, CallFacts, FieldTypes DEF Standing
<1>3. /\ s' \in Connections /\ s'.bottled = TRUE /\ Written(s') = Written(s) /\ s'.wire = s.wire
      /\ s'.conn = s.conn /\ s'.alive = s.alive /\ s'.connection = s.connection
      /\ s'.upgrade = s.upgrade /\ s'.response = s.response
      /\ s'.refs = s.refs /\ s'.closing = s.closing /\ s'.onData = s.onData
  BY <1>1, <1>2, BottleFacts
<1>4. Sends(s, s', Out)
  <2>1. Len(s.wire) \in Nat
    BY <1>2, LenProperties DEF Connections
  <2> QED
    BY <1>2, <1>3, <2>1 DEF Sends
<1>5. Awaits(Out, todo'[1], s')
  <2>1. todo[1].framing = "length" => todo[1].left # 0
    BY <1>1, <1>2 DEF Settled
  <2>2. todo[1].framing \in {"none", "chunked", "length"} /\ todo' = todo
    BY <1>1, CallFacts DEF Answers
  <2>3. CASE todo[1].framing = "none"
    BY <1>2, <1>3, <2>2, <2>3 DEF Awaits
  <2>4. CASE todo[1].framing = "chunked"
    BY <1>2, <1>3, <2>2, <2>4 DEF Awaits
  <2>5. CASE todo[1].framing = "length"
    BY <1>2, <1>3, <2>1, <2>2, <2>5 DEF Awaits
  <2> QED
    BY <2>2, <2>3, <2>4, <2>5
<1>6. todo' \in Seq(Answers)
  BY <1>1 DEF Standing, Types
<1> QED
  BY <1>1, <1>2, <1>4, <1>5, <1>6, AnswerGoesOn

(* The fields of the program's request when some of them change. *)
LEMMA AnswerChanged ==
  ASSUME NEW q \in Seq(Answers), Len(q) = 1, NEW u \in Answers
  PROVE  [q EXCEPT ![1] = u] \in Seq(Answers) /\ Len([q EXCEPT ![1] = u]) = 1
         /\ [q EXCEPT ![1] = u][1] = u
<1>1. 1 \in 1 .. Len(q)
  OBVIOUS
<1> QED
  BY <1>1, ExceptSeq

(* What is left of an answer behind its head. *)
LEMMA AnswerHeaded ==
  ASSUME NEW t \in Answers, NEW length \in {Chunked, 0, 1}
  PROVE  LET u == [t EXCEPT !.framing = IF length = Chunked THEN "chunked" ELSE "length",
                            !.left = length]
         IN /\ u \in Answers /\ u.r = t.r /\ u.body = t.body /\ u.left = length
            /\ u.framing = (IF length = Chunked THEN "chunked" ELSE "length")
<1> DEFINE f == IF length = Chunked THEN "chunked" ELSE "length"
           u == [t EXCEPT !.framing = f, !.left = length]
<1>1. length \in Int /\ f \in {"none", "chunked", "length"}
  BY DEF Chunked
<1> HIDE DEF f
<1>2. u \in Answers /\ u.r = t.r /\ u.body = t.body /\ u.framing = f /\ u.left = length
  BY <1>1 DEF Answers
<1> QED
  BY <1>2 DEF f

(* What is left of an answer behind a piece that was written. *)
LEMMA AnswerWritten ==
  ASSUME NEW t \in Answers
  PROVE  LET u == [t EXCEPT !.framing = IF @ = "none" THEN "chunked" ELSE @, !.wrote = @ + 1,
                            !.left = IF t.framing = "length" THEN @ - 1 ELSE @]
         IN /\ u \in Answers /\ u.r = t.r /\ u.body = t.body
            /\ u.framing = (IF t.framing = "none" THEN "chunked" ELSE t.framing)
            /\ u.left = (IF t.framing = "length" THEN t.left - 1 ELSE t.left)
            /\ t.framing \in {"none", "chunked", "length"}
<1> DEFINE u == [t EXCEPT !.framing = IF @ = "none" THEN "chunked" ELSE @, !.wrote = @ + 1,
                          !.left = IF t.framing = "length" THEN @ - 1 ELSE @]
           f == IF t.framing = "none" THEN "chunked" ELSE t.framing
           k == t.wrote + 1
           l == IF t.framing = "length" THEN t.left - 1 ELSE t.left
<1>1. t.framing \in {"none", "chunked", "length"} /\ t.wrote \in Nat /\ t.left \in Int
  BY DEF Answers
<1>2. f \in {"none", "chunked", "length"} /\ k \in Nat /\ l \in Int
  BY <1>1
<1>3. u = [t EXCEPT !.framing = f, !.wrote = k, !.left = l]
  BY <1>1 DEF Answers
<1> HIDE DEF f, k, l, u
<1>4. u \in Answers /\ u.r = t.r /\ u.body = t.body /\ u.framing = f /\ u.left = l
  BY <1>1, <1>2, <1>3 DEF Answers
<1> QED
  BY <1>1, <1>4 DEF f, l, u

(* The program writes a head. *)
LEMMA HeadCalled ==
  ASSUME Awkward \subseteq {"abort"}, Standing, NEW length \in {Chunked, 0, 1},
         prog_writeHead(length)
  PROVE  Standing'
<1> DEFINE c == Current
           t == todo[1]
           w == Append(Out, Token(c, "head", length))
           u == [t EXCEPT !.framing = IF length = Chunked THEN "chunked" ELSE "length",
                          !.left = length]
<1>1. /\ MayCall /\ t.framing = "none" /\ (s.upgrade => ~s.bottled)
      /\ (length = 0 => MaySettle) /\ s' = writeHead(s, t.r, length)
      /\ todo' = (IF s.upgrade THEN Tail(todo)
                  ELSE [todo EXCEPT ![1].framing = IF length = Chunked THEN "chunked" ELSE "length",
                                    ![1].left = length])
      /\ UNCHANGED <<mode, cl, input, buf, at, parser, seen>>
  BY DEF prog_writeHead
<1>2. /\ todo # <<>> /\ Len(todo) = 1 /\ t \in Answers /\ t.r = c /\ Tail(todo) = <<>>
      /\ c \in Nat \ {0} /\ InOrder(Out, c) /\ Before(Out, c) /\ Awaits(Out, t, s)
      /\ s \in Connections /\ Out = Written(s) /\ Out \in Seq(Tokens) /\ todo \in Seq(Answers)
      /\ s.conn # "closed"
  BY <1>1, CallFacts, FieldTypes DEF Standing, Types
<1> HIDE DEF c, t
<1>3. Silent(Out, c) /\ s.response = NewResponse
  BY <1>1, <1>2 DEF Awaits
<1>4. ~s.response.headers_sent /\ s.response.chunked_encoding = TRUE
  BY <1>3 DEF NewResponse
<1>5. /\ InOrder(w, c) /\ (length = Chunked => InChunks(w, c))
      /\ (length = 1 => OneLeft(w, c)) /\ (length = 0 => Finished(w, c))
  BY <1>2, <1>3, HeadAppended
<1>6. w \in Seq(Tokens) /\ w # <<>> /\ w[Len(w)].r = c
  <2>1. Token(c, "head", length) \in Tokens /\ Token(c, "head", length).r = c
    BY <1>2 DEF Token, Tokens
  <2> QED
    BY <1>2, <2>1, AppendFacts
<1>7. /\ Sends(s, s', w) /\ s'.bottled = s.bottled
      /\ s'.response = [headers_sent |-> TRUE, chunked_encoding |-> length = Chunked]
  <2>1. c \in Nat /\ s \in Connections /\ s.conn # "closed" /\ ~s.response.headers_sent
    BY <1>2, <1>4
  <2>2. LET d == writeHead(s, c, length)
        IN /\ Sends(s, d, Append(Written(s), Token(c, "head", length)))
           /\ d.bottled = s.bottled
           /\ d.response = [headers_sent |-> TRUE,
                            chunked_encoding |-> s.response.chunked_encoding /\ length = Chunked]
    BY <2>1, WriteHeadSends
  <2> QED
    BY <1>1, <1>2, <1>4, <2>2
<1> HIDE DEF w
<1>8. CASE s.upgrade
  <2>1. todo' = <<>> /\ ~s'.bottled /\ s'.conn = s.conn
    BY <1>1, <1>2, <1>7, <1>8 DEF Sends
  <2>2. [s EXCEPT !.conn = s'.conn] = s
    BY <1>2, <2>1 DEF Connections
  <2> QED
    BY <1>1, <1>5, <1>6, <1>7, <1>8, <2>1, <2>2, AnswerEnds DEF c
<1>9. CASE ~s.upgrade
  <2>1. u \in Answers /\ u.r = c /\ u.body = t.body
        /\ u.framing = (IF length = Chunked THEN "chunked" ELSE "length") /\ u.left = length
    BY <1>2, AnswerHeaded
  <2>2. todo' = [todo EXCEPT ![1] = u]
    BY <1>1, <1>2, <1>9 DEF t
  <2> HIDE DEF u
  <2>3. todo' \in Seq(Answers) /\ Len(todo') = 1 /\ todo'[1] = u
    BY <1>2, <2>1, <2>2, AnswerChanged
  <2>4. Awaits(w, u, s')
    <3>1. length = 0 => ~s.bottled
      BY <1>1 DEF MaySettle
    <3>2. CASE length = Chunked
      BY <1>5, <1>7, <2>1, <3>2 DEF Awaits
    <3>3. CASE length = 1
      BY <1>5, <1>7, <2>1, <3>3 DEF Awaits, Chunked
    <3>4. CASE length = 0
      BY <1>5, <1>7, <2>1, <3>1, <3>4 DEF Awaits, Chunked
    <3> QED
      BY <3>2, <3>3, <3>4
  <2>5. ~Settled
    BY <1>1 DEF Settled, t
  <2> QED
    BY <1>1, <1>5, <1>6, <1>7, <1>9, <2>1, <2>3, <2>4, <2>5, AnswerGoesOn DEF c, t
<1> QED
  BY <1>8, <1>9

(* A response that has no head yet gets one, and its first chunk. *)
LEMMA FirstChunkAppended ==
  ASSUME NEW w \in Seq(Tokens), NEW c \in Nat \ {0},
         InOrder(w, c), Before(w, c), Silent(w, c)
  PROVE  LET v == Append(Append(w, Token(c, "head", Chunked)), Token(c, "chunk", 0))
         IN v \in Seq(Tokens) /\ InOrder(v, c) /\ Before(v, c) /\ InChunks(v, c)
<1> DEFINE x == Append(w, Token(c, "head", Chunked))
           v == Append(x, Token(c, "chunk", 0))
<1>1. Token(c, "head", Chunked) \in Tokens /\ Token(c, "chunk", 0) \in Tokens
  BY DEF Token, Tokens
<1>2. x \in Seq(Tokens)
  BY <1>1, AppendFacts
<1>3. InOrder(x, c) /\ Before(x, c) /\ InChunks(x, c)
  <2>1. Chunked \in {Chunked, 0, 1}
    OBVIOUS
  <2> QED
    BY <2>1, HeadAppended
<1> HIDE DEF x
<1>4. v \in Seq(Tokens)
  BY <1>1, <1>2, AppendFacts
<1>5. InOrder(v, c) /\ Before(v, c) /\ InChunks(v, c)
  <2>1. "chunk" \in {"chunk", "last"}
    OBVIOUS
  <2> QED
    BY <1>2, <1>3, <2>1, ChunkAppended
<1> QED
  BY <1>4, <1>5 DEF x

(* The program writes. *)
LEMMA WriteCalled ==
  ASSUME Awkward \subseteq {"abort"}, Standing, prog_write
  PROVE  Standing'
<1> DEFINE c == Current
           t == todo[1]
           u == [t EXCEPT !.framing = IF @ = "none" THEN "chunked" ELSE @, !.wrote = @ + 1,
                          !.left = IF t.framing = "length" THEN @ - 1 ELSE @]
<1>1. /\ MayCall /\ ~s.upgrade /\ (t.framing = "length" => ~Settled /\ MaySettle)
      /\ s' = write(s, t.r)
      /\ todo' = [todo EXCEPT ![1].framing = IF @ = "none" THEN "chunked" ELSE @,
                              ![1].wrote = @ + 1,
                              ![1].left = IF t.framing = "length" THEN @ - 1 ELSE @]
      /\ UNCHANGED <<mode, cl, input, buf, at, parser, seen>>
  BY DEF prog_write
<1>2. /\ todo # <<>> /\ Len(todo) = 1 /\ t \in Answers /\ t.r = c
      /\ c \in Nat \ {0} /\ c \in Nat /\ InOrder(Out, c) /\ Before(Out, c) /\ Awaits(Out, t, s)
      /\ s \in Connections /\ Out = Written(s) /\ Out \in Seq(Tokens) /\ todo \in Seq(Answers)
      /\ s.conn # "closed"
  BY <1>1, CallFacts, FieldTypes DEF Standing, Types
<1>3. ~Settled
  BY <1>1 DEF Settled
<1> HIDE DEF c, t
<1>4. todo' = [todo EXCEPT ![1] = u]
  BY <1>1, <1>2 DEF t
<1>5. /\ u \in Answers /\ u.r = c /\ u.body = t.body
      /\ u.framing = (IF t.framing = "none" THEN "chunked" ELSE t.framing)
      /\ u.left = (IF t.framing = "length" THEN t.left - 1 ELSE t.left)
      /\ t.framing \in {"none", "chunked", "length"}
  <2>1. t \in Answers /\ t.r = c
    BY <1>2
  <2> QED
    BY <2>1, AnswerWritten
<1> HIDE DEF u
<1>6. todo' \in Seq(Answers) /\ Len(todo') = 1 /\ todo'[1] = u
  BY <1>2, <1>4, <1>5, AnswerChanged
<1>7. \E w \in Seq(Tokens) : Sends(s, s', w) /\ InOrder(w, c) /\ Awaits(w, u, s')
  <2>1. CASE t.framing = "none"
    <3> DEFINE w == Append(Append(Out, Token(c, "head", Chunked)), Token(c, "chunk", 0))
    <3>1. Silent(Out, c) /\ s.response = NewResponse
      BY <1>2, <2>1 DEF Awaits
    <3>2. w \in Seq(Tokens) /\ InOrder(w, c) /\ InChunks(w, c)
      BY <1>2, <3>1, FirstChunkAppended
    <3>3. /\ Sends(s, s', w)
          /\ s'.response = [headers_sent |-> TRUE, chunked_encoding |-> TRUE]
      BY <1>1, <1>2, <3>1, WriteBegins
    <3> HIDE DEF w
    <3>4. Awaits(w, u, s')
      BY <1>5, <2>1, <3>2, <3>3 DEF Awaits
    <3> QED
      BY <3>2, <3>3, <3>4
  <2>2. CASE t.framing = "chunked"
    <3> DEFINE w == Append(Out, Token(c, "chunk", 0))
    <3>1. /\ InChunks(Out, c)
          /\ s.response = [headers_sent |-> TRUE, chunked_encoding |-> TRUE]
      BY <1>2, <2>2 DEF Awaits
    <3>2. InOrder(w, c) /\ InChunks(w, c)
      <4>1. "chunk" \in {"chunk", "last"}
        OBVIOUS
      <4> QED
        BY <1>2, <3>1, <4>1, ChunkAppended
    <3>3. w \in Seq(Tokens)
      <4>1. Token(c, "chunk", 0) \in Tokens
        BY <1>2 DEF Token, Tokens
      <4> QED
        BY <1>2, <4>1, AppendFacts
    <3>4. s.response.headers_sent /\ s.response.chunked_encoding
      BY <3>1
    <3>5. Sends(s, s', w) /\ s'.response = s.response
      BY <1>1, <1>2, <3>4, WriteGoesOn
    <3> HIDE DEF w
    <3>6. Awaits(w, u, s')
      BY <1>5, <2>2, <3>1, <3>2, <3>5 DEF Awaits
    <3> QED
      BY <3>2, <3>3, <3>5, <3>6
  <2>3. CASE t.framing = "length"
    <3> DEFINE w == Append(Out, Token(c, "data", 0))
    <3>1. /\ s.response = [headers_sent |-> TRUE, chunked_encoding |-> FALSE]
          /\ OneLeft(Out, c) /\ t.left = 1
      <4>1. t.left # 0
        BY <1>2, <1>3, <2>3 DEF Settled, t
      <4> QED
        BY <1>2, <2>3, <4>1 DEF Awaits
    <3>2. InOrder(w, c) /\ Finished(w, c)
      BY <1>2, <3>1, DataAppended
    <3>3. w \in Seq(Tokens)
      <4>1. Token(c, "data", 0) \in Tokens
        BY <1>2 DEF Token, Tokens
      <4> QED
        BY <1>2, <4>1, AppendFacts
    <3>4. s.response.headers_sent /\ ~s.response.chunked_encoding
      BY <3>1
    <3>5. Sends(s, s', w) /\ s'.response = s.response /\ s'.bottled = s.bottled
      BY <1>1, <1>2, <3>4, WriteGoesOn
    <3>6. ~s.bottled
      BY <1>1, <2>3 DEF MaySettle
    <3> HIDE DEF w
    <3>7. Awaits(w, u, s')
      BY <1>5, <2>3, <3>1, <3>2, <3>5, <3>6 DEF Awaits
    <3> QED
      BY <3>2, <3>3, <3>5, <3>7
  <2> QED
    BY <1>5, <2>1, <2>2, <2>3
<1> QED
  BY <1>1, <1>3, <1>5, <1>6, <1>7, AnswerGoesOn DEF c, t

(* What fin writes ends the answer. *)
LEMMA FinFinishes ==
  ASSUME NEW w \in Seq(Tokens), NEW a \in Connections, NEW t \in Answers, NEW chunk \in BOOLEAN,
         NEW c \in Nat \ {0}, t.r = c, InOrder(w, c), Before(w, c), Awaits(w, t, a),
         t.framing = "none" => chunk,
         t.framing = "length" => t.left = (IF chunk THEN 1 ELSE 0)
  PROVE  LET v == FinWrites(w, a.response, c, chunk)
         IN v \in Seq(Tokens) /\ InOrder(v, c) /\ Finished(v, c)
<1>1. \A kind \in {"chunk", "last", "data"} : Token(c, kind, 0) \in Tokens
  BY DEF Token, Tokens
<1>2. t.framing \in {"none", "chunked", "length"} /\ "last" \in {"chunk", "last"}
      /\ "chunk" \in {"chunk", "last"}
  BY DEF Answers
<1>3. ASSUME NEW v \in Seq(Tokens), InOrder(v, c), Before(v, c), InChunks(v, c)
      PROVE  LET x == Append(v, Token(c, "last", 0))
             IN x \in Seq(Tokens) /\ InOrder(x, c) /\ Finished(x, c)
  <2>1. Append(v, Token(c, "last", 0)) \in Seq(Tokens)
    BY <1>1, AppendFacts
  <2> QED
    BY <1>2, <1>3, <2>1, ChunkAppended
<1>4. CASE t.framing = "none"
  <2> DEFINE v == Append(Append(w, Token(c, "head", Chunked)), Token(c, "chunk", 0))
  <2>1. Silent(w, c) /\ a.response = NewResponse
    BY <1>4 DEF Awaits
  <2>2. v \in Seq(Tokens) /\ InOrder(v, c) /\ Before(v, c) /\ InChunks(v, c)
    BY <2>1, FirstChunkAppended
  <2>3. FinWrites(w, a.response, c, chunk) = Append(v, Token(c, "last", 0))
    BY <2>1 DEF FinWrites
  <2> HIDE DEF v
  <2> QED
    BY <1>3, <2>2, <2>3
<1>5. CASE t.framing = "chunked"
  <2>1. InChunks(w, c) /\ a.response.headers_sent /\ a.response.chunked_encoding
    BY <1>5 DEF Awaits
  <2>2. a.response # NewResponse
    BY <2>1 DEF NewResponse
  <2>3. CASE chunk
    <3> DEFINE v == Append(w, Token(c, "chunk", 0))
    <3>1. v \in Seq(Tokens)
      BY <1>1, AppendFacts
    <3>2. InOrder(v, c) /\ Before(v, c) /\ InChunks(v, c)
      BY <1>2, <2>1, ChunkAppended
    <3>3. FinWrites(w, a.response, c, chunk) = Append(v, Token(c, "last", 0))
      BY <2>1, <2>2, <2>3 DEF FinWrites
    <3> HIDE DEF v
    <3> QED
      BY <1>3, <3>1, <3>2, <3>3
  <2>4. CASE ~chunk
    <3>1. FinWrites(w, a.response, c, chunk) = Append(w, Token(c, "last", 0))
      BY <2>1, <2>2, <2>4 DEF FinWrites
    <3> QED
      BY <1>3, <2>1, <3>1
  <2> QED
    BY <2>3, <2>4
<1>6. CASE t.framing = "length"
  <2>1. /\ a.response = [headers_sent |-> TRUE, chunked_encoding |-> FALSE]
        /\ (t.left = 1 /\ OneLeft(w, c)) \/ (t.left = 0 /\ Finished(w, c))
    BY <1>6 DEF Awaits
  <2>2. a.response # NewResponse /\ ~a.response.chunked_encoding
    BY <2>1 DEF NewResponse
  <2>3. CASE chunk
    <3>1. OneLeft(w, c)
      BY <1>6, <2>1, <2>3
    <3>2. FinWrites(w, a.response, c, chunk) = Append(w, Token(c, "data", 0))
      BY <2>2, <2>3 DEF FinWrites
    <3>3. Append(w, Token(c, "data", 0)) \in Seq(Tokens)
      BY <1>1, AppendFacts
    <3> QED
      BY <3>1, <3>2, <3>3, DataAppended
  <2>4. CASE ~chunk
    <3>1. Finished(w, c)
      BY <1>6, <2>1, <2>4
    <3>2. FinWrites(w, a.response, c, chunk) = w
      BY <2>2, <2>4 DEF FinWrites
    <3> QED
      BY <3>1, <3>2
  <2> QED
    BY <2>3, <2>4
<1> QED
  BY <1>2, <1>4, <1>5, <1>6

(* The program calls fin. *)
LEMMA FinCalled ==
  ASSUME Awkward \subseteq {"abort"}, Standing, NEW chunk \in BOOLEAN, prog_fin(chunk)
  PROVE  Standing'
<1> DEFINE c == Current
           t == todo[1]
           w == FinWrites(Out, s.response, c, chunk)
<1>1. /\ MayCall /\ Complete
      /\ (t.framing = "length" => t.left = (IF chunk THEN 1 ELSE 0))
      /\ (t.framing = "none" => chunk)
      /\ s' = fin(s, t.r, chunk, parser) /\ parser' = fin_parser(s, parser) /\ todo' = Tail(todo)
      /\ UNCHANGED <<mode, cl, input, buf, at, seen>>
  BY DEF prog_fin
<1>2. /\ Tail(todo) = <<>> /\ t \in Answers /\ t.r = c
      /\ c \in Nat \ {0} /\ c \in Nat /\ InOrder(Out, c) /\ Before(Out, c) /\ Awaits(Out, t, s)
      /\ s \in Connections /\ Out = Written(s) /\ Out \in Seq(Tokens)
      /\ s.conn # "closed" /\ (~s.bottled => s.wreq = <<>>)
  BY <1>1, CallFacts, FieldTypes DEF Standing
<1> HIDE DEF c, t
<1>3. w \in Seq(Tokens) /\ InOrder(w, c) /\ Finished(w, c)
  BY <1>1, <1>2, FinFinishes
<1>4. /\ s.response = NewResponse => chunk
      /\ s.response # NewResponse => s.response.headers_sent
      /\ ~s.response.chunked_encoding /\ ~chunk => ~s.bottled /\ s.wreq = <<>>
  <2>1. t.framing \in {"none", "chunked", "length"}
    BY <1>2 DEF Answers
  <2>2. CASE t.framing = "none"
    <3>1. s.response = NewResponse /\ chunk
      BY <1>1, <1>2, <2>2 DEF Awaits
    <3> QED
      BY <3>1
  <2>3. CASE t.framing = "chunked"
    <3>1. s.response = [headers_sent |-> TRUE, chunked_encoding |-> TRUE]
      BY <1>2, <2>3 DEF Awaits
    <3> QED
      BY <3>1 DEF NewResponse
  <2>4. CASE t.framing = "length"
    <3>1. /\ s.response = [headers_sent |-> TRUE, chunked_encoding |-> FALSE]
          /\ t.left = 0 => ~s.bottled
      BY <1>2, <2>4 DEF Awaits
    <3>2. ~chunk => t.left = 0
      BY <1>1, <2>4
    <3> QED
      BY <1>2, <3>1, <3>2 DEF NewResponse
  <2> QED
    BY <2>1, <2>2, <2>3, <2>4
<1>5. Sends(s, fin_body(s, c, chunk), w) /\ ~fin_body(s, c, chunk).bottled
  BY <1>2, <1>4, FinBodySends
<1> HIDE DEF w
<1>6. /\ s'.conn = (IF KeepAlive(s) THEN s.conn ELSE "shutting")
      /\ Sends([s EXCEPT !.conn = s'.conn], s', w) /\ ~s'.bottled
  BY <1>1, <1>2, <1>5, FinSends
<1>7. w # <<>> /\ w[Len(w)].r = c /\ Ends(w, Len(w))
  BY <1>3 DEF Finished
<1>8. todo' = <<>>
  BY <1>1, <1>2
<1> QED
  BY <1>1, <1>3, <1>6, <1>7, <1>8, AnswerEnds DEF c

(* The program answers with simpleJSON. *)
LEMMA SimpleJSONCalled ==
  ASSUME Awkward \subseteq {"abort"}, Standing, simpleJSON
  PROVE  Standing'
<1> DEFINE c == Current
           t == todo[1]
           a == writeHead(s, c, 1)
           b == fin_body(a, c, TRUE)
           v == Append(Out, Token(c, "head", 1))
           w == Append(v, Token(c, "data", 0))
<1>1. /\ MayCall /\ Complete /\ t.framing = "none"
      /\ s' = fin(writeHead(s, t.r, 1), t.r, TRUE, parser) /\ parser' = fin_parser(s, parser)
      /\ todo' = Tail(todo) /\ UNCHANGED <<mode, cl, input, buf, at, seen>>
  BY DEF simpleJSON
<1>2. /\ Tail(todo) = <<>> /\ t \in Answers /\ t.r = c
      /\ c \in Nat \ {0} /\ c \in Nat /\ InOrder(Out, c) /\ Before(Out, c) /\ Awaits(Out, t, s)
      /\ s \in Connections /\ Out = Written(s) /\ Out \in Seq(Tokens) /\ s.conn # "closed"
  BY <1>1, CallFacts, FieldTypes DEF Standing
<1> HIDE DEF c, t
<1>3. Silent(Out, c) /\ s.response = NewResponse /\ 1 \in {Chunked, 0, 1} /\ 1 # Chunked
  BY <1>1, <1>2 DEF Awaits, Chunked
<1>4. Token(c, "head", 1) \in Tokens /\ Token(c, "data", 0) \in Tokens
  BY <1>2 DEF Token, Tokens
<1>5. v \in Seq(Tokens) /\ InOrder(v, c) /\ Before(v, c) /\ OneLeft(v, c)
  <2>1. v \in Seq(Tokens)
    BY <1>2, <1>4, AppendFacts
  <2> QED
    BY <1>2, <1>3, <2>1, HeadAppended
<1> HIDE DEF v
<1>6. w \in Seq(Tokens) /\ InOrder(w, c) /\ Finished(w, c)
  <2>1. w \in Seq(Tokens)
    BY <1>4, <1>5, AppendFacts
  <2> QED
    BY <1>2, <1>5, <2>1, DataAppended
<1>7. /\ Sends(s, a, v)
      /\ a.response = [headers_sent |-> TRUE, chunked_encoding |-> FALSE]
  <2>1. ~s.response.headers_sent /\ s.response.chunked_encoding = TRUE
    BY <1>3 DEF NewResponse
  <2>2. s \in Connections /\ s.conn # "closed" /\ c \in Nat /\ 1 \in {Chunked, 0, 1}
    BY <1>2, <1>3
  <2>3. /\ Sends(s, a, Append(Written(s), Token(c, "head", 1)))
        /\ a.response = [headers_sent |-> TRUE,
                         chunked_encoding |-> s.response.chunked_encoding /\ 1 = Chunked]
    BY <2>1, <2>2, WriteHeadSends
  <2> QED
    BY <1>2, <1>3, <2>1, <2>3 DEF v
<1> HIDE DEF a
<1>8. /\ a \in Connections /\ a.conn = s.conn /\ Written(a) = v /\ a.connection = s.connection
      /\ a.alive = s.alive /\ a.upgrade = s.upgrade
      /\ a.refs = s.refs /\ a.closing = s.closing /\ a.onData = s.onData
      /\ Len(s.wire) <= Len(a.wire) /\ \A i \in 1 .. Len(s.wire) : a.wire[i] = s.wire[i]
  BY <1>7 DEF Sends
<1>9. Sends(a, b, w) /\ ~b.bottled
  <2>1. /\ a.response # NewResponse /\ a.response.headers_sent /\ ~a.response.chunked_encoding
        /\ TRUE \in BOOLEAN
    BY <1>7 DEF NewResponse
  <2>2. Sends(a, b, FinWrites(Written(a), a.response, c, TRUE)) /\ ~b.bottled
    BY <1>2, <1>8, <2>1, FinBodySends
  <2>3. FinWrites(Written(a), a.response, c, TRUE) = w
    BY <1>8, <2>1 DEF FinWrites
  <2> QED
    BY <2>2, <2>3
<1>10. KeepAlive(a) <=> KeepAlive(s)
  BY <1>8 DEF KeepAlive
<1>11. /\ s'.conn = (IF KeepAlive(s) THEN s.conn ELSE "shutting")
       /\ Sends([a EXCEPT !.conn = s'.conn], s', w) /\ ~s'.bottled
  <2> DEFINE chunk == TRUE
  <2>1. s' = fin(a, c, chunk, parser)
    BY <1>1, <1>2 DEF a
  <2>2. a.conn # "closed" /\ chunk \in BOOLEAN
    BY <1>2, <1>8
  <2>3. a \in Connections /\ c \in Nat /\ Sends(a, b, w) /\ b = fin_body(a, c, chunk)
    BY <1>2, <1>8, <1>9
  <2> HIDE DEF b, w, chunk
  <2>4. /\ s'.conn = (IF KeepAlive(a) THEN a.conn ELSE "shutting")
        /\ Sends([a EXCEPT !.conn = s'.conn], s', w) /\ s'.bottled = b.bottled
    BY <2>1, <2>2, <2>3, FinSends
  <2> QED
    BY <1>8, <1>9, <1>10, <2>4
<1>12. Sends([s EXCEPT !.conn = s'.conn], s', w)
  <2> DEFINE x == [s EXCEPT !.conn = s'.conn]
             y == [a EXCEPT !.conn = s'.conn]
  <2>1. /\ x.conn = s'.conn /\ x.alive = s.alive /\ x.connection = s.connection
        /\ x.upgrade = s.upgrade /\ x.wire = s.wire
        /\ x.refs = s.refs /\ x.closing = s.closing /\ x.onData = s.onData
    BY <1>2 DEF Connections
  <2>2. /\ y.conn = s'.conn /\ y.alive = a.alive /\ y.connection = a.connection
        /\ y.upgrade = a.upgrade /\ y.wire = a.wire
        /\ y.refs = a.refs /\ y.closing = a.closing /\ y.onData = a.onData
    BY <1>8 DEF Connections
  <2>3. Len(s.wire) \in Nat /\ Len(a.wire) \in Nat /\ Len(s'.wire) \in Nat
    <3>1. s' \in Connections
      BY <1>11 DEF Sends
    <3> QED
      BY <1>2, <1>8, <3>1, LenProperties DEF Connections
  <2>4. Sends(y, s', w)
    BY <1>11
  <2> HIDE DEF x, y, w
  <2>5. /\ s' \in Connections /\ Written(s') = w /\ s'.conn = y.conn /\ s'.alive = y.alive
        /\ s'.connection = y.connection /\ s'.upgrade = y.upgrade
        /\ s'.refs = y.refs /\ s'.closing = y.closing /\ s'.onData = y.onData
        /\ ~s'.bottled => s'.wreq = <<>>
        /\ Len(y.wire) <= Len(s'.wire) /\ \A i \in 1 .. Len(y.wire) : s'.wire[i] = y.wire[i]
    BY <2>4 DEF Sends
  <2>6. Len(x.wire) <= Len(s'.wire) /\ \A i \in 1 .. Len(x.wire) : s'.wire[i] = x.wire[i]
    BY <1>8, <2>1, <2>2, <2>3, <2>5
  <2>7. Sends(x, s', w)
    BY <1>8, <2>1, <2>2, <2>5, <2>6 DEF Sends
  <2> QED
    BY <2>7 DEF x
<1> HIDE DEF w
<1>13. w # <<>> /\ w[Len(w)].r = c /\ Ends(w, Len(w))
  BY <1>6 DEF Finished
<1>14. todo' = <<>>
  BY <1>1, <1>2
<1> QED
  BY <1>1, <1>6, <1>11, <1>12, <1>13, <1>14, AnswerEnds DEF c

-----------------------------------------------------------------------------
(* The program, on a connection that is closed. *)

(* What a call that writes leaves as it was. *)
Kept(c, d) ==
  /\ d \in Connections /\ d.conn = c.conn /\ d.alive = c.alive /\ d.connection = c.connection
  /\ d.refs = c.refs /\ d.closing = c.closing /\ d.onData = c.onData

(* The tokens are dropped, or stay in the bottle. *)
LEMMA ClientWriteKeeps ==
  ASSUME NEW c \in Connections, NEW t \in Tokens, NEW flush \in BOOLEAN
  PROVE  LET d == client_write(c, t, flush)
         IN Kept(c, d) /\ d.response = c.response
<1> DEFINE b == c.bottled /\ ~flush
           q == Append(c.wreq, t)
           x == IF b THEN q ELSE <<>>
           y == IF b \/ c.conn = "closed" THEN c.wire ELSE c.wire \o q
           d == client_write(c, t, flush)
<1>1. c.wire \in Seq(Tokens) /\ c.wreq \in Seq(Tokens) /\ b \in BOOLEAN /\ <<>> \in Seq(Tokens)
  BY DEF Connections
<1>2. q \in Seq(Tokens)
  BY <1>1, AppendFacts
<1>3. c.wire \o q \in Seq(Tokens)
  BY <1>1, <1>2, ConcatFacts
<1>4. x \in Seq(Tokens) /\ y \in Seq(Tokens)
  BY <1>1, <1>2, <1>3
<1>5. d = [c EXCEPT !.bottled = b, !.wreq = x, !.wire = y]
  BY DEF client_write
<1> HIDE DEF b, x, y, d
<1>6. Kept(c, d) /\ d.response = c.response
  BY <1>1, <1>4, <1>5 DEF Kept, Connections
<1> QED
  BY <1>6 DEF d

(* It is the same with a head, which is the first of its response. *)
LEMMA WriteHeadKeeps ==
  ASSUME NEW c \in Connections, ~c.response.headers_sent, NEW r \in Nat,
         NEW length \in {Chunked, 0, 1}
  PROVE  Kept(c, writeHead(c, r, length))
<1> DEFINE t == Token(r, "head", length)
           flush == ~c.bottled
           a == [headers_sent |-> TRUE,
                 chunked_encoding |-> c.response.chunked_encoding /\ length = Chunked]
           b == bottle(c)
           e == client_write(b, t, flush)
           d == writeHead(c, r, length)
<1>1. t \in Tokens /\ flush \in BOOLEAN
  BY DEF Token, Tokens
<1>2. b \in Connections /\ Kept(c, b) /\ b.response = c.response
  BY BottleFacts DEF Kept
<1>3. Kept(b, e) /\ e.response = b.response
  <2> HIDE DEF t, flush, b
  <2> QED
    BY <1>1, <1>2, ClientWriteKeeps
<1>4. a \in Responses
  BY DEF Connections, Responses
<1>5. d = [e EXCEPT !.response = a]
  <2>1. e.response = c.response /\ e \in Connections
    BY <1>2, <1>3 DEF Kept
  <2> QED
    BY <2>1 DEF writeHead, Connections
<1> HIDE DEF a, b, d, e
<1>6. Kept(e, d)
  BY <1>3, <1>4, <1>5 DEF Kept, Connections
<1> QED
  BY <1>2, <1>3, <1>6 DEF Kept, d

(* And with a chunk, which writes the head if that is still missing. *)
LEMMA WriteKeeps ==
  ASSUME NEW c \in Connections, NEW r \in Nat
  PROVE  Kept(c, write(c, r))
<1> DEFINE b == bottle(c)
           a == IF b.response.headers_sent THEN b ELSE writeHead(b, r, Chunked)
           t == Token(r, IF a.response.chunked_encoding THEN "chunk" ELSE "data", 0)
           flush == ~c.bottled
<1>1. b \in Connections /\ Kept(c, b)
  BY BottleFacts DEF Kept
<1>2. Kept(b, a)
  <2> HIDE DEF b
  <2>1. Kept(b, b)
    BY <1>1 DEF Kept
  <2>2. ~b.response.headers_sent => Kept(b, writeHead(b, r, Chunked))
    BY <1>1, WriteHeadKeeps
  <2> QED
    BY <2>1, <2>2
<1>3. write(c, r) = client_write(a, t, flush)
  BY DEF write
<1>4. t \in Tokens /\ flush \in BOOLEAN
  BY DEF Token, Tokens
<1> HIDE DEF a, b, t, flush
<1>5. a \in Connections
  BY <1>2 DEF Kept
<1>6. Kept(a, client_write(a, t, flush))
  BY <1>4, <1>5, ClientWriteKeeps
<1> QED
  BY <1>1, <1>2, <1>3, <1>6 DEF Kept

LEMMA FinBodyKeeps ==
  ASSUME NEW c \in Connections, NEW r \in Nat, NEW chunk \in BOOLEAN
  PROVE  Kept(c, fin_body(c, r, chunk))
<1> DEFINE b == bottle(c)
           e == write(b, r)
           last == Token(r, "last", 0)
           data == Token(r, "data", 0)
<1>1. last \in Tokens /\ data \in Tokens /\ TRUE \in BOOLEAN
  BY DEF Token, Tokens
<1>2. b \in Connections /\ Kept(c, b)
  BY BottleFacts DEF Kept
<1>3. /\ fin_body(c, r, chunk) \in
             {client_write(e, last, TRUE), client_write(c, data, TRUE),
              client_write(c, last, TRUE), c}
  BY DEF fin_body
<1> HIDE DEF b, e, last, data
<1>4. e \in Connections /\ Kept(b, e)
  BY <1>2, WriteKeeps DEF Kept, e
<1>5. Kept(e, client_write(e, last, TRUE))
  BY <1>1, <1>4, ClientWriteKeeps
<1>6. Kept(c, client_write(c, data, TRUE)) /\ Kept(c, client_write(c, last, TRUE))
  BY <1>1, ClientWriteKeeps
<1>7. Kept(c, client_write(e, last, TRUE))
  BY <1>2, <1>4, <1>5 DEF Kept
<1>8. Kept(c, c)
  BY DEF Kept
<1> QED
  BY <1>3, <1>6, <1>7, <1>8

(* fin gives the reference back, unless the connection was to be kept. *)
LEMMA GoneFin ==
  ASSUME Types, Asking, Gone, s.alive, s.conn = "closed", cl.gone,
         NEW c, Kept(s, c), NEW r \in Nat, NEW chunk \in BOOLEAN, s' = fin(c, r, chunk, parser),
         parser' = fin_parser(s, parser), todo' = <<>>, UNCHANGED <<mode, cl, input, buf, at, seen>>
  PROVE  WebInv'
<1> DEFINE d == fin_body(c, r, chunk)
<1>1. c \in Connections
  BY DEF Kept
<1>2. Kept(c, d)
  BY <1>1, FinBodyKeeps
<1> HIDE DEF d
<1>3. Kept(s, d) /\ (KeepAlive(c) <=> KeepAlive(s))
  BY <1>2 DEF Kept, KeepAlive
<1>4. /\ d \in Connections /\ d.conn = "closed" /\ d.alive /\ d.refs = s.refs
      /\ d.onData = s.onData
  BY <1>3 DEF Kept
<1>5. CASE KeepAlive(s)
  <2>1. s' = d /\ parser' = [state |-> "start", left |-> 0]
    BY <1>3, <1>5 DEF fin, d, fin_parser, lhttp_parser_reinitialize, lhttp_parser_new
  <2>2. parser' \in Parsers /\ ~finish_raises(parser')
    BY <2>1 DEF Parsers, finish_raises
  <2>3. Types' /\ Asking'
    BY <1>4, <2>1, <2>2 DEF Types, Asking
  <2>4. Gone'
    BY <2>2, <1>4 DEF Gone, finish_raises
  <2> QED
    BY <1>4, <2>1, <2>3, <2>4 DEF WebInv
<1>6. CASE ~KeepAlive(s)
  <2>1. s' = tcp_after_close(d, parser) /\ parser' = parser
    BY <1>3, <1>4, <1>6 DEF fin, d, fin_parser, client_close
  <2> QED
    BY <1>4, <2>1, AfterClose
<1> QED
  BY <1>5, <1>6

(* The client left, and the program goes on with the answer it was at. *)
LEMMA GoneCalls ==
  ASSUME Awkward \subseteq {"abort"}, WebInv, s.alive, s.conn = "closed", Calls
  PROVE  WebInv'
<1> DEFINE t == todo[1]
<1>1. MayCall /\ UNCHANGED <<mode, cl, input, buf, at, seen>>
  BY DEF Calls, prog_bottle, prog_writeHead, prog_write, prog_fin, simpleJSON
<1>2. Types /\ Asking /\ Gone /\ s \in Connections /\ todo \in Seq(Answers)
  BY DEF WebInv, Types
<1>3. /\ todo # <<>> /\ Len(todo) = 1 /\ t \in Answers /\ Tail(todo) = <<>> /\ cl.gone
      /\ t.r \in Nat /\ t.framing \in {"none", "chunked", "length"}
  <2>1. todo # <<>> /\ cl.gone /\ Len(todo) = 1
    BY <1>1, <1>2 DEF MayCall, Gone
  <2>2. t \in Answers /\ Tail(todo) \in Seq(Answers) /\ Len(Tail(todo)) = 0
    BY <1>2, <2>1, TailFacts DEF Drops
  <2>3. Tail(todo) = <<>>
    BY <2>2, EmptySeq
  <2> QED
    BY <2>1, <2>2, <2>3 DEF Answers
<1>4. t.framing = "none" => ~s.response.headers_sent
  BY <1>2, <1>3 DEF Gone
<1> HIDE DEF t
<1>5. ASSUME Kept(s, s'), parser' = parser, todo' \in Seq(Answers),
             todo' # <<>> => Len(todo') = 1,
             todo' # <<>> => todo'[1].framing # "none" \/ (s'.response = s.response /\ todo' = todo)
      PROVE  WebInv'
  <2>1. s' \in Connections /\ s'.conn = "closed" /\ s'.alive /\ s'.onData = s.onData
    BY <1>5 DEF Kept
  <2>2. Types' /\ Asking'
    BY <1>1, <1>2, <1>5, <2>1 DEF Types, Asking
  <2>3. todo' # <<>> /\ todo'[1].framing = "none" => ~s'.response.headers_sent
    BY <1>4, <1>5 DEF t
  <2>4. Gone'
    BY <1>1, <1>2, <1>3, <1>5, <2>3 DEF Gone, finish_raises
  <2> QED
    BY <2>1, <2>2, <2>4 DEF WebInv
<1>6. CASE prog_bottle
  <2>1. s' = bottle(s) /\ UNCHANGED <<parser, todo>>
    BY <1>6 DEF prog_bottle
  <2>2. Kept(s, s') /\ s'.response = s.response
    BY <1>2, <2>1, BottleFacts DEF Kept
  <2>3. parser' = parser /\ todo' = todo /\ todo' \in Seq(Answers) /\ Len(todo') = 1
    BY <1>2, <1>3, <2>1
  <2> QED
    BY <1>5, <2>2, <2>3
<1>7. ASSUME NEW length \in {Chunked, 0, 1}, prog_writeHead(length) PROVE WebInv'
  <2> DEFINE u == [t EXCEPT !.framing = IF length = Chunked THEN "chunked" ELSE "length",
                            !.left = length]
  <2>1. /\ t.framing = "none" /\ s' = writeHead(s, t.r, length) /\ parser' = parser
        /\ todo' = (IF s.upgrade THEN Tail(todo) ELSE [todo EXCEPT ![1] = u])
    BY <1>2, <1>3, <1>7 DEF prog_writeHead, t
  <2>2. u \in Answers /\ u.framing # "none"
    <3>1. u \in Answers /\ u.framing = (IF length = Chunked THEN "chunked" ELSE "length")
      BY <1>3, AnswerHeaded
    <3> QED
      BY <3>1
  <2>3. Kept(s, s')
    BY <1>2, <1>3, <1>4, <2>1, WriteHeadKeeps
  <2> HIDE DEF u
  <2>4. /\ [todo EXCEPT ![1] = u] \in Seq(Answers) /\ Len([todo EXCEPT ![1] = u]) = 1
        /\ [todo EXCEPT ![1] = u][1] = u
    BY <1>2, <1>3, <2>2, AnswerChanged
  <2>5. /\ todo' \in Seq(Answers)
        /\ todo' # <<>> => Len(todo') = 1 /\ todo'[1].framing # "none"
    <3>1. CASE s.upgrade
      <4>1. todo' = <<>>
        BY <1>3, <2>1, <3>1
      <4> QED
        BY <4>1
    <3>2. CASE ~s.upgrade
      BY <2>1, <2>2, <2>4, <3>2
    <3> QED
      BY <3>1, <3>2
  <2> QED
    BY <1>5, <2>1, <2>3, <2>5
<1>8. CASE prog_write
  <2> DEFINE u == [t EXCEPT !.framing = IF @ = "none" THEN "chunked" ELSE @, !.wrote = @ + 1,
                            !.left = IF t.framing = "length" THEN @ - 1 ELSE @]
  <2>1. s' = write(s, t.r) /\ parser' = parser /\ todo' = [todo EXCEPT ![1] = u]
    BY <1>2, <1>3, <1>8 DEF prog_write, t
  <2>2. u \in Answers /\ u.framing # "none"
    <3>1. u \in Answers /\ u.framing = (IF t.framing = "none" THEN "chunked" ELSE t.framing)
      BY <1>3, AnswerWritten
    <3> QED
      BY <3>1
  <2>3. Kept(s, s')
    BY <1>2, <1>3, <2>1, WriteKeeps
  <2> HIDE DEF u
  <2>4. todo' \in Seq(Answers) /\ Len(todo') = 1 /\ todo'[1] = u
    BY <1>2, <1>3, <2>1, <2>2, AnswerChanged
  <2>5. parser' = parser /\ todo'[1].framing # "none"
    BY <2>1, <2>2, <2>4
  <2> QED
    BY <1>5, <2>3, <2>4, <2>5
<1>9. ASSUME NEW chunk \in BOOLEAN, prog_fin(chunk) PROVE WebInv'
  <2>1. /\ s' = fin(s, t.r, chunk, parser) /\ parser' = fin_parser(s, parser) /\ todo' = <<>>
    BY <1>3, <1>9 DEF prog_fin, t
  <2>2. Kept(s, s)
    BY <1>2 DEF Kept
  <2> QED
    BY <1>1, <1>2, <1>3, <2>1, <2>2, GoneFin
<1>10. CASE simpleJSON
  <2> DEFINE c == writeHead(s, t.r, 1)
  <2>1. /\ s' = fin(c, t.r, TRUE, parser) /\ parser' = fin_parser(s, parser) /\ todo' = <<>>
        /\ t.framing = "none"
    BY <1>3, <1>10 DEF simpleJSON, t
  <2>2. Kept(s, c)
    <3>1. 1 \in {Chunked, 0, 1} /\ ~s.response.headers_sent
      BY <1>4, <2>1
    <3> QED
      BY <1>2, <1>3, <3>1, WriteHeadKeeps
  <2>3. TRUE \in BOOLEAN
    OBVIOUS
  <2> HIDE DEF c
  <2> QED
    BY <1>1, <1>2, <1>3, <2>1, <2>2, <2>3, GoneFin
<1> QED
  BY <1>6, <1>7, <1>8, <1>9, <1>10 DEF Calls

-----------------------------------------------------------------------------
(* The invariant. *)

(* The state of a connection that is not closed, when the worker is alive. *)
LEMMA StandingFacts ==
  /\ Standing' => WebInv'
  /\ WebInv /\ s.alive /\ s.conn # "closed" => Standing
BY DEF Standing, WebInv

(* A worker that is down does nothing, and on a connection that is closed  *)
(* nothing is read, parsed or sent.                                        *)
LEMMA NextStands ==
  ASSUME WebInv, Server \/ Calls \/ (\E q \in Asked : send(q)) \/ send_raw
  PROVE  s.alive /\ (s.conn # "closed" => Standing) /\ (s.conn = "closed" => on_close \/ Calls)
<1>1. CASE on_read \/ on_eof
  BY <1>1, StandingFacts DEF on_read, on_eof
<1>2. CASE lhttp_parser_execute \/ callback_returns
  <2>1. s.alive /\ at # "loop"
    BY <1>2 DEF lhttp_parser_execute, callback_returns
  <2>2. s.conn # "closed"
    BY <2>1 DEF WebInv, Gone
  <2> QED
    BY <2>1, <2>2, StandingFacts
<1>3. CASE after_shutdown \/ on_close
  BY <1>3, StandingFacts DEF after_shutdown, on_close
<1>4. CASE Calls
  <2>1. MayCall
    BY <1>4 DEF Calls, prog_bottle, prog_writeHead, prog_write, prog_fin, simpleJSON
  <2> QED
    BY <1>4, <2>1, StandingFacts DEF MayCall
<1>5. CASE (\E q \in Asked : send(q)) \/ send_raw
  BY <1>5, StandingFacts DEF send, send_raw
<1> QED
  BY <1>1, <1>2, <1>3, <1>4, <1>5 DEF Server

(* The invariant holds of the connection that onconnection was given. *)
LEMMA WebInit ==
  ASSUME Init
  PROVE  WebInv
<1>1. /\ mode \in Modes /\ input = <<>> /\ buf = <<>> /\ at = "loop" /\ todo = <<>> /\ seen = 0
      /\ cl = [reqs |-> <<>>, n |-> 0, raw |-> 0, gone |-> FALSE, cut |-> FALSE]
      /\ parser = [state |-> "start", left |-> 0]
  BY DEF Init, lhttp_parser_new
<1>0. PICK onData \in BOOLEAN :
        s = [conn |-> "open", bottled |-> FALSE, wreq |-> <<>>, wire |-> <<>>, alive |-> TRUE,
             connection |-> "none", upgrade |-> FALSE,
             response |-> [headers_sent |-> FALSE, chunked_encoding |-> TRUE],
             refs |-> 1, closing |-> FALSE, onData |-> onData]
  BY DEF Init, NewResponse
<1>2. Types
  <2>1. mode \in {"sequential", "pipelined"}
    BY <1>1, WebAssumption
  <2>2. cl \in Clients /\ parser \in Parsers
    BY <1>1 DEF Clients, Parsers
  <2>3. s \in Connections
    BY <1>0 DEF Connections, Responses
  <2>4. input \in Seq(Elements) /\ buf \in Seq(Elements) /\ todo \in Seq(Answers) /\ seen \in Nat
    BY <1>1
  <2> QED
    BY <1>1, <2>1, <2>2, <2>3, <2>4 DEF Types
<1>3. Rest = <<>> /\ Out = <<>> /\ Len(Rest) = 0 /\ Len(Out) = 0
  <2>1. Rest = <<>> \o <<>>
    BY <1>1 DEF Rest
  <2>2. Out = <<>> \o <<>>
    BY <1>0 DEF Out
  <2> QED
    BY <2>1, <2>2
<1>4. Current = 0 /\ Len(cl.reqs) = 0 /\ Resumed = parser
  <2>1. Current = 0
    BY <1>1, <1>3 DEF Current
  <2>2. Len(cl.reqs) = 0
    BY <1>1
  <2> QED
    BY <1>1, <2>1, <2>2, ResumedFacts
<1>5. Asking
  BY <1>1, <1>4 DEF Asking
<1>6. Script
  BY <1>3 DEF Script, Reads
<1>7. Position
  <2>1. Meets(Resumed, s.upgrade, Rest, Current, Len(cl.reqs), cl.cut)
    BY <1>0, <1>1, <1>3, <1>4 DEF Meets
  <2>2. cl.n = seen + Len(buf) + Len(input)
    BY <1>1
  <2> QED
    BY <1>0, <1>1, <2>1, <2>2 DEF Position
<1>8. Turn
  BY <1>0, <1>1, <1>4 DEF Turn
<1>9. Recognised
  BY <1>0, <1>1, <1>4 DEF Recognised
<1>10. Shut
  BY <1>0 DEF Shut
<1>11. Framing
  BY <1>0, <1>1, <1>3, <1>4 DEF Framing, InOrder
<1> QED
  BY <1>0, <1>2, <1>5, <1>6, <1>7, <1>8, <1>9, <1>10, <1>11 DEF WebInv, Live

(* Every step preserves it: one case for each callback of libuv and of the *)
(* parser, each call of the program and each thing the client does.        *)
LEMMA WebStep ==
  ASSUME Awkward \subseteq {"abort"}, WebInv, [Next]_vars
  PROVE  WebInv'
<1>1. CASE UNCHANGED vars
  <2>1. /\ UNCHANGED <<mode, cl, input, buf, at, parser, s, todo, seen>>
    BY <1>1 DEF vars
  <2>2. Types' = Types /\ Asking' = Asking
    BY <2>1 DEF Types, Asking
  <2>3. Rest' = Rest /\ Out' = Out /\ Resumed' = Resumed
    BY <2>1 DEF Rest, Out, Resumed
  <2>4. Current' = Current
    BY <2>1, <2>3 DEF Current
  <2>5. Script' = Script /\ Recognised' = Recognised /\ Shut' = Shut
    BY <2>1, <2>3, <2>4 DEF Script, Recognised, KeepAlive, Shut
  <2>6. Position' = Position
    BY <2>1, <2>3, <2>4 DEF Position
  <2>7. Turn' = Turn
    BY <2>1, <2>3, <2>4 DEF Turn, Settled
  <2>8. Framing' = Framing
    BY <2>1, <2>3, <2>4 DEF Framing, Answered
  <2>9. Gone' = Gone /\ WorkerSurvives' = WorkerSurvives
    BY <2>1 DEF Gone, WorkerSurvives, UrlRefused, AtUrl, UrlPieces
  <2>10. WellFramed' = WellFramed
    BY <2>1 DEF WellFramed
  <2> QED
    BY <2>1, <2>2, <2>5, <2>6, <2>7, <2>8, <2>9, <2>10 DEF WebInv, Live
<1>2. CASE leave
  BY <1>2, Left
<1>3. CASE Server
  <2>1. ~Settled
    BY <1>3 DEF Server
  <2>2. CASE on_close
    BY <2>2, Closed
  <2>3. CASE ~on_close /\ s.conn # "closed"
    <3>1. Standing
      BY <1>3, <2>3, NextStands
    <3>2. Standing' \/ WebInv'
      BY <1>3, <2>1, <2>3, <3>1, HasRead, Executed, Returned, EndOfFile, ShutDown DEF Server
    <3> QED
      BY <3>2, StandingFacts
  <2>4. CASE ~on_close /\ s.conn = "closed"
    <3>1. s.alive /\ Calls
      BY <1>3, <2>4, NextStands
    <3> QED
      BY <2>4, <3>1, GoneCalls
  <2> QED
    BY <2>2, <2>3, <2>4
<1>4. CASE Calls
  <2>1. s.alive /\ (s.conn # "closed" => Standing)
    BY <1>4, NextStands
  <2>2. CASE s.conn = "closed"
    BY <1>4, <2>1, <2>2, GoneCalls
  <2>3. CASE s.conn # "closed"
    <3>1. Standing'
      BY <1>4, <2>1, <2>3, BottleCalled, HeadCalled, WriteCalled, FinCalled, SimpleJSONCalled
      DEF Calls
    <3> QED
      BY <3>1, StandingFacts
  <2> QED
    BY <2>2, <2>3
<1>5. CASE (\E q \in Asked : send(q)) \/ send_raw
  <2>1. Standing
    <3>1. s.conn = "open"
      BY <1>5 DEF send, send_raw
    <3> QED
      BY <1>5, <3>1, NextStands
  <2>2. Standing'
    BY <1>5, <2>1, Sent, RawSent
  <2> QED
    BY <2>2, StandingFacts
<1> QED
  BY <1>1, <1>2, <1>3, <1>4, <1>5 DEF Next

(* The invariant of a connection. *)
LEMMA WebInvariant ==
  ASSUME Awkward \subseteq {"abort"}
  PROVE  Spec => []WebInv
<1>1. Init => WebInv
  BY WebInit
<1>2. WebInv /\ [Next]_vars => WebInv'
  BY WebStep
<1> QED
  BY <1>1, <1>2, PTL DEF Spec

(* What writeHead, write, fin and simpleJSON put on the wire and into the  *)
(* bottle is one whole response after the other, each in the framing its   *)
(* head announced, for any number of requests, bodies and writes: no       *)
(* answer is mixed with another one through the upvalues they share.       *)
THEOREM WebWellFramed ==
  ASSUME Awkward \subseteq {"abort"}
  PROVE  Spec => []WellFramed
<1>1. WebInv => WellFramed
  <2> SUFFICES ASSUME WebInv PROVE WellFramed
    OBVIOUS
  <2>1. CASE s.conn = "closed"
    BY <2>1 DEF WellFramed
  <2>2. CASE s.alive /\ s.conn # "closed"
    BY <2>2, FramingFacts DEF WebInv, Live
  <2>3. CASE ~s.alive
    BY <2>3 DEF WebInv
  <2> QED
    BY <2>1, <2>2, <2>3
<1> QED
  BY <1>1, WebInvariant, PTL

(* fin flushes the bottle: a program that has finished what it was given   *)
(* has nothing left in client.wreq, and when the parser is back at the     *)
(* start with nothing to read, every request has its whole answer.         *)
THEOREM WebNothingLeftBottled ==
  ASSUME Awkward \subseteq {"abort"}
  PROVE  Spec => []NothingLeftBottled
<1>1. WebInv => NothingLeftBottled
  <2> SUFFICES ASSUME WebInv, todo = <<>>, s.alive, s.conn = "open"
               PROVE  /\ s.wreq = <<>>
                      /\ at = "loop" /\ parser.state = "start" /\ input = <<>> =>
                           \A r \in 1 .. Len(cl.reqs) : cl.cut \/ Answered(r)
    BY DEF NothingLeftBottled
  <2>1. Types /\ Position /\ Framing
    BY DEF WebInv, Live
  <2>2. s.wreq = <<>> /\ \A r \in 1 .. Current : Answered(r)
    BY <2>1 DEF Framing
  <2>3. ASSUME at = "loop", parser.state = "start", input = <<>>, ~cl.cut
        PROVE  Current = Len(cl.reqs)
    <3>1. Rest = <<>>
      BY <2>1, <2>3, RestFacts DEF Position
    <3>2. Resumed.state = "start"
      BY <2>3, ResumedFacts
    <3>3. s.upgrade \in BOOLEAN
      BY <2>1, FieldTypes
    <3>4. Meets(Resumed, s.upgrade, Rest, Current, Len(cl.reqs), cl.cut)
      BY <2>1 DEF Position
    <3> QED
      BY <2>3, <3>1, <3>2, <3>3, <3>4 DEF Meets
  <2> QED
    BY <2>2, <2>3
<1> QED
  BY <1>1, WebInvariant, PTL

(* The parser that fin reinitializes in the middle of a callback, and the  *)
(* read handler that passes it over once the connection is upgraded,       *)
(* neither stop nor lose their place: what the client sent has reached     *)
(* the program or is still to be read.                                     *)
THEOREM WebNothingIsSkipped ==
  ASSUME Awkward \subseteq {"abort"}
  PROVE  Spec => []NothingIsSkipped
<1>1. WebInv => NothingIsSkipped
  <2> SUFFICES ASSUME WebInv, s.alive, s.conn = "open", ~cl.cut
               PROVE  cl.n = seen + Len(buf) + Len(input)
    BY DEF NothingIsSkipped
  <2>1. Position
    BY DEF WebInv, Live
  <2> QED
    BY <2>1 DEF Position
<1> QED
  BY <1>1, WebInvariant, PTL

(* In three cases the worker goes down, and in no other: its client has    *)
(* left in the middle of a request when parser:finish is called, parseUrl  *)
(* has refused what onUrl was given, or the client has left before it was  *)
(* answered, and fin closes the handle behind uv_close.  No call raises    *)
(* "headers already sent", the reference of a handle whose client is there *)
(* is given back once, and parser:finish is called between two requests.   *)
THEOREM WebWorkerSurvives ==
  ASSUME Awkward \subseteq {"abort"}
  PROVE  Spec => []WorkerSurvives
<1>1. WebInv => WorkerSurvives
  BY DEF WebInv, WorkerSurvives
<1> QED
  BY <1>1, WebInvariant, PTL
=============================================================================
