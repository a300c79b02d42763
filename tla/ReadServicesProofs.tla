--------------------------- MODULE ReadServicesProofs ---------------------------
(***************************************************************************)
(* Safety of the two services that write nothing.                          *)
(*                                                                         *)
(* LaunchStatus, for any number of clients and servers, any number of      *)
(* attempts and a chain of any height, with a provider that may fail every *)
(* call: an answer fits the chain, names the pool of the launch and is not *)
(* taken back by its server while the chain only grows.  What a server     *)
(* shares between its calls, a block number that it keeps and a receipt on *)
(* its way, is never behind what it has already answered.                  *)
(*                                                                         *)
(* PricingCache, for any number of requests, chains, tokens and assets,    *)
(* and any TTL and timeout: prices are young, and of what was asked for.   *)
(***************************************************************************)
EXTENDS LaunchStatus, PricingCache, TLAPS

USE DEF chain

-----------------------------------------------------------------------------
(* The invariant *)

PoolIds ==
    [fee : {"none", "decoded", "dynamic"}, hooks : {"none", "poolOrHook", "initializer", "HOOK"}]

Told == [status : Statuses \union Errors \union {NoAnswer}, confirmations : Int, pool : PoolIds]

Reading == {"create", "sdk", "hook"}

Sources == Servers \union {NoAnswer}

Calls ==
    [pc : {"idle", "receipt", "lookup", "head"} \union Reading, tries : Nat, mined : Nat,
     depth : Int, server : Sources, asked : BOOLEAN, answer : Told, from : Sources,
     own : BOOLEAN]

TypeOK ==
    /\ place \in {"nowhere", "pool", "mined"}
    /\ kind \in Kinds
    /\ block \in Nat /\ head \in Nat
    /\ reorged \in BOOLEAN
    /\ kept \in [Servers -> Nat \union {Nothing}]
    /\ wanted \in [Servers -> Nat \union {Nothing}]
    /\ call \in [Clients -> Calls]

\* What a server shares between its calls fits the chain.
ServerOk(s) ==
    /\ kept[s] <= head /\ wanted[s] <= head
    /\ ~reorged /\ wanted[s] # Nothing /\ wanted[s] # Missing =>
         place = "mined" /\ wanted[s] = block

\* Server s has seen the receipt and a block that deep: what it shares cannot
\* take that back.
Reached(s, depth) ==
    /\ s \in Servers
    /\ ~reorged => /\ place = "mined" /\ depth <= head - block + 1
                   /\ wanted[s] # Missing
                   /\ kept[s] # Nothing => depth <= kept[s] - block + 1

\* An answer fits the chain as it is now.
AnswerOk(a) ==
    /\ a.answer.status \in Final =>
         /\ a.own => a.answer.confirmations >= 1
         /\ Reached(a.from, a.answer.confirmations)
         /\ ~reorged => (a.answer.status = "confirmed" <=> kind \in Launches)
    /\ a.answer.status = "confirmed" /\ kind # "odd_dynamic" => a.answer.pool = PoolOf(kind)

\* An answer to this call may be compared with the one before.
Compares(a) == a.answer.status \in Final /\ (a.asked \/ a.server = a.from)

\* What a call has read so far fits the chain, and is no less than what its
\* client was told before.
CallOk(a) ==
    /\ a.pc # "idle" => a.server \in Servers
    /\ a.pc = "lookup" /\ ~reorged => ~Compares(a)
    /\ a.pc = "head" =>
         /\ a.mined <= head
         /\ ~reorged => /\ place = "mined" /\ a.mined = block
                        /\ wanted[a.server] # Missing
    /\ a.pc \in Reading =>
         /\ a.asked => a.depth >= 1
         /\ kind \notin {"reverted", "eventless"}
         /\ Reached(a.server, a.depth)
         /\ ~reorged /\ Compares(a) => a.answer.confirmations <= a.depth
    /\ a.pc = "sdk" => kind = "odd_dynamic"
    /\ a.pc = "hook" => kind \in {"decay", "plain"}
    /\ AnswerOk(a)

CallInv == \A c \in Clients, a \in Calls : a = call[c] => CallOk(a)

IInv ==
    /\ TypeOK
    /\ block <= head /\ (place = "mined" => block >= 1)
    /\ \A s \in Servers : ServerOk(s)
    /\ CallInv

-----------------------------------------------------------------------------
(* The steps of a call *)

\* From call a to call d nothing that the client was told is taken back.
Forward(a, d) ==
    /\ ~reorged /\ a.answer.status \in Final
    /\ d.from = a.from \/ d.own
    => /\ d.answer.status \notin {"pending", "not_found"}
       /\ d.answer.status \in Final =>
            /\ d.answer.status = a.answer.status
            /\ d.answer.confirmations >= a.answer.confirmations

Moves(c, a) ==
    \E d \in Calls : /\ call' = [call EXCEPT ![c] = d]
                     /\ CallOk(d)' /\ Forward(a, d)

\* What servers share is asked for, used up and out of date.
SharedMoves ==
    /\ kept' \in [Servers -> Nat \union {Nothing}]
    /\ wanted' \in [Servers -> Nat \union {Nothing}]
    /\ \A s \in Servers :
         /\ kept'[s] \in {kept[s], Nothing, head}
         /\ wanted'[s] \in {wanted[s], Nothing, Seen(s)}

LEMMA SharedKeepsServers ==
    ASSUME IInv, SharedMoves, UNCHANGED chain, NEW s \in Servers
    PROVE  ServerOk(s)'
<1>1. /\ ServerOk(s) /\ block <= head /\ block \in Nat /\ head \in Nat
      /\ kept'[s] \in {kept[s], Nothing, head}
      /\ wanted'[s] \in {wanted[s], Nothing, Seen(s)}
  BY DEF IInv, TypeOK, SharedMoves
<1>2. Seen(s) \in {wanted[s], Missing} \/ (place = "mined" /\ Seen(s) = block)
  BY DEF Seen
<1> QED
  BY <1>1, <1>2 DEF ServerOk, Nothing, Missing

LEMMA SharedKeepsReached ==
    ASSUME IInv, SharedMoves, UNCHANGED chain, NEW s, NEW depth \in Int, Reached(s, depth)
    PROVE  Reached(s, depth)'
<1>1. s \in Servers
  BY DEF Reached
<1>2. /\ block \in Nat /\ head \in Nat /\ (place = "mined" => block >= 1)
      /\ kept'[s] \in {kept[s], Nothing, head}
      /\ wanted'[s] \in {wanted[s], Nothing, Seen(s)}
  BY <1>1 DEF IInv, TypeOK, SharedMoves
<1>3. place = "mined" /\ wanted[s] # Missing => Seen(s) # Missing
  BY <1>2 DEF Seen, Missing
<1>4. Nothing # Missing
  BY DEF Nothing, Missing
<1> QED
  BY <1>1, <1>2, <1>3, <1>4 DEF Reached

LEMMA SharedKeepsAnswer ==
    ASSUME IInv, SharedMoves, UNCHANGED chain, NEW a \in Calls, AnswerOk(a)
    PROVE  AnswerOk(a)'
<1>1. a.answer.confirmations \in Int
  BY DEF Calls, Told
<1>2. a.answer.status \in Final => Reached(a.from, a.answer.confirmations)'
  BY <1>1, SharedKeepsReached DEF AnswerOk
<1> QED
  BY <1>2 DEF AnswerOk

LEMMA SharedKeepsCall ==
    ASSUME IInv, SharedMoves, UNCHANGED chain, NEW a \in Calls, CallOk(a)
    PROVE  CallOk(a)'
<1>1. AnswerOk(a)'
  BY SharedKeepsAnswer DEF CallOk
<1>2. a.pc \in Reading => Reached(a.server, a.depth)'
  <2>1. a.depth \in Int
    BY DEF Calls
  <2> QED
    BY <2>1, SharedKeepsReached DEF CallOk
<1>3. a.pc = "head" /\ ~reorged => wanted'[a.server] # Missing
  <2> SUFFICES ASSUME a.pc = "head", ~reorged PROVE wanted'[a.server] # Missing
    OBVIOUS
  <2>1. /\ a.server \in Servers /\ place = "mined" /\ block >= 1 /\ block \in Nat
        /\ wanted[a.server] # Missing
    BY DEF CallOk, IInv, TypeOK
  <2>2. wanted'[a.server] \in {wanted[a.server], Nothing, Seen(a.server)}
    BY <2>1 DEF SharedMoves
  <2>3. Seen(a.server) # Missing /\ Nothing # Missing
    BY <2>1 DEF Seen, Nothing, Missing
  <2> QED
    BY <2>1, <2>2, <2>3
<1> QED
  BY <1>1, <1>2, <1>3 DEF CallOk, Compares

LEMMA UnchangedIsShared == IInv /\ UNCHANGED shared => SharedMoves
BY DEF IInv, TypeOK, shared, SharedMoves

LEMMA PlainAnswers ==
    ASSUME NEW status \in Statuses \union Errors
    PROVE  Plain(status) \in Told /\ Plain(status).status = status
BY DEF Plain, Told, NoPool, PoolIds

\* A client is answered.
LEMMA AnswerMoves ==
    ASSUME TypeOK, NEW c \in Clients, NEW a \in Calls, a = call[c], NEW s \in Told,
           NEW own \in BOOLEAN, Answer(c, s, own),
           AnswerOk(Answered(s, a.server, own))', Forward(a, Answered(s, a.server, own))
    PROVE  Moves(c, a)
<1> DEFINE d == Answered(s, a.server, own)
<1>1. d \in Calls /\ d.pc = "idle"
  BY DEF Calls, Answered, Sources
<1>2. call' = [call EXCEPT ![c] = d]
  BY DEF Answer
<1>3. CallOk(d)'
  BY <1>1 DEF CallOk, Reading
<1> QED
  BY <1>1, <1>2, <1>3 DEF Moves

\* A launch that is not mined.
LEMMA PlainMoves ==
    ASSUME TypeOK, NEW c \in Clients, NEW a \in Calls, a = call[c],
           NEW status \in {"pending", "not_found"}, Reply(c, Plain(status)),
           reorged \/ ~Compares(a)
    PROVE  Moves(c, a)
<1> DEFINE d == Answered(Plain(status), a.server, a.asked)
<1>1. Plain(status) \in Told /\ Plain(status).status = status
  BY PlainAnswers DEF Statuses
<1>2. /\ d.answer.status = status /\ d.from = a.server /\ d.own = a.asked
      /\ a.asked \in BOOLEAN
  BY <1>1 DEF Answered, Calls
<1>3. AnswerOk(d)'
  BY <1>2 DEF AnswerOk, Final
<1>4. Forward(a, d)
  BY <1>2 DEF Forward, Compares
<1> QED
  BY <1>1, <1>2, <1>3, <1>4, AnswerMoves DEF Reply

\* An error.
LEMMA RefuseMoves ==
    ASSUME NEW c \in Clients, NEW a \in Calls, a = call[c], NEW error \in Errors,
           Refuse(c, error)
    PROVE  Moves(c, a)
<1> DEFINE d == Answered(Plain(error), NoAnswer, FALSE)
<1>1. Plain(error) \in Told /\ Plain(error).status = error
  BY PlainAnswers
<1>2. d \in Calls /\ d.pc = "idle" /\ d.answer.status = error
  BY <1>1 DEF Answered, Calls, Sources
<1>3. call' = [call EXCEPT ![c] = d]
  BY DEF Refuse
<1>4. CallOk(d)' /\ Forward(a, d)
  BY <1>2 DEF CallOk, AnswerOk, Forward, Final, Reading, Errors
<1> QED
  BY <1>2, <1>3, <1>4 DEF Moves

\* A call goes on with the answer it had.
LEMMA OnwardMoves ==
    ASSUME NEW c \in Clients, NEW a \in Calls, NEW d \in Calls,
           call' = [call EXCEPT ![c] = d], CallOk(d)',
           d.answer = a.answer
    PROVE  Moves(c, a)
<1>1. a.answer.confirmations >= a.answer.confirmations
  BY DEF Calls, Told
<1>2. Forward(a, d)
  BY <1>1 DEF Forward, Final
<1> QED
  BY <1>2 DEF Moves

LEMMA GotoMoves ==
    ASSUME TypeOK, NEW c \in Clients, NEW a \in Calls, a = call[c], CallOk(a)',
           NEW where \in {"sdk", "hook"}, Goto(c, where), a.pc \in Reading,
           where = "sdk" => kind = "odd_dynamic", where = "hook" => kind \in {"decay", "plain"},
           UNCHANGED chain
    PROVE  Moves(c, a)
<1> DEFINE d == [a EXCEPT !.pc = where, !.tries = 0]
<1>1. /\ d \in Calls /\ d.pc = where /\ d.answer = a.answer /\ d.depth = a.depth
      /\ d.server = a.server /\ d.asked = a.asked /\ d.from = a.from /\ d.own = a.own
  BY DEF Calls, Reading
<1>2. call' = [call EXCEPT ![c] = d]
  BY DEF Goto, TypeOK
<1>3. CallOk(d)'
  BY <1>1 DEF CallOk, AnswerOk, Compares, Reading
<1> QED
  BY <1>1, <1>2, <1>3, OnwardMoves

\* One more attempt.
LEMMA AgainMoves ==
    ASSUME TypeOK, NEW c \in Clients, NEW a \in Calls, a = call[c], CallOk(a)', Again(c)
    PROVE  Moves(c, a)
<1> DEFINE d == [a EXCEPT !.tries = a.tries + 1]
<1>1. /\ d \in Calls /\ d.pc = a.pc /\ d.answer = a.answer /\ d.depth = a.depth
      /\ d.mined = a.mined
      /\ d.server = a.server /\ d.asked = a.asked /\ d.from = a.from /\ d.own = a.own
  BY DEF Calls
<1>2. call' = [call EXCEPT ![c] = d]
  BY DEF Again, TypeOK
<1>3. CallOk(d)'
  BY <1>1 DEF CallOk, AnswerOk, Compares
<1> QED
  BY <1>1, <1>2, <1>3, OnwardMoves

LEMMA ReceiptMoves ==
    ASSUME IInv, NEW c \in Clients, NEW a \in Calls, a = call[c], CallOk(a), Receipt(c),
           UNCHANGED chain
    PROVE  Moves(c, a)
<1>1. TypeOK /\ a.pc = "receipt" /\ a.server \in Servers /\ UNCHANGED shared
  BY DEF IInv, Receipt, CallOk
<1>2. AnswerOk(a)'
  BY <1>1, UnchangedIsShared, SharedKeepsAnswer DEF CallOk
<1>3. CASE Found(c, Seen(a.server))
  <2> DEFINE s == a.server
  <2>1. /\ wanted[s] \in Nat \union {Nothing} /\ block \in Nat /\ head \in Nat
        /\ ServerOk(s) /\ block <= head /\ (place = "mined" => block >= 1)
    BY <1>1 DEF IInv, TypeOK
  <2>2. PICK mined \in Nat : mined = Seen(s)
    BY <2>1 DEF Seen, Missing
  <2>3. PICK asked \in BOOLEAN : asked = (wanted[s] = Nothing)
    OBVIOUS
  <2> DEFINE d == [a EXCEPT !.pc = IF mined = Missing THEN "lookup" ELSE "head",
                            !.mined = mined, !.asked = asked]
  <2>4. /\ d \in Calls /\ d.pc = (IF mined = Missing THEN "lookup" ELSE "head")
        /\ d.mined = mined /\ d.asked = asked
        /\ d.server = s /\ d.answer = a.answer /\ d.from = a.from /\ d.own = a.own
    BY DEF Calls
  <2>5. call' = [call EXCEPT ![c] = d]
    BY <1>1, <1>3, <2>2, <2>3 DEF Found, TypeOK
  <2>6. mined = Missing /\ ~reorged => ~Compares(d)
    <3> SUFFICES ASSUME mined = Missing, ~reorged, Compares(d) PROVE FALSE
      OBVIOUS
    <3>1. /\ place = "mined" /\ wanted[a.from] # Missing
      BY <2>4 DEF Compares, CallOk, AnswerOk, Reached
    <3>2. wanted[s] # Nothing /\ wanted[s] = Missing
      BY <2>1, <2>2, <3>1 DEF Seen, Missing
    <3> QED
      BY <2>4, <2>3, <3>1, <3>2 DEF Compares
  <2>7. mined # Missing =>
          /\ mined <= head
          /\ ~reorged => /\ place = "mined" /\ mined = block
                         /\ wanted[s] # Missing
    BY <2>1, <2>2 DEF Seen, ServerOk, Nothing, Missing
  <2>8. UNCHANGED wanted
    BY <1>1 DEF shared
  <2> HIDE DEF d, s
  <2>9. CallOk(d)'
    <3>1. AnswerOk(d)'
      BY <1>2, <2>4 DEF AnswerOk
    <3>2. (~Compares(d))' <=> ~Compares(d)
      BY DEF Compares
    <3> QED
      BY <1>1, <2>4, <2>6, <2>7, <2>8, <3>1, <3>2 DEF CallOk, Reading, s
  <2> QED
    BY <2>4, <2>5, <2>9, OnwardMoves
<1>4. CASE Refuse(c, "error_502")
  BY <1>4, RefuseMoves DEF Errors
<1> QED
  BY <1>3, <1>4 DEF Receipt

LEMMA LookupMoves ==
    ASSUME IInv, NEW c \in Clients, NEW a \in Calls, a = call[c], CallOk(a), Lookup(c),
           UNCHANGED chain
    PROVE  Moves(c, a)
<1>1. TypeOK /\ a.pc = "lookup" /\ UNCHANGED shared
  BY DEF IInv, Lookup
<1>2. reorged \/ ~Compares(a)
  BY <1>1 DEF CallOk
<1>3. CASE Reply(c, Plain("pending"))
  BY <1>1, <1>2, <1>3, PlainMoves
<1>4. CASE Reply(c, Plain("not_found"))
  BY <1>1, <1>2, <1>4, PlainMoves
<1>5. CASE Again(c)
  BY <1>1, <1>5, UnchangedIsShared, SharedKeepsCall, AgainMoves
<1> QED
  BY <1>3, <1>4, <1>5 DEF Lookup

LEMMA HeadMoves ==
    ASSUME IInv, NEW c \in Clients, NEW a \in Calls, a = call[c], CallOk(a), Head(c),
           UNCHANGED chain
    PROVE  Moves(c, a)
<1> DEFINE s == a.server
<1>1. /\ TypeOK /\ a.pc = "head" /\ s \in Servers /\ block \in Nat /\ head \in Nat
      /\ a.mined \in Nat /\ a.asked \in BOOLEAN /\ kept[s] \in Nat \union {Nothing}
      /\ kept[s] <= head
  BY DEF IInv, Head, TypeOK, Calls, CallOk, ServerOk
<1>2. PICK latest \in Nat : latest = Latest(c) /\ latest = IF kept[s] # Nothing THEN kept[s] ELSE head
  BY <1>1 DEF Latest
<1>3. PICK depth \in Int : depth = Depth(c) /\ depth = latest - a.mined + 1
  BY <1>1, <1>2 DEF Depth
<1>4. PICK asked \in BOOLEAN : asked = AskedHead(c) /\ asked = (a.asked /\ kept[s] = Nothing)
  BY DEF AskedHead
<1>5. SharedMoves /\ kept'[s] = latest /\ UNCHANGED wanted
  <2>1. kept' = [kept EXCEPT ![s] = latest] /\ UNCHANGED wanted
    BY <1>1, <1>2 DEF Head
  <2> QED
    BY <1>1, <1>2, <2>1 DEF SharedMoves, TypeOK
<1>6. AnswerOk(a)'
  BY <1>5, SharedKeepsAnswer DEF CallOk
<1>7. Reached(s, depth)' /\ (asked => depth >= 1)
  <2>1. /\ a.mined <= head
        /\ ~reorged => place = "mined" /\ a.mined = block /\ wanted[s] # Missing
    BY <1>1 DEF CallOk
  <2>2. latest <= head /\ kept'[s] = latest /\ UNCHANGED <<chain, wanted>>
    BY <1>1, <1>2, <1>5
  <2>3. Reached(s, depth)'
    BY <1>1, <1>3, <2>1, <2>2 DEF Reached
  <2>4. asked => depth >= 1
    <3>1. asked => kept[s] = Nothing
      BY <1>4, Zenon
    <3>2. kept[s] = Nothing => latest = head
      BY <1>2
    <3> QED
      BY <1>1, <1>3, <2>1, <3>1, <3>2
  <2> QED
    BY <2>3, <2>4
<1>8. ~reorged /\ a.answer.status \in Final /\ (asked \/ s = a.from) => a.answer.confirmations <= depth
  <2> SUFFICES ASSUME ~reorged, a.answer.status \in Final, asked \/ s = a.from
               PROVE  a.answer.confirmations <= depth
    OBVIOUS
  <2>1. /\ a.answer.confirmations \in Int /\ a.mined = block
        /\ a.answer.confirmations <= head - block + 1
        /\ kept[a.from] # Nothing => a.answer.confirmations <= kept[a.from] - block + 1
    BY <1>1 DEF CallOk, AnswerOk, Reached, Calls, Told
  <2> QED
    BY <1>1, <1>2, <1>3, <1>4, <2>1
<1> HIDE DEF s
<1>9. CASE /\ kind = "reverted"
           /\ Answer(c, [Plain("reverted") EXCEPT !.confirmations = Depth(c)], AskedHead(c))
  <2> DEFINE said == [Plain("reverted") EXCEPT !.confirmations = depth]
             d == Answered(said, s, asked)
  <2>1. said \in Told /\ said.status = "reverted" /\ said.confirmations = depth
    BY DEF Plain, Told, NoPool, PoolIds, Statuses
  <2>2. d.answer = said /\ d.from = s /\ d.own = asked
    BY DEF Answered
  <2> HIDE DEF said, d
  <2>3. AnswerOk(d)'
    BY <1>7, <1>9, <2>1, <2>2 DEF AnswerOk, Launches
  <2>4. Forward(a, d)
    <3> SUFFICES ASSUME ~reorged, a.answer.status \in Final, s = a.from \/ asked
                 PROVE  said.status = a.answer.status /\ said.confirmations >= a.answer.confirmations
      BY <2>1, <2>2 DEF Forward
    <3>1. a.answer.status # "confirmed"
      BY <1>9 DEF CallOk, AnswerOk, Launches
    <3>2. a.answer.confirmations <= depth /\ a.answer.confirmations \in Int
      BY <1>8 DEF Calls, Told
    <3> QED
      BY <2>1, <3>1, <3>2 DEF Final
  <2>5. Answer(c, said, asked)
    BY <1>3, <1>4, <1>9 DEF said
  <2> QED
    BY <1>1, <2>1, <2>3, <2>4, <2>5, AnswerMoves DEF d, s
<1>10. CASE Refuse(c, "error_502")
  BY <1>10, RefuseMoves DEF Errors
<1>11. CASE /\ kind \notin {"reverted", "eventless"}
            /\ call' = [call EXCEPT ![c].pc = "create", ![c].depth = Depth(c),
                                    ![c].asked = AskedHead(c)]
  <2> DEFINE d == [a EXCEPT !.pc = "create", !.depth = depth, !.asked = asked]
  <2>1. /\ d \in Calls /\ d.pc = "create" /\ d.depth = depth /\ d.asked = asked
        /\ d.server = s /\ d.answer = a.answer /\ d.from = a.from /\ d.own = a.own
    BY DEF Calls, Reading, s
  <2>2. call' = [call EXCEPT ![c] = d]
    BY <1>1, <1>3, <1>4, <1>11 DEF TypeOK
  <2> HIDE DEF d
  <2>3. AnswerOk(d)'
    BY <1>6, <2>1 DEF AnswerOk
  <2>4. CallOk(d)'
    BY <1>1, <1>7, <1>8, <1>11, <2>1, <2>3 DEF CallOk, Compares, Reading
  <2> QED
    BY <2>1, <2>2, <2>4, OnwardMoves
<1> QED
  BY <1>9, <1>10, <1>11 DEF Head

\* A launch is confirmed with the depth that was read, and the id of its pool.
LEMMA ConfirmedMoves ==
    ASSUME TypeOK, NEW c \in Clients, NEW a \in Calls, a = call[c], CallOk(a), CallOk(a)',
           a.pc \in Reading, NEW pool \in PoolIds, Confirmed(c, pool), kind \in Launches,
           kind # "odd_dynamic" => pool = PoolOf(kind), UNCHANGED chain
    PROVE  Moves(c, a)
<1> DEFINE said == [status |-> "confirmed", confirmations |-> a.depth, pool |-> pool]
           d == Answered(said, a.server, a.asked)
<1>1. /\ said \in Told /\ said.status = "confirmed" /\ said.confirmations = a.depth
      /\ said.pool = pool /\ a.asked \in BOOLEAN
  BY DEF Told, Statuses, Calls
<1>2. Answer(c, said, a.asked)
  BY DEF Confirmed, Reply
<1>3. d.answer = said /\ d.from = a.server /\ d.own = a.asked
  BY DEF Answered
<1> HIDE DEF said, d
<1>4. AnswerOk(d)'
  BY <1>1, <1>3 DEF AnswerOk, CallOk
<1>5. Forward(a, d)
  <2> SUFFICES ASSUME ~reorged, a.answer.status \in Final, a.server = a.from \/ a.asked
               PROVE  a.answer.status = "confirmed" /\ a.depth >= a.answer.confirmations
    BY <1>1, <1>3 DEF Forward
  <2>1. a.answer.status = "confirmed"
    BY DEF CallOk, AnswerOk
  <2>2. a.answer.confirmations <= a.depth
    BY DEF CallOk, Compares
  <2> QED
    BY <2>1, <2>2 DEF Calls, Told
<1> QED
  BY <1>1, <1>2, <1>4, <1>5, AnswerMoves DEF d

LEMMA DecodedMoves ==
    ASSUME IInv, NEW c \in Clients, NEW a \in Calls, a = call[c], CallOk(a), CallOk(a)', a.pc = "create",
           Decoded(c), UNCHANGED chain
    PROVE  Moves(c, a)
<1>1. TypeOK /\ a.pc \in Reading
  BY DEF IInv, Reading
<1>2. CASE Refuse(c, "error_502")
  BY <1>2, RefuseMoves DEF Errors
<1>3. CASE Refuse(c, "error_500")
  BY <1>3, RefuseMoves DEF Errors
<1>4. CASE kind \in {"static", "lockable"} /\ Confirmed(c, AddressId)
  <2>1. AddressId \in PoolIds /\ AddressId = PoolOf(kind) /\ kind \in Launches
    BY <1>4 DEF AddressId, PoolIds, PoolOf, Launches
  <2> QED
    BY <1>1, <1>4, <2>1, ConfirmedMoves
<1>5. CASE kind = "dynamic" /\ Confirmed(c, KeyId("decoded", "poolOrHook"))
  <2> DEFINE id == KeyId("decoded", "poolOrHook")
  <2>1. id \in PoolIds /\ id = PoolOf(kind) /\ kind \in Launches
    BY <1>5 DEF KeyId, PoolIds, PoolOf, Launches
  <2> QED
    BY <1>1, <1>5, <2>1, ConfirmedMoves
<1>6. CASE kind = "odd_dynamic" /\ Goto(c, "sdk")
  BY <1>1, <1>6, GotoMoves
<1>7. CASE kind \in {"hooked", "hook_without_fee"}
           /\ Confirmed(c, KeyId(HookFee(kind), "initializer"))
  <2> DEFINE id == KeyId(HookFee(kind), "initializer")
  <2>1. id \in PoolIds /\ id = PoolOf(kind) /\ kind \in Launches
    BY <1>7 DEF KeyId, HookFee, PoolIds, PoolOf, Launches
  <2> QED
    BY <1>1, <1>7, <2>1, ConfirmedMoves
<1>8. CASE kind \in {"decay", "plain"} /\ Goto(c, "hook")
  BY <1>1, <1>8, GotoMoves
<1> QED
  BY <1>2, <1>3, <1>4, <1>5, <1>6, <1>7, <1>8 DEF Decoded

LEMMA CreateMoves ==
    ASSUME IInv, NEW c \in Clients, NEW a \in Calls, a = call[c], CallOk(a), CallOk(a)', Create(c),
           UNCHANGED chain
    PROVE  Moves(c, a)
<1>1. TypeOK /\ a.pc = "create"
  BY DEF IInv, Create
<1>2. CASE Decoded(c)
  BY <1>1, <1>2, DecodedMoves
<1>3. CASE Again(c)
  BY <1>1, <1>3, AgainMoves
<1>4. CASE Refuse(c, "error_502")
  BY <1>4, RefuseMoves DEF Errors
<1> QED
  BY <1>2, <1>3, <1>4 DEF Create

LEMMA SdkMoves ==
    ASSUME IInv, NEW c \in Clients, NEW a \in Calls, a = call[c], CallOk(a), CallOk(a)', Sdk(c),
           UNCHANGED chain
    PROVE  Moves(c, a)
<1>1. TypeOK /\ a.pc = "sdk" /\ a.pc \in Reading /\ kind = "odd_dynamic" /\ kind \in Launches
  BY DEF IInv, Sdk, CallOk, Launches, Reading
<1>2. AddressId \in PoolIds /\ KeyId("decoded", "poolOrHook") \in PoolIds
  BY DEF AddressId, KeyId, PoolIds
<1>3. CASE Confirmed(c, KeyId("decoded", "poolOrHook"))
  BY <1>1, <1>2, <1>3, ConfirmedMoves
<1>4. CASE Confirmed(c, AddressId)
  BY <1>1, <1>2, <1>4, ConfirmedMoves
<1> QED
  BY <1>3, <1>4 DEF Sdk, Confirmed

LEMMA HookMoves ==
    ASSUME IInv, NEW c \in Clients, NEW a \in Calls, a = call[c], CallOk(a), CallOk(a)', Hook(c),
           UNCHANGED chain
    PROVE  Moves(c, a)
<1>1. TypeOK /\ a.pc = "hook" /\ a.pc \in Reading /\ kind \in {"decay", "plain"}
  BY DEF IInv, Hook, CallOk, Reading
<1>2. CASE Confirmed(c, KeyId(IF kind = "decay" THEN "dynamic" ELSE "decoded", "HOOK"))
  <2> DEFINE id == KeyId(IF kind = "decay" THEN "dynamic" ELSE "decoded", "HOOK")
  <2>1. id \in PoolIds /\ id = PoolOf(kind) /\ kind \in Launches
    BY <1>1 DEF KeyId, PoolIds, PoolOf, Launches
  <2> QED
    BY <1>1, <1>2, <2>1, ConfirmedMoves
<1>3. CASE Refuse(c, "error_500")
  BY <1>3, RefuseMoves DEF Errors
<1> QED
  BY <1>2, <1>3 DEF Hook

LEMMA AskMoves ==
    ASSUME IInv, NEW c \in Clients, NEW a \in Calls, a = call[c], CallOk(a)', Ask(c)
    PROVE  Moves(c, a)
<1>1. TypeOK /\ a.pc = "idle"
  BY DEF IInv, Ask
<1>2. ASSUME NEW s \in Servers, call' = [call EXCEPT ![c].pc = "receipt", ![c].server = s]
      PROVE  Moves(c, a)
  <2> DEFINE d == [a EXCEPT !.pc = "receipt", !.server = s]
  <2>1. /\ d \in Calls /\ d.pc = "receipt" /\ d.server = s /\ d.answer = a.answer
        /\ d.from = a.from /\ d.own = a.own
    BY DEF Calls, Sources
  <2>2. call' = [call EXCEPT ![c] = d]
    BY <1>1, <1>2 DEF TypeOK
  <2>3. CallOk(d)'
    BY <2>1 DEF CallOk, AnswerOk, Reading
  <2> QED
    BY <2>1, <2>2, <2>3, OnwardMoves
<1>3. CASE Refuse(c, "invalid")
  BY <1>3, RefuseMoves DEF Errors
<1> QED
  BY <1>2, <1>3 DEF Ask

\* Any step of a call.
LEMMA StepMoves ==
    ASSUME IInv, NEW c \in Clients, NEW a \in Calls, a = call[c], Ask(c) \/ Work(c),
           UNCHANGED chain
    PROVE  SharedMoves /\ Moves(c, a)
<1>1. CallOk(a)
  BY DEF IInv, CallInv
<1>2. CASE Head(c)
  <2>1. a.server \in Servers /\ a.pc = "head"
    BY <1>1, <1>2 DEF CallOk, Head
  <2>2. kept' = [kept EXCEPT ![a.server] = Latest(c)] /\ UNCHANGED wanted
    BY <1>2 DEF Head
  <2>3. Latest(c) \in Nat /\ Latest(c) \in {kept[a.server], head}
    BY <2>1 DEF Latest, IInv, TypeOK
  <2>4. SharedMoves
    BY <2>1, <2>2, <2>3 DEF SharedMoves, IInv, TypeOK
  <2> QED
    BY <1>1, <1>2, <2>4, HeadMoves
<1>3. CASE ~Head(c)
  <2>1. SharedMoves
    <3>1. UNCHANGED shared
      BY <1>3 DEF Work, Ask, Receipt, Lookup, HeadFails, Create, Sdk, Hook
    <3> QED
      BY <3>1, UnchangedIsShared
  <2>2. CallOk(a)'
    BY <1>1, <2>1, SharedKeepsCall
  <2>3. CASE HeadFails(c)
    BY <2>1, <2>3, RefuseMoves DEF HeadFails, Errors
  <2>4. CASE ~HeadFails(c)
    BY <1>1, <1>3, <2>1, <2>2, <2>4, AskMoves, ReceiptMoves, LookupMoves, CreateMoves, SdkMoves,
       HookMoves
    DEF Work
  <2> QED
    BY <2>1, <2>3, <2>4
<1> QED
  BY <1>2, <1>3

-----------------------------------------------------------------------------
(* The invariant is inductive *)

LEMMA CallsKeepInv ==
    ASSUME IInv, NEW c \in Clients, Ask(c) \/ Work(c), UNCHANGED chain
    PROVE  IInv'
<1>1. PICK a \in Calls : a = call[c]
  BY DEF IInv, TypeOK
<1>2. SharedMoves /\ Moves(c, a)
  BY <1>1, StepMoves
<1>3. PICK d \in Calls : call' = [call EXCEPT ![c] = d] /\ CallOk(d)'
  BY <1>2 DEF Moves
<1>4. TypeOK' /\ (block <= head /\ (place = "mined" => block >= 1))'
  BY <1>2, <1>3 DEF IInv, TypeOK, SharedMoves
<1>5. \A s \in Servers : ServerOk(s)'
  BY <1>2, SharedKeepsServers
<1>6. CallInv'
  <2> SUFFICES ASSUME NEW x \in Clients, NEW b \in Calls, b = call'[x]
               PROVE  CallOk(b)'
    BY DEF CallInv
  <2>1. CASE x = c
    BY <1>3, <2>1 DEF IInv, TypeOK
  <2>2. CASE x # c
    <3>1. b = call[x]
      BY <1>3, <2>2 DEF IInv, TypeOK
    <3> QED
      BY <1>2, <3>1, SharedKeepsCall DEF IInv, CallInv
  <2> QED
    BY <2>1, <2>2
<1> QED
  BY <1>4, <1>5, <1>6 DEF IInv

LEMMA OthersKeepInv ==
    ASSUME IInv, NEW s \in Servers, Others(s)
    PROVE  IInv' /\ UNCHANGED call
<1>1. UNCHANGED chain /\ UNCHANGED call
  BY DEF Others
<1>2. Seen(s) \in Nat \union {Nothing} /\ head \in Nat
  BY DEF Seen, Missing, IInv, TypeOK
<1>3. SharedMoves
  <2> USE <1>2 DEF SharedMoves, IInv, TypeOK
  <2>1. CASE OthersReadHead(s)
    BY <2>1 DEF OthersReadHead
  <2>2. CASE HeadExpires(s)
    BY <2>2 DEF HeadExpires
  <2>3. CASE OthersWantReceipt(s)
    BY <2>3 DEF OthersWantReceipt
  <2>4. CASE ReceiptArrives(s)
    BY <2>4 DEF ReceiptArrives
  <2> QED
    BY <2>1, <2>2, <2>3, <2>4 DEF Others
<1>4. TypeOK' /\ (block <= head /\ (place = "mined" => block >= 1))'
  BY <1>1, <1>3 DEF IInv, TypeOK, SharedMoves
<1>5. \A x \in Servers : ServerOk(x)'
  BY <1>1, <1>3, SharedKeepsServers
<1>6. CallInv'
  BY <1>1, <1>3, SharedKeepsCall DEF IInv, CallInv
<1> QED
  BY <1>1, <1>4, <1>5, <1>6 DEF IInv

\* The chain moves on: it grows, and unless it is reorganised a transaction
\* that was mined stays where it is.
ChainMoves ==
    /\ UNCHANGED <<kind, shared, call>>
    /\ place' \in {"nowhere", "pool", "mined"} /\ reorged' \in BOOLEAN
    /\ block' \in Nat /\ head' \in Nat /\ block' <= head' /\ head <= head'
    /\ place' = "mined" => block' >= 1
    /\ reorged => reorged'
    /\ ~reorged' /\ place = "mined" => place' = "mined" /\ block' = block

LEMMA ChainKeepsReached ==
    ASSUME IInv, ChainMoves, NEW s, NEW depth \in Int, Reached(s, depth)
    PROVE  Reached(s, depth)'
<1>1. s \in Servers /\ UNCHANGED <<kept, wanted>>
  BY DEF Reached, ChainMoves, shared
<1>2. block \in Nat /\ head \in Nat /\ head' \in Nat /\ head <= head'
  BY DEF IInv, TypeOK, ChainMoves
<1>3. ~reorged' => /\ place' = "mined" /\ block' = block /\ depth <= head - block + 1
                   /\ wanted[s] # Missing
                   /\ kept[s] # Nothing => depth <= kept[s] - block + 1
  BY DEF Reached, ChainMoves
<1> QED
  BY <1>1, <1>2, <1>3 DEF Reached

LEMMA ChainKeepsInv == ASSUME IInv, ChainMoves PROVE IInv'
<1>1. TypeOK' /\ (block <= head /\ (place = "mined" => block >= 1))'
  BY DEF IInv, TypeOK, ChainMoves, shared
<1>2. ASSUME NEW s \in Servers PROVE ServerOk(s)'
  <2>1. /\ ServerOk(s) /\ block \in Nat /\ head \in Nat
        /\ kept[s] \in Nat \union {Nothing} /\ wanted[s] \in Nat \union {Nothing}
    BY DEF IInv, TypeOK
  <2> QED
    BY <2>1 DEF ServerOk, ChainMoves, shared, Nothing
<1>3. ASSUME NEW a \in Calls, AnswerOk(a) PROVE AnswerOk(a)'
  <2>1. a.answer.confirmations \in Int
    BY DEF Calls, Told
  <2>2. a.answer.status \in Final => Reached(a.from, a.answer.confirmations)'
    BY <1>3, <2>1, ChainKeepsReached DEF AnswerOk
  <2> QED
    BY <1>3, <2>2 DEF AnswerOk, ChainMoves
<1>4. ASSUME NEW a \in Calls, CallOk(a) PROVE CallOk(a)'
  <2>1. /\ block \in Nat /\ head \in Nat /\ a.mined \in Nat /\ a.depth \in Int
        /\ UNCHANGED <<kept, wanted, kind>>
    BY DEF IInv, TypeOK, Calls, ChainMoves, shared
  <2>2. AnswerOk(a)'
    BY <1>3, <1>4 DEF CallOk
  <2>3. a.pc = "head" =>
          /\ a.mined <= head'
          /\ ~reorged' => /\ place' = "mined" /\ a.mined = block'
                          /\ wanted'[a.server] # Missing
    BY <1>4, <2>1 DEF CallOk, ChainMoves
  <2>4. a.pc \in Reading => Reached(a.server, a.depth)'
    BY <1>4, <2>1, ChainKeepsReached DEF CallOk
  <2>5. ~reorged' => ~reorged
    BY DEF ChainMoves, IInv, TypeOK
  <2> QED
    BY <1>4, <2>1, <2>2, <2>3, <2>4, <2>5 DEF CallOk, Compares
<1>5. CallInv'
  BY <1>4 DEF IInv, CallInv, ChainMoves
<1> QED
  BY <1>1, <1>2, <1>5 DEF IInv

LEMMA InitInv == Init => IInv
<1> SUFFICES ASSUME Init PROVE IInv
  OBVIOUS
<1> DEFINE new == Answered(Plain(NoAnswer), NoAnswer, FALSE)
<1>1. Plain(NoAnswer) \in Told /\ Plain(NoAnswer).status = NoAnswer
  BY DEF Plain, Told, NoPool, PoolIds
<1>2. new \in Calls /\ new.pc = "idle" /\ new.answer.status = NoAnswer
  BY <1>1 DEF Answered, Calls, Sources
<1>3. NoAnswer \notin Final /\ NoAnswer # "confirmed"
  BY NoAnswerAssumption DEF Statuses, Final
<1>4. CallOk(new)
  BY <1>2, <1>3 DEF CallOk, AnswerOk, Reading
<1>5. call \in [Clients -> Calls] /\ \A c \in Clients : call[c] = new
  BY <1>2 DEF Init
<1>6. /\ place = "nowhere" /\ kind \in Kinds
      /\ block = 0 /\ head = 0 /\ reorged \in BOOLEAN
      /\ kept = [s \in Servers |-> Nothing] /\ wanted = [s \in Servers |-> Nothing]
  BY DEF Init
<1>7. TypeOK /\ block <= head /\ (place = "mined" => block >= 1)
  BY <1>5, <1>6 DEF TypeOK
<1>8. \A s \in Servers : ServerOk(s)
  BY <1>6 DEF ServerOk, Nothing
<1>9. CallInv
  BY <1>4, <1>5 DEF CallInv
<1> QED
  BY <1>7, <1>8, <1>9 DEF IInv

\* Every step is one of a call, of others or of the chain, or changes nothing.
LEMMA Steps ==
    ASSUME IInv, [Next]_vars
    PROVE  \/ \E c \in Clients : (Ask(c) \/ Work(c)) /\ UNCHANGED chain
           \/ \E s \in Servers : Others(s)
           \/ ChainMoves
<1> USE DEF IInv, TypeOK
<1>6. ASSUME NEW c \in Clients, (Ask(c) /\ UNCHANGED chain) \/ Work(c)
      PROVE  (Ask(c) \/ Work(c)) /\ UNCHANGED chain
  BY <1>6 DEF Work
<1>1. CASE Submit
  BY <1>1 DEF Submit, ChainMoves
<1>2. CASE Drop
  BY <1>2 DEF Drop, ChainMoves
<1>3. CASE Grow
  BY <1>3 DEF Grow, ChainMoves
<1>4. CASE Reorg
  BY <1>4 DEF Reorg, ChainMoves
<1>5. CASE UNCHANGED vars
  BY <1>5 DEF vars, ChainMoves
<1> QED
  BY <1>1, <1>2, <1>3, <1>4, <1>5, <1>6 DEF Next

LEMMA Invariance == Spec => []IInv
<1>1. IInv /\ [Next]_vars => IInv'
  BY Steps, CallsKeepInv, OthersKeepInv, ChainKeepsInv
<1> QED
  BY <1>1, InitInv, PTL DEF Spec

-----------------------------------------------------------------------------
(* The theorems *)

\* Every call keeps a progress and an answer that getLaunchStatus() can have.
THEOREM TypeCorrect == Spec => []TypeOK
BY Invariance, PTL DEF IInv

\* A client's last answer about a mined transaction is true of the chain that
\* it reads later, and counts its confirmations from one if its call asked for
\* the block number itself, also when the reads of a call fall on both sides of
\* a reorganisation.
THEOREM AnswersFit == Spec => []AnswersFitTheChain
<1>1. IInv => AnswersFitTheChain
  <2> SUFFICES ASSUME IInv, NEW c \in Clients, call[c].answer.status \in Final
               PROVE  LET said == call[c].answer IN
                      /\ call[c].own => said.confirmations >= 1
                      /\ ~reorged => /\ place = "mined"
                                     /\ said.confirmations <= head - block + 1
                                     /\ said.status = "confirmed" <=> kind \in Launches
    BY DEF AnswersFitTheChain
  <2>1. PICK a \in Calls : a = call[c] /\ AnswerOk(a)
    BY DEF IInv, TypeOK, CallInv, CallOk
  <2> QED
    BY <2>1 DEF AnswerOk, Reached
<1> QED
  BY <1>1, Invariance, PTL

\* Whatever initializer a launch went through, and however often its create
\* transaction had to be asked for, the pool id is that of the pool it made.
THEOREM PoolsAreNamed == Spec => []ConfirmedNamesItsPool
<1>1. IInv => ConfirmedNamesItsPool
  <2> SUFFICES ASSUME IInv, NEW c \in Clients, kind # "odd_dynamic",
                      call[c].answer.status = "confirmed"
               PROVE  call[c].answer.pool = PoolOf(kind)
    BY DEF ConfirmedNamesItsPool
  <2>1. PICK a \in Calls : a = call[c] /\ AnswerOk(a)
    BY DEF IInv, TypeOK, CallInv, CallOk
  <2> QED
    BY <2>1 DEF AnswerOk
<1> QED
  BY <1>1, Invariance, PTL

\* While the chain only grows, a client that polls one server is never told
\* that a launch went back, although each call reads the chain at several
\* moments and shares what it reads with others; and no server tells it so
\* from what it asked for itself.
THEOREM StatusIsNotTakenBack == Spec => StatusGoesForward
<1>1. IInv /\ [Next]_vars =>
        [\A c \in Clients : Forward(call[c], call'[c])]_vars
  <2> SUFFICES ASSUME IInv, [Next]_vars, NEW c \in Clients
               PROVE  Forward(call[c], call'[c])
    OBVIOUS
  <2>1. PICK a \in Calls : a = call[c]
    BY DEF IInv, TypeOK
  <2>2. a.answer.confirmations >= a.answer.confirmations
    BY DEF Calls, Told
  <2>3. Forward(a, a)
    BY <2>2 DEF Forward, Final
  <2>4. CASE ChainMoves \/ \E s \in Servers : Others(s)
    <3>1. UNCHANGED call
      BY <2>4 DEF ChainMoves, Others
    <3> QED
      BY <2>1, <2>3, <3>1
  <2>5. ASSUME NEW x \in Clients, Ask(x) \/ Work(x), UNCHANGED chain, x # c
        PROVE  call'[c] = call[c]
    <3>1. PICK b \in Calls : b = call[x]
      BY DEF IInv, TypeOK
    <3> QED
      BY <2>5, <3>1, StepMoves DEF Moves, IInv, TypeOK
  <2>6. CASE (Ask(c) \/ Work(c)) /\ UNCHANGED chain
    <3>1. PICK d \in Calls : call' = [call EXCEPT ![c] = d] /\ Forward(a, d)
      BY <2>1, <2>6, StepMoves DEF Moves
    <3>2. call'[c] = d
      BY <3>1 DEF IInv, TypeOK
    <3> QED
      BY <2>1, <3>1, <3>2
  <2> QED
    BY <2>1, <2>3, <2>4, <2>5, <2>6, Steps
<1>2. (\A c \in Clients : Forward(call[c], call'[c])) <=>
        \A c \in Clients :
          LET before == call[c].answer
              after == call'[c].answer IN
          /\ ~reorged /\ before.status \in Final
          /\ call'[c].from = call[c].from \/ call'[c].own
          => /\ after.status \notin {"pending", "not_found"}
             /\ after.status \in Final
                => after.status = before.status
                   /\ after.confirmations >= before.confirmations
  BY DEF Forward
<1> QED
  BY <1>1, <1>2, Invariance, PTL DEF Spec, StatusGoesForward

-----------------------------------------------------------------------------
(* Prices *)

\* An entry that may still be served was written by a fetch that the
\* deployment and the numeraire allow, and expires a TTL after a moment no
\* later than its market's.
EntryInv ==
    \A k \in CacheKeys :
        cache[k].expires > 0
        => /\ cache[k].expires <= cache[k].price.at + Ttl
           /\ cache[k].expires <= MaxNow - Timeout + Ttl
           /\ cache[k].price.asset = Asset(k)
           /\ enabled /\ Supported(k)

Allowed(c) == enabled /\ Supported(c.ask)

\* A fetch under way
FetchOk(c) ==
    /\ c.ask \in Asks /\ Allowed(c)
    /\ c.start <= MaxNow - Timeout
    /\ c.pc = "looked" => /\ c.price \in Prices
                          /\ c.start <= c.price.at
                          /\ c.price.asset = Asset(c.ask)
    /\ c.start <= now

\* An answer given
PriceOk(c) ==
    /\ c.answer = "cached" => c.told - c.price.at < Ttl
    /\ c.answer \in {"cached", "fetched"} => Allowed(c) /\ c.price.asset = Asset(c.ask)

QuoteOk(c) ==
    /\ c \in QuoteRecords
    /\ c.pc # "done" => c.answer = None
    /\ c.pc \in {"asked", "looked"} => FetchOk(c)
    /\ PriceOk(c)

QuotesInv == \A r \in Requests : QuoteOk(quote[r])

PricingInv == PricingTypeOK /\ EntryInv /\ QuotesInv

LEMMA KeysAreAsks == CacheKeys = Asks
BY DEF CacheKeys, CacheKey

LEMMA AssetsOfAsks == \A ask \in Asks : Asset(ask) \in Assets
BY PricingAssumption DEF Asks, Asset

LEMMA NoPriceIsOk == \A c : c.answer = None => PriceOk(c)
BY PricingAssumption DEF PriceOk

\* The invariant holds at the start.
LEMMA PricingInitHolds == PricingInit => PricingInv
<1> SUFFICES ASSUME PricingInit PROVE PricingInv
    OBVIOUS
<1>1. PricingTypeOK
    BY PricingAssumption DEF PricingInit, PricingTypeOK, Entries, QuoteRecords, Prices
<1>2. EntryInv
    BY DEF PricingInit, EntryInv
<1>3. ASSUME NEW r \in Requests PROVE QuoteOk(quote[r])
  <2>1. quote[r].pc = "idle" /\ quote[r].answer = None /\ quote[r] \in QuoteRecords
      BY <1>1 DEF PricingInit, PricingTypeOK
  <2> QED
      BY <2>1, NoPriceIsOk DEF QuoteOk
<1> QED
    BY <1>1, <1>2, <1>3 DEF PricingInv, QuotesInv

\* A step of one quote that leaves the deployment and the clock alone.
LEMMA OneQuote ==
    ASSUME PricingInv, NEW r \in Requests, NEW c, QuoteOk(c), quote' = [quote EXCEPT ![r] = c],
           UNCHANGED <<enabled, now>>
    PROVE  QuotesInv' /\ quote' \in [Requests -> QuoteRecords]
<1>1. quote \in [Requests -> QuoteRecords] /\ c \in QuoteRecords
    BY DEF PricingInv, PricingTypeOK, QuoteOk
<1>2. \A q \in Requests : quote'[q] = IF q = r THEN c ELSE quote[q]
    BY <1>1
<1>3. ASSUME NEW q \in Requests PROVE QuoteOk(quote'[q])
    BY <1>2 DEF PricingInv, QuotesInv
<1>4. QuotesInv'
    BY <1>3 DEF QuotesInv, QuoteOk, FetchOk, PriceOk, Allowed, Supported, Asset,
                QuoteRecords, Asks, Prices
<1> QED
    BY <1>1, <1>4

\* Done() writes a whole record.
LEMMA DoneRecord ==
    ASSUME PricingTypeOK, NEW r \in Requests, NEW ask \in Asks,
           NEW verdict \in {"override", "cached", "fetched", "refused", "failed"},
           NEW price \in Prices \union {NoPrice}, Done(r, ask, verdict, price)
    PROVE  \E c \in QuoteRecords :
             /\ quote' = [quote EXCEPT ![r] = c]
             /\ c.pc = "done" /\ c.ask = ask /\ c.answer = verdict
             /\ c.price = price /\ c.told = now
<1>1. quote[r] \in QuoteRecords /\ now \in 0..MaxNow
    BY DEF PricingTypeOK
<1> DEFINE c == [quote[r] EXCEPT !.pc = "done", !.ask = ask, !.answer = verdict,
                               !.price = price, !.told = now]
<1>2. /\ c \in QuoteRecords /\ c.pc = "done" /\ c.ask = ask /\ c.answer = verdict
      /\ c.price = price /\ c.told = now
    BY <1>1 DEF QuoteRecords
<1>3. quote' = [quote EXCEPT ![r] = c]
    BY DEF Done, PricingTypeOK
<1> QED
    BY <1>2, <1>3

\* A quote that ends without a price keeps the invariant.
LEMMA EndsUnpriced ==
    ASSUME PricingInv, NEW r \in Requests, NEW ask \in Asks,
           NEW verdict \in {"override", "refused", "failed"}, Done(r, ask, verdict, NoPrice),
           UNCHANGED <<enabled, cache, now>>
    PROVE  PricingInv'
<1>1. PICK c \in QuoteRecords : /\ quote' = [quote EXCEPT ![r] = c]
                              /\ c.pc = "done" /\ c.answer = verdict
    BY DoneRecord DEF PricingInv
<1>2. QuoteOk(c)
    BY <1>1 DEF QuoteOk, PriceOk
<1>3. QuotesInv' /\ quote' \in [Requests -> QuoteRecords]
    BY <1>1, <1>2, OneQuote
<1>4. PricingTypeOK' /\ EntryInv'
    BY <1>3 DEF PricingInv, PricingTypeOK, EntryInv, Supported, Asset, CacheKeys, CacheKey, Entries,
                QuoteRecords, Asks, Prices, NoPrice
<1> QED
    BY <1>3, <1>4 DEF PricingInv

\* A price from the cache is young and fits.
LEMMA CachedIsOk ==
    ASSUME PricingInv, NEW ask \in Asks, enabled, Fresh(ask)
    PROVE  /\ cache[ask].price \in Prices \union {NoPrice}
           /\ now - cache[ask].price.at < Ttl
           /\ Supported(ask) /\ cache[ask].price.asset = Asset(ask)
<1>1. cache[ask] \in Entries /\ now \in Nat
    BY KeysAreAsks, PricingAssumption DEF PricingInv, PricingTypeOK
<1>2. cache[ask].price \in Prices \union {NoPrice} /\ cache[ask].price.at \in Nat
    BY <1>1, PricingAssumption DEF Entries, Prices, NoPrice
<1>3. cache[ask].expires \in Nat /\ cache[ask].expires > now
    BY <1>1 DEF Entries, Fresh
<1>4. /\ cache[ask].expires <= cache[ask].price.at + Ttl
      /\ Supported(ask) /\ cache[ask].price.asset = Asset(ask)
    BY <1>1, <1>3, KeysAreAsks DEF PricingInv, EntryInv
<1>5. now - cache[ask].price.at < Ttl
    BY <1>1, <1>2, <1>3, <1>4, PricingAssumption
<1> QED
    BY <1>2, <1>4, <1>5

LEMMA AskKeeps == ASSUME PricingInv, NEW r \in Requests, AskPrice(r) PROVE PricingInv'
<1>1. quote[r].pc = "idle" /\ now + Timeout <= MaxNow /\ UNCHANGED <<enabled, cache, now>>
    BY DEF AskPrice
<1>2. PICK ask \in Asks : \/ Resolve(r, ask)
                          \/ Done(r, ask, "override", NoPrice)
                          \/ Done(r, ask, "refused", NoPrice)
    BY DEF AskPrice
<1>3. CASE \E verdict \in {"override", "refused"} : Done(r, ask, verdict, NoPrice)
    BY <1>1, <1>3, EndsUnpriced
<1>4. CASE enabled /\ Fresh(ask) /\ Done(r, ask, "cached", cache[ask].price)
  <2>1. /\ cache[ask].price \in Prices \union {NoPrice} /\ now - cache[ask].price.at < Ttl
        /\ Supported(ask) /\ cache[ask].price.asset = Asset(ask)
      BY <1>4, CachedIsOk
  <2>2. PICK c \in QuoteRecords :
          /\ quote' = [quote EXCEPT ![r] = c]
          /\ c.pc = "done" /\ c.ask = ask /\ c.answer = "cached"
          /\ c.price = cache[ask].price /\ c.told = now
      BY <1>4, <2>1, DoneRecord DEF PricingInv
  <2>3. QuoteOk(c)
      BY <1>4, <2>1, <2>2 DEF QuoteOk, PriceOk, Allowed
  <2>4. QuotesInv' /\ quote' \in [Requests -> QuoteRecords]
      BY <1>1, <2>2, <2>3, OneQuote
  <2>5. PricingTypeOK' /\ EntryInv'
      BY <1>1, <2>4 DEF PricingInv, PricingTypeOK, EntryInv, Supported, Asset, CacheKeys, CacheKey,
                        Entries, QuoteRecords, Asks, Prices, NoPrice
  <2> QED
      BY <2>4, <2>5 DEF PricingInv
<1>5. CASE /\ enabled /\ Supported(ask)
           /\ quote' = [quote EXCEPT ![r].pc = "asked", ![r].ask = ask, ![r].start = now]
  <2> DEFINE c == [quote[r] EXCEPT !.pc = "asked", !.ask = ask, !.start = now]
  <2>1. quote \in [Requests -> QuoteRecords] /\ quote[r] \in QuoteRecords /\ now \in 0..MaxNow
      BY DEF PricingInv, PricingTypeOK
  <2>2. /\ c \in QuoteRecords /\ c.pc = "asked" /\ c.ask = ask /\ c.start = now
        /\ c.answer = quote[r].answer
      BY <2>1 DEF QuoteRecords
  <2>3. quote[r].answer = None
      BY <1>1 DEF PricingInv, QuotesInv, QuoteOk
  <2>4. now <= now /\ now <= MaxNow - Timeout
      BY <1>1, <2>1, PricingAssumption
  <2>5. FetchOk(c)
      BY <1>5, <2>2, <2>4 DEF FetchOk, Allowed
  <2>6. QuoteOk(c)
      BY <2>2, <2>3, <2>5, NoPriceIsOk DEF QuoteOk
  <2>7. quote' = [quote EXCEPT ![r] = c]
      BY <1>5, <2>1
  <2>8. QuotesInv' /\ quote' \in [Requests -> QuoteRecords]
      BY <1>1, <2>6, <2>7, OneQuote
  <2>9. PricingTypeOK' /\ EntryInv'
      BY <1>1, <2>8 DEF PricingInv, PricingTypeOK, EntryInv, Supported, Asset, CacheKeys, CacheKey,
                        Entries, QuoteRecords, Asks, Prices, NoPrice
  <2> QED
      BY <2>8, <2>9 DEF PricingInv
<1> QED
    BY <1>2, <1>3, <1>4, <1>5 DEF Resolve, CacheKey

LEMMA LookKeeps == ASSUME PricingInv, NEW r \in Requests, Look(r) PROVE PricingInv'
<1> DEFINE c == [quote[r] EXCEPT !.pc = "looked",
                               !.price = [asset |-> Asset(quote[r].ask), at |-> now]]
<1>1. /\ quote \in [Requests -> QuoteRecords] /\ quote[r] \in QuoteRecords /\ now \in 0..MaxNow
      /\ UNCHANGED <<enabled, cache, now>>
    BY DEF PricingInv, PricingTypeOK, Look
<1>2. quote[r].pc = "asked" /\ FetchOk(quote[r]) /\ quote[r].answer = None
    BY DEF Look, PricingInv, QuotesInv, QuoteOk
<1>3. [asset |-> Asset(quote[r].ask), at |-> now] \in Prices
    BY <1>1, <1>2, AssetsOfAsks DEF FetchOk, Prices
<1>4. /\ c \in QuoteRecords /\ c.pc = "looked" /\ c.answer = None
      /\ c.ask = quote[r].ask /\ c.start = quote[r].start
      /\ c.price = [asset |-> Asset(quote[r].ask), at |-> now]
    BY <1>1, <1>2, <1>3 DEF QuoteRecords
<1>5. FetchOk(c)
    BY <1>2, <1>3, <1>4 DEF FetchOk, Allowed
<1>6. QuoteOk(c)
    BY <1>4, <1>5, NoPriceIsOk DEF QuoteOk
<1>7. quote' = [quote EXCEPT ![r] = c]
    BY <1>1 DEF Look
<1>8. QuotesInv' /\ quote' \in [Requests -> QuoteRecords]
    BY <1>1, <1>6, <1>7, OneQuote
<1>9. PricingTypeOK' /\ EntryInv'
    BY <1>1, <1>8 DEF PricingInv, PricingTypeOK, EntryInv, Supported, Asset, CacheKeys, CacheKey,
                      Entries, QuoteRecords, Asks, Prices, NoPrice
<1> QED
    BY <1>8, <1>9 DEF PricingInv

\* What a fetch stores may be served until it expires.
LEMMA ReceiveKeeps == ASSUME PricingInv, NEW r \in Requests, Receive(r) PROVE PricingInv'
<1> DEFINE ask == quote[r].ask
           price == quote[r].price
<1>1. /\ quote[r].pc = "looked" /\ UNCHANGED <<enabled, now>>
      /\ cache' = [cache EXCEPT ![ask] = Entry(r)] /\ Done(r, ask, "fetched", price)
    BY DEF Receive, CacheKey
<1>2. FetchOk(quote[r]) /\ quote[r] \in QuoteRecords
    BY <1>1 DEF PricingInv, QuotesInv, QuoteOk
<1>3. /\ ask \in Asks /\ price \in Prices /\ enabled /\ Supported(ask)
      /\ price.asset = Asset(ask) /\ quote[r].start \in 0..MaxNow
      /\ quote[r].start <= price.at /\ quote[r].start <= MaxNow - Timeout
    BY <1>1, <1>2 DEF FetchOk, Allowed, QuoteRecords
<1>4. PICK c \in QuoteRecords :
        /\ quote' = [quote EXCEPT ![r] = c]
        /\ c.pc = "done" /\ c.ask = ask /\ c.answer = "fetched" /\ c.price = price
    BY <1>1, <1>3, DoneRecord DEF PricingInv
<1>5. QuoteOk(c)
    BY <1>3, <1>4 DEF QuoteOk, PriceOk, Allowed
<1>6. QuotesInv' /\ quote' \in [Requests -> QuoteRecords]
    BY <1>1, <1>4, <1>5, OneQuote
<1>7. Entry(r) \in Entries /\ cache \in [Asks -> Entries]
    BY <1>3, KeysAreAsks, PricingAssumption DEF Entry, Entries, PricingInv, PricingTypeOK
<1>8. PricingTypeOK'
  <2>1. cache' \in [CacheKeys -> Entries]
      BY <1>1, <1>7, KeysAreAsks
  <2> QED
      BY <1>1, <1>6, <2>1 DEF PricingInv, PricingTypeOK, CacheKeys, CacheKey, Entries,
                              QuoteRecords, Asks, Prices, NoPrice
<1>9. EntryInv'
  <2> SUFFICES ASSUME NEW k \in Asks, cache'[k].expires > 0
               PROVE  /\ cache'[k].expires <= cache'[k].price.at + Ttl
                      /\ cache'[k].expires <= MaxNow - Timeout + Ttl
                      /\ cache'[k].price.asset = Asset(k)
                      /\ enabled /\ Supported(k)
      BY <1>1, KeysAreAsks DEF EntryInv, CacheKeys, CacheKey, Supported, Asset
  <2>1. CASE k = ask
    <3>1. cache'[k] = [price |-> price, expires |-> quote[r].start + Ttl]
        BY <1>1, <1>3, <1>7, <2>1 DEF Entry
    <3>2. price.at \in Nat
        BY <1>3, PricingAssumption DEF Prices
    <3>3. /\ quote[r].start + Ttl <= price.at + Ttl
          /\ quote[r].start + Ttl <= MaxNow - Timeout + Ttl
        BY <1>3, <3>2, PricingAssumption
    <3> QED
        BY <1>3, <2>1, <3>1, <3>3
  <2>2. CASE k # ask
    <3>1. cache'[k] = cache[k]
        BY <1>1, <1>7, <2>2
    <3> QED
        BY <3>1, KeysAreAsks DEF PricingInv, EntryInv
  <2> QED
      BY <2>1, <2>2
<1> QED
    BY <1>6, <1>8, <1>9 DEF PricingInv

LEMMA FetchFailsKeeps == ASSUME PricingInv, NEW r \in Requests, FetchFails(r) PROVE PricingInv'
<1>1. quote[r].ask \in Asks
    BY DEF FetchFails, PricingInv, QuotesInv, QuoteOk, FetchOk
<1> QED
    BY <1>1, EndsUnpriced DEF FetchFails

LEMMA TickKeeps == ASSUME PricingInv, Tick PROVE PricingInv'
<1>1. /\ now \in 0..MaxNow /\ now' \in 0..MaxNow /\ now < now'
      /\ UNCHANGED <<enabled, cache, quote>>
    BY PricingAssumption DEF Tick, PricingInv, PricingTypeOK
<1>2. PricingTypeOK' /\ EntryInv'
    BY <1>1 DEF PricingInv, PricingTypeOK, EntryInv, Supported, Asset, CacheKeys, CacheKey,
                Entries, QuoteRecords, Asks, Prices, NoPrice
<1>3. ASSUME NEW r \in Requests PROVE QuoteOk(quote[r])'
  <2>1. QuoteOk(quote[r]) /\ quote[r] \in QuoteRecords
      BY DEF PricingInv, QuotesInv, QuoteOk
  <2>2. quote[r].start <= now => quote[r].start <= now'
      BY <1>1, <2>1 DEF QuoteRecords
  <2> QED
      BY <1>1, <2>1, <2>2 DEF QuoteOk, FetchOk, PriceOk, Allowed, Supported, Asset,
                              QuoteRecords, Asks, Prices, NoPrice
<1> QED
    BY <1>2, <1>3 DEF PricingInv, QuotesInv

LEMMA StutterKeeps == ASSUME PricingInv, UNCHANGED pricingVars PROVE PricingInv'
<1>1. enabled' = enabled /\ cache' = cache /\ quote' = quote /\ now' = now
    BY DEF pricingVars
<1>2. PricingTypeOK' /\ EntryInv'
    BY <1>1 DEF PricingInv, PricingTypeOK, EntryInv, Supported, Asset, CacheKeys, CacheKey,
                Entries, QuoteRecords, Asks, Prices, NoPrice
<1>3. ASSUME NEW r \in Requests PROVE QuoteOk(quote[r])'
  <2>1. QuoteOk(quote[r])
      BY DEF PricingInv, QuotesInv
  <2> QED
      BY <1>1, <2>1 DEF QuoteOk, FetchOk, PriceOk, Allowed, Supported, Asset,
                        QuoteRecords, Asks, Prices, NoPrice
<1> QED
    BY <1>2, <1>3 DEF PricingInv, QuotesInv

THEOREM PricingInductive == PricingSpec => []PricingInv
<1>1. PricingInv /\ [PricingNext]_pricingVars => PricingInv'
  <2> SUFFICES ASSUME PricingInv, [PricingNext]_pricingVars PROVE PricingInv'
      OBVIOUS
  <2>1. ASSUME NEW r \in Requests, AskPrice(r) PROVE PricingInv'
      BY <2>1, AskKeeps
  <2>2. ASSUME NEW r \in Requests, Look(r) PROVE PricingInv'
      BY <2>2, LookKeeps
  <2>3. ASSUME NEW r \in Requests, Receive(r) PROVE PricingInv'
      BY <2>3, ReceiveKeeps
  <2>4. ASSUME NEW r \in Requests, FetchFails(r) PROVE PricingInv'
      BY <2>4, FetchFailsKeeps
  <2>5. CASE Tick
      BY <2>5, TickKeeps
  <2>6. CASE UNCHANGED pricingVars
      BY <2>6, StutterKeeps
  <2> QED
      BY <2>1, <2>2, <2>3, <2>4, <2>5, <2>6 DEF PricingNext
<1> QED
    BY PricingInitHolds, <1>1, PTL DEF PricingSpec

\* The state of service.ts keeps its shape.
THEOREM PricesTypeCorrect == PricingSpec => []PricingTypeOK
<1>1. PricingInv => PricingTypeOK
    BY DEF PricingInv
<1> QED
    BY PricingInductive, <1>1, PTL

\* However many fetches overlap, and in whatever order their answers are
\* stored, service.ts serves no cached price of a market a TTL old.
THEOREM PricesStayYoung == PricingSpec => []CachedPricesAreYoung
<1>1. PricingInv => CachedPricesAreYoung
    BY DEF PricingInv, QuotesInv, QuoteOk, PriceOk, CachedPricesAreYoung
<1> QED
    BY PricingInductive, <1>1, PTL

\* A price served, from the cache or not, is of the asset asked for, and the
\* provider supports its numeraire.
THEOREM PricesFit == PricingSpec => []PricesFitTheRequest
<1>1. PricingInv => PricesFitTheRequest
    BY DEF PricingInv, QuotesInv, QuoteOk, PriceOk, Allowed, PricesFitTheRequest
<1> QED
    BY PricingInductive, <1>1, PTL

=============================================================================
