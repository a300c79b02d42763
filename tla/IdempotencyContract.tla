------------------------ MODULE IdempotencyContract ------------------------
(***************************************************************************)
(* What an idempotency store promises to the callers of execute()          *)
(* (IdempotencyStore in src/src/infra/idempotency/store.ts), with no word   *)
(* of records, files, locks, processes or crashes: when a launch may be     *)
(* started, and what a request may be answered given what has become of     *)
(* the launches.                                                            *)
(***************************************************************************)
EXTENDS Integers

CONSTANTS Requests, KeyOf, HashOf, None, TtlMs

VARIABLES
    now,          \* the clock
    asked,        \* the requests that execute() has been called with
    launch,       \* per request: none, pending, landed or rejected
    startedAt,    \* when the request's launch was started
    answer        \* what the request was answered

vars == <<now, asked, launch, startedAt, answer>>

Live(r) == launch[r] \in {"pending", "landed"}

Alike(q, r) == KeyOf[q] = KeyOf[r] /\ HashOf[q] = HashOf[r]

\* The store has started or answered q before.
Seen(q) == launch[q] # "none" \/ answer[q] # None

Init ==
    /\ now = 0
    /\ asked = {}
    /\ launch = [r \in Requests |-> "none"]
    /\ startedAt = [r \in Requests |-> 0]
    /\ answer = [r \in Requests |-> None]

\* Calls may come in at any step.
Arrive == asked \subseteq asked'

\* A launch is started only when every launch of its key that may have an
\* effect was started more than one TTL ago.
Admit(r) ==
    /\ ~Seen(r)
    /\ \A q \in Requests :
         KeyOf[q] = KeyOf[r] /\ Live(q) => now - startedAt[q] > TtlMs
    /\ Arrive /\ r \in asked'
    /\ launch' = [launch EXCEPT ![r] = "pending"]
    /\ startedAt' = [startedAt EXCEPT ![r] = now]
    /\ UNCHANGED <<now, answer>>

Land(r) ==
    /\ launch[r] = "pending"
    /\ launch' = [launch EXCEPT ![r] = "landed"]
    /\ UNCHANGED <<now, asked, startedAt, answer>>

\* What r may be told.
Allowed(r, a) ==
    \/ a.kind = "ok" /\ a.launch = r /\ launch'[r] = "landed"
    \/ /\ a.kind = "replayed"
       /\ \E l \in Requests \ {r} :
            a.launch = l /\ Alike(l, r) /\ launch'[l] = "landed"
    \/ /\ a.kind = "in_doubt"
       /\ \/ a.launch = None /\ \E q \in Requests : Alike(q, r) /\ Seen(q)
          \/ \E l \in Requests : a.launch = l /\ Alike(l, r) /\ Live(l)'
    \/ /\ a.kind = "mismatch" /\ a.launch = None
       /\ \E q \in asked : KeyOf[q] = KeyOf[r] /\ HashOf[q] # HashOf[r]
    \/ /\ a.kind = "rejected" /\ a.launch = None
       /\ \E l \in Requests : Alike(l, r) /\ launch'[l] = "rejected"
    \/ a.kind = "store_error" /\ a.launch = None

\* Requests are answered, each once and for good.
Answers ==
    \A r \in Requests : answer'[r] # answer[r] =>
        answer[r] = None /\ r \in asked' /\ Allowed(r, answer'[r])

Respond == Arrive /\ Answers /\ UNCHANGED <<now, launch, startedAt>>

Named(l) == \E r \in Requests : answer[r] # None /\ answer[r].launch = l

\* The launch of l turns out to be rejected, and requests are told so.  Nobody
\* was told before that it may have landed.
RespondRejected(l) ==
    /\ launch[l] = "pending" /\ ~Named(l)
    /\ launch' = [launch EXCEPT ![l] = "rejected"]
    /\ Arrive /\ Answers
    /\ UNCHANGED <<now, startedAt>>

Tick ==
    /\ now' = now + 1
    /\ UNCHANGED <<asked, launch, startedAt, answer>>

Next ==
    \/ \E r \in Requests : Admit(r) \/ Land(r) \/ RespondRejected(r)
    \/ Respond
    \/ Tick

Spec == Init /\ [][Next]_vars

-----------------------------------------------------------------------------
(* What callers may build on *)

\* Two launches under one key that have, or may have, an effect start more
\* than one TTL apart (TTL_MS of execute()).
LaunchesAreApart ==
    \A q, r \in Requests :
        q # r /\ KeyOf[q] = KeyOf[r] /\ Live(q) /\ Live(r) =>
            \/ startedAt[r] - startedAt[q] > TtlMs
            \/ startedAt[q] - startedAt[r] > TtlMs

\* What a client was told stays true: a 200, first or replayed, names a launch
\* that did land, the details of a 409 IDEMPOTENCY_KEY_IN_DOUBT one that may
\* have, and either was requested with the same key and payload.
AnswersStayTrue ==
    \A r \in Requests :
        answer[r] # None =>
            LET l == answer[r].launch IN
            /\ answer[r].kind \in {"ok", "replayed"} =>
                  l \in Requests /\ launch[l] = "landed"
            /\ l # None => l \in Requests /\ Live(l) /\ Alike(l, r)

=============================================================================
