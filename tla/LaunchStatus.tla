----------------------------- MODULE LaunchStatus -----------------------------
(***************************************************************************)
(* getLaunchStatus() of src/src/modules/status/service.ts, asked again and *)
(* again by clients about one launch transaction, while the transaction is *)
(* submitted, mined, dropped or moved by a reorganisation, and the         *)
(* provider may fail any call.                                             *)
(*                                                                         *)
(* A call reads the chain several times and the chain moves in between.    *)
(* Any server may answer it.  Each has one client of the chain for all its *)
(* calls, and viem shares work between them: a block number that was asked *)
(* for is kept for a while and handed out again, and who wants a receipt   *)
(* that is already on its way waits for that one.                          *)
(*                                                                         *)
(* Addresses, fees and calldata are abstracted to the kind of launch the   *)
(* transaction makes, and a pool id to what it was derived from.           *)
(***************************************************************************)
EXTENDS Integers

CONSTANTS
    Clients,         \* callers of the status endpoint, each polling
    Servers,         \* the processes behind the endpoint
    Busy,            \* those with other calls too, a bound
    Kinds,           \* what the transaction may turn out to be
    NoAnswer,
    ProviderFails,   \* calls of the provider may fail
    TxAttempts,      \* attempts at the create transaction (12 in the code)
    MaxBlock         \* bound on the height of the chain

\* Launches by the initializer they went through, a dynamic one with data
\* that does not decode too, and transactions that are no launch of the
\* Airlock.
Launches == {"static", "lockable", "dynamic", "odd_dynamic", "hooked",
             "hook_without_fee", "decay", "plain"}
NoLaunch == {"reverted", "eventless", "relayed", "other_function"}

ASSUME StatusAssumption ==
    /\ Kinds \subseteq Launches \union NoLaunch
    /\ TxAttempts \in Nat \ {0} /\ MaxBlock \in Nat
    /\ ProviderFails \in BOOLEAN
    /\ Busy \subseteq Servers

VARIABLES
    place,    \* where the transaction is
    kind,     \* what it does
    block,    \* the block it was mined in
    head,     \* the latest block
    reorged,  \* whether a mined transaction has returned to the pool
    kept,     \* per server: the block number that its client keeps
    wanted,   \* per server: the receipt on its way, or that there is none
    call      \* per client: its running call and the last answer

chain == <<place, kind, block, head, reorged>>
shared == <<kept, wanted>>
vars == <<chain, shared, call>>

\* Where a block number may be: no number is kept; no receipt is on its way;
\* the node has no receipt.
Nothing == -1
Missing == 0

LookupAttempts == 2

Ids == {"launch", "malformed", "unsupported_chain"}
Statuses == {"pending", "not_found", "reverted", "confirmed"}
Errors == {"invalid", "error_502", "error_500"}

ASSUME NoAnswerAssumption == NoAnswer \notin Statuses \union Errors

\* The id of a pool: the address of the event, or the hash of a pool key
\* with this fee and these hooks.
AddressId == [fee |-> "none", hooks |-> "poolOrHook"]
KeyId(fee, hooks) == [fee |-> fee, hooks |-> hooks]
NoPool == [fee |-> "none", hooks |-> "none"]

\* The pool that each launch made.
PoolOf(k) ==
    CASE k \in {"static", "lockable"} -> AddressId
      [] k \in {"dynamic", "odd_dynamic"} -> KeyId("decoded", "poolOrHook")
      [] k = "hooked" -> KeyId("dynamic", "initializer")
      [] k = "hook_without_fee" -> KeyId("decoded", "initializer")
      [] k = "decay" -> KeyId("dynamic", "HOOK")
      [] k = "plain" -> KeyId("decoded", "HOOK")
      [] OTHER -> NoPool

Plain(status) == [status |-> status, confirmations |-> 0, pool |-> NoPool]

\* A client without a call: its last answer, the server it came from, and
\* whether the call behind it asked the node itself, with neither the receipt
\* of another call nor a kept block number.
Answered(what, server, own) ==
    [pc |-> "idle", tries |-> 0, mined |-> 0, depth |-> 0, server |-> NoAnswer,
     asked |-> FALSE, answer |-> what, from |-> server, own |-> own]

Init ==
    /\ place = "nowhere" /\ kind \in Kinds
    /\ block = 0 /\ head = 0 /\ reorged = FALSE
    /\ kept = [s \in Servers |-> Nothing] /\ wanted = [s \in Servers |-> Nothing]
    /\ call = [c \in Clients |-> Answered(Plain(NoAnswer), NoAnswer, FALSE)]

Goto(c, where) == call' = [call EXCEPT ![c].pc = where, ![c].tries = 0]

Answer(c, what, asked) ==
    call' = [call EXCEPT ![c] = Answered(what, call[c].server, asked)]

Reply(c, what) == Answer(c, what, call[c].asked)

\* An error says nothing of the launch, whoever it comes from.
Refuse(c, error) == call' = [call EXCEPT ![c] = Answered(Plain(error), NoAnswer, FALSE)]

Confirmed(c, pool) ==
    Reply(c, [status |-> "confirmed", confirmations |-> call[c].depth, pool |-> pool])

-----------------------------------------------------------------------------
(* One call *)

\* parseLaunchId() and the registry's lookup of the chain, by the server that
\* the call came to.
Ask(c) ==
    /\ call[c].pc = "idle"
    /\ \/ \E s \in Servers :
            call' = [call EXCEPT ![c].pc = "receipt", ![c].server = s]
       \/ Refuse(c, "invalid")
    /\ UNCHANGED shared

\* What a request for the receipt finds.
Seen(s) ==
    IF wanted[s] # Nothing THEN wanted[s]
    ELSE IF place = "mined" THEN block ELSE Missing

Found(c, mined) ==
    call' = [call EXCEPT ![c].pc = IF mined = Missing THEN "lookup" ELSE "head",
                         ![c].mined = mined, ![c].asked = (wanted[call[c].server] = Nothing)]

\* Mutant: any failure is taken for a missing receipt.
ReceiptFailsSoft(c) ==
    /\ call[c].pc = "receipt"
    /\ \/ Found(c, Seen(call[c].server))
       \/ ProviderFails /\ Found(c, Missing)
    /\ UNCHANGED shared

\* A node without the receipt says so; any other failure is a 502.
Receipt(c) ==
    /\ call[c].pc = "receipt"
    /\ \/ Found(c, Seen(call[c].server))
       \/ ProviderFails /\ Refuse(c, "error_502")
    /\ UNCHANGED shared

Again(c) == call' = [call EXCEPT ![c].tries = @ + 1]

\* getTransactionWithRetry() with two attempts: whatever made both fail, the
\* transaction was not found.
Lookup(c) ==
    /\ call[c].pc = "lookup"
    /\ \/ place # "nowhere" /\ Reply(c, Plain("pending"))
       \/ /\ place = "nowhere" \/ ProviderFails
          /\ call[c].tries + 1 < LookupAttempts /\ Again(c)
       \/ /\ call[c].tries + 1 = LookupAttempts
          /\ place = "nowhere" \/ ProviderFails
          /\ Reply(c, Plain("not_found"))
    /\ UNCHANGED shared

\* viem's getBlockNumber(): the number that the client keeps, or the chain's.
Latest(c) ==
    LET s == call[c].server IN IF kept[s] # Nothing THEN kept[s] ELSE head

\* Mutant: the block of the transaction itself does not count.
DepthBehind(c) == Latest(c) - call[c].mined

Depth(c) == Latest(c) - call[c].mined + 1

AskedHead(c) == call[c].asked /\ kept[call[c].server] = Nothing

\* getBlockNumber() is not guarded; then the status and the logs of the
\* receipt are looked at.
Head(c) ==
    /\ call[c].pc = "head"
    /\ \/ /\ kind = "reverted"
          /\ Answer(c, [Plain("reverted") EXCEPT !.confirmations = Depth(c)], AskedHead(c))
       \/ kind = "eventless" /\ Refuse(c, "error_502")
       \/ /\ kind \notin {"reverted", "eventless"}
          /\ call' = [call EXCEPT ![c].pc = "create", ![c].depth = Depth(c),
                                  ![c].asked = AskedHead(c)]
    /\ kept' = [kept EXCEPT ![call[c].server] = Latest(c)]
    /\ UNCHANGED wanted

HeadFails(c) ==
    /\ call[c].pc = "head" /\ ProviderFails /\ kept[call[c].server] = Nothing
    /\ Refuse(c, "error_500")
    /\ UNCHANGED shared

\* Mutant: a hook of the launch leaves the fee of its pool alone.
HookFeeAsWritten(k) == "decoded"

\* Pools whose id needs no more than the create call and the event.
HookFee(k) == IF k = "hook_without_fee" THEN "decoded" ELSE "dynamic"

\* resolvePoolIdFromCreateTx(): the create call by hash, decoded, then by
\* initializer.
Decoded(c) ==
    \/ kind = "other_function" /\ Refuse(c, "error_502")
    \/ kind = "relayed" /\ Refuse(c, "error_500")
    \/ kind \in {"static", "lockable"} /\ Confirmed(c, AddressId)
    \/ kind = "dynamic" /\ Confirmed(c, KeyId("decoded", "poolOrHook"))
    \/ kind = "odd_dynamic" /\ Goto(c, "sdk")
    \/ /\ kind \in {"hooked", "hook_without_fee"}
       /\ Confirmed(c, KeyId(HookFee(kind), "initializer"))
    \/ kind \in {"decay", "plain"} /\ Goto(c, "hook")

\* Mutant: the create transaction is looked for until it turns up.
CreateForever(c) ==
    /\ call[c].pc = "create"
    /\ \/ place # "nowhere" /\ Decoded(c)
       \/ (place = "nowhere" \/ ProviderFails) /\ UNCHANGED call
    /\ UNCHANGED shared

Create(c) ==
    /\ call[c].pc = "create"
    /\ \/ place # "nowhere" /\ Decoded(c)
       \/ /\ place = "nowhere" \/ ProviderFails
          /\ IF call[c].tries + 1 < TxAttempts THEN Again(c)
             ELSE Refuse(c, "error_502")
    /\ UNCHANGED shared

\* The SDK's view of a dynamic auction; failing that, the event's address.
Sdk(c) ==
    /\ call[c].pc = "sdk"
    /\ \/ Confirmed(c, KeyId("decoded", "poolOrHook"))
       \/ /\ ProviderFails
          /\ Reply(c, [status |-> "confirmed", confirmations |-> call[c].depth,
                        pool |-> AddressId])
    /\ UNCHANGED shared

\* The HOOK of the initializer.
Hook(c) ==
    /\ call[c].pc = "hook"
    /\ \/ Confirmed(c, KeyId(IF kind = "decay" THEN "dynamic" ELSE "decoded", "HOOK"))
       \/ ProviderFails /\ Refuse(c, "error_500")
    /\ UNCHANGED shared

Work(c) ==
    /\ \/ Receipt(c) \/ Lookup(c) \/ Head(c) \/ HeadFails(c)
       \/ Create(c) \/ Sdk(c) \/ Hook(c)
    /\ UNCHANGED chain

-----------------------------------------------------------------------------
(* What else a server's client of the chain is used for *)

\* GET /ready or the status of another launch gets the block number.
OthersReadHead(s) ==
    /\ s \in Busy /\ kept[s] = Nothing
    /\ kept' = [kept EXCEPT ![s] = head]
    /\ UNCHANGED wanted

\* The time for which it is kept is over.
HeadExpires(s) ==
    /\ kept[s] # Nothing
    /\ kept' = [kept EXCEPT ![s] = Nothing]
    /\ UNCHANGED wanted

\* The node answers another call's request for this receipt; then the answer
\* arrives.
OthersWantReceipt(s) ==
    /\ s \in Busy /\ wanted[s] = Nothing
    /\ wanted' = [wanted EXCEPT ![s] = Seen(s)]
    /\ UNCHANGED kept

ReceiptArrives(s) ==
    /\ wanted[s] # Nothing
    /\ wanted' = [wanted EXCEPT ![s] = Nothing]
    /\ UNCHANGED kept

Others(s) ==
    /\ OthersReadHead(s) \/ HeadExpires(s) \/ OthersWantReceipt(s) \/ ReceiptArrives(s)
    /\ UNCHANGED <<chain, call>>

-----------------------------------------------------------------------------
(* The chain *)

Submit ==
    /\ place = "nowhere" /\ place' = "pool"
    /\ UNCHANGED <<kind, block, head, reorged, shared, call>>

\* The node forgets a transaction that nobody mined.
Drop ==
    /\ place = "pool" /\ place' = "nowhere"
    /\ UNCHANGED <<kind, block, head, reorged, shared, call>>

Grow ==
    /\ head < MaxBlock
    /\ head' = head + 1
    /\ \/ place = "pool" /\ place' = "mined" /\ block' = head + 1
       \/ UNCHANGED <<place, block>>
    /\ UNCHANGED <<kind, reorged, shared, call>>

\* A longer chain that does not have the transaction yet.
Reorg ==
    /\ place = "mined" /\ head < MaxBlock
    /\ head' = head + 1
    /\ place' = "pool" /\ reorged' = TRUE
    /\ UNCHANGED <<kind, block, shared, call>>

Next ==
    \/ Submit \/ Drop \/ Grow \/ Reorg
    \/ \E s \in Servers : Others(s)
    \/ \E c \in Clients : (Ask(c) /\ UNCHANGED chain) \/ Work(c)

\* Every call of the provider ends; nothing is asked of the chain.
Fairness == \A c \in Clients : WF_vars(Work(c))

Spec == Init /\ [][Next]_vars /\ Fairness

-----------------------------------------------------------------------------
(* Properties *)

Final == {"reverted", "confirmed"}

\* What a client was told of a mined transaction fits the chain it reads
\* later, as long as the chain only grows: the transaction is there, at least
\* that deep, and confirmed says that it made a launch.  Counted with a block
\* number that was asked for after the receipt, its confirmations are positive,
\* even when the chain is reorganised between the reads of one call; a kept
\* number may be older than the transaction's block.
AnswersFitTheChain ==
    \A c \in Clients :
        LET said == call[c].answer IN
        said.status \in Final =>
            /\ call[c].own => said.confirmations >= 1
            /\ ~reorged => /\ place = "mined"
                           /\ said.confirmations <= head - block + 1
                           /\ said.status = "confirmed" <=> kind \in Launches

\* A confirmed launch is reported with the id of the pool it made, whatever
\* initializer it went through.  The last fallback of a dynamic launch, for
\* call data that does not decode, names no pool.
ConfirmedNamesItsPool ==
    \A c \in Clients :
        kind # "odd_dynamic" /\ call[c].answer.status = "confirmed" => call[c].answer.pool = PoolOf(kind)

\* Unless the chain is reorganised, a client that polls never sees a launch go
\* back, from confirmed or reverted to pending or not found, or to fewer
\* confirmations, whatever the server's client of the chain was used for in
\* between.  An answer of another server may go back only if it was put
\* together from what others had asked there.
StatusGoesForward ==
    [][\A c \in Clients :
         LET before == call[c].answer
             after == call'[c].answer IN
         /\ ~reorged /\ before.status \in Final
         /\ call'[c].from = call[c].from \/ call'[c].own
         => /\ after.status \notin {"pending", "not_found"}
            /\ after.status \in Final
               => after.status = before.status
                  /\ after.confirmations >= before.confirmations]_vars

\* Every call is answered: its retries end.
CallsEnd == \A c \in Clients : call[c].pc = "receipt" ~> call[c].pc = "idle"

=============================================================================
