------------------------- MODULE LaunchPipelineProofs -------------------------
(***************************************************************************)
(* Proofs about LaunchPipeline, for any number of requests, keys and salts, *)
(* any deployments, and any bodies that the schema describes; and about     *)
(* AuctionTerms, what the pipeline's auction services make of such a body.  *)
(***************************************************************************)
EXTENDS LaunchPipeline, AuctionTerms, FieldsProofs, FiniteSetTheorems, TLAPS

USE DEF world

-----------------------------------------------------------------------------
(* The rules of each family, by their place *)

LEMMA StaticPlaces ==
    ASSUME NEW i, i.auction = "static"
    PROVE  /\ Len(Rules(i)) = 11
           /\ Rules(i)[1] = "parse" /\ Rules(i)[2] = "limit_end" /\ Rules(i)[3] = "chain"
           /\ Rules(i)[4] = "auction" /\ Rules(i)[5] = "sale" /\ Rules(i)[6] = "governance"
           /\ Rules(i)[7] = "owner" /\ Rules(i)[8] = "numeraire" /\ Rules(i)[9] = "price"
           /\ Rules(i)[10] = "fees" /\ Rules(i)[11] = "share"
BY DEF Rules, FamilyRules, StaticRules

LEMMA MulticurvePlaces ==
    ASSUME NEW i, i.auction = "multicurve"
    PROVE  /\ Len(Rules(i)) = 11
           /\ Rules(i)[1] = "parse" /\ Rules(i)[2] = "limit_end" /\ Rules(i)[3] = "chain"
           /\ Rules(i)[4] = "auction" /\ Rules(i)[5] = "sale" /\ Rules(i)[6] = "governance"
           /\ Rules(i)[7] = "owner" /\ Rules(i)[8] = "numeraire" /\ Rules(i)[9] = "price"
           /\ Rules(i)[10] = "fees" /\ Rules(i)[11] = "curves"
BY DEF Rules, FamilyRules, MulticurveRules

LEMMA DynamicV2Places ==
    ASSUME NEW i, i.auction = "dynamic", i.migration = "uniswapV2"
    PROVE  /\ Len(Rules(i)) = 11
           /\ Rules(i)[1] = "parse" /\ Rules(i)[2] = "limit_end" /\ Rules(i)[3] = "chain"
           /\ Rules(i)[4] = "auction" /\ Rules(i)[5] = "v2_fees" /\ Rules(i)[6] = "sale"
           /\ Rules(i)[7] = "governance" /\ Rules(i)[8] = "numeraire" /\ Rules(i)[9] = "price"
           /\ Rules(i)[10] = "migration" /\ Rules(i)[11] = "proceeds"
BY DEF Rules, FamilyRules, DynamicRules

LEMMA DynamicV4Places ==
    ASSUME NEW i, i.auction = "dynamic", i.migration # "uniswapV2"
    PROVE  /\ Len(Rules(i)) = 13
           /\ Rules(i)[1] = "parse" /\ Rules(i)[2] = "limit_end" /\ Rules(i)[3] = "chain"
           /\ Rules(i)[4] = "auction" /\ Rules(i)[5] = "v2_fees" /\ Rules(i)[6] = "sale"
           /\ Rules(i)[7] = "governance" /\ Rules(i)[8] = "numeraire" /\ Rules(i)[9] = "price"
           /\ Rules(i)[10] = "owner" /\ Rules(i)[11] = "fees"
           /\ Rules(i)[12] = "migration" /\ Rules(i)[13] = "proceeds"
BY DEF Rules, FamilyRules, DynamicRules

LEMMA BodyFamilies ==
    ASSUME NEW i \in Body
    PROVE  \/ i.auction = "static" \/ i.auction = "multicurve"
           \/ i.auction = "dynamic" /\ i.migration = "uniswapV2"
           \/ i.auction = "dynamic" /\ i.migration # "uniswapV2"
BY DEF Body

\* In every family the policies come before the calls.
LEMMA RuleOrder ==
    ASSUME NEW i \in Body, NEW n \in 1..Len(Rules(i))
    PROVE  /\ Rules(i)[n] \in RuleNames
           /\ Rules(i)[n] \in {"auction", "governance"} => n <= 7
           /\ Remote(Rules(i)[n], i) => n >= 7
<1>1. CASE i.auction = "static"
  <2>1. n \in 1..11 /\ Len(Rules(i)) = 11
    BY <1>1, StaticPlaces
  <2>2. \/ (n = 1 /\ Rules(i)[n] = "parse") \/ (n = 2 /\ Rules(i)[n] = "limit_end")
        \/ (n = 3 /\ Rules(i)[n] = "chain") \/ (n = 4 /\ Rules(i)[n] = "auction")
        \/ (n = 5 /\ Rules(i)[n] = "sale") \/ (n = 6 /\ Rules(i)[n] = "governance")
        \/ (n = 7 /\ Rules(i)[n] = "owner") \/ (n = 8 /\ Rules(i)[n] = "numeraire")
        \/ (n = 9 /\ Rules(i)[n] = "price") \/ (n = 10 /\ Rules(i)[n] = "fees")
        \/ (n = 11 /\ Rules(i)[n] = "share")
    BY <1>1, <2>1, StaticPlaces
  <2>3. Rules(i)[n] \in RuleNames
    BY <2>2 DEF RuleNames
  <2>4. Rules(i)[n] \in {"auction", "governance"} => n <= 7
    BY <2>2
  <2>5. Remote(Rules(i)[n], i) => n >= 7
    BY <2>2 DEF Remote
  <2> QED
    BY <2>3, <2>4, <2>5
<1>2. CASE i.auction = "multicurve"
  <2>1. n \in 1..11 /\ Len(Rules(i)) = 11
    BY <1>2, MulticurvePlaces
  <2>2. \/ (n = 1 /\ Rules(i)[n] = "parse") \/ (n = 2 /\ Rules(i)[n] = "limit_end")
        \/ (n = 3 /\ Rules(i)[n] = "chain") \/ (n = 4 /\ Rules(i)[n] = "auction")
        \/ (n = 5 /\ Rules(i)[n] = "sale") \/ (n = 6 /\ Rules(i)[n] = "governance")
        \/ (n = 7 /\ Rules(i)[n] = "owner") \/ (n = 8 /\ Rules(i)[n] = "numeraire")
        \/ (n = 9 /\ Rules(i)[n] = "price") \/ (n = 10 /\ Rules(i)[n] = "fees")
        \/ (n = 11 /\ Rules(i)[n] = "curves")
    BY <1>2, <2>1, MulticurvePlaces
  <2>3. Rules(i)[n] \in RuleNames
    BY <2>2 DEF RuleNames
  <2>4. Rules(i)[n] \in {"auction", "governance"} => n <= 7
    BY <2>2
  <2>5. Remote(Rules(i)[n], i) => n >= 7
    BY <2>2 DEF Remote
  <2> QED
    BY <2>3, <2>4, <2>5
<1>3. CASE i.auction = "dynamic" /\ i.migration = "uniswapV2"
  <2>1. n \in 1..11 /\ Len(Rules(i)) = 11
    BY <1>3, DynamicV2Places
  <2>2. \/ (n = 1 /\ Rules(i)[n] = "parse") \/ (n = 2 /\ Rules(i)[n] = "limit_end")
        \/ (n = 3 /\ Rules(i)[n] = "chain") \/ (n = 4 /\ Rules(i)[n] = "auction")
        \/ (n = 5 /\ Rules(i)[n] = "v2_fees") \/ (n = 6 /\ Rules(i)[n] = "sale")
        \/ (n = 7 /\ Rules(i)[n] = "governance") \/ (n = 8 /\ Rules(i)[n] = "numeraire")
        \/ (n = 9 /\ Rules(i)[n] = "price") \/ (n = 10 /\ Rules(i)[n] = "migration")
        \/ (n = 11 /\ Rules(i)[n] = "proceeds")
    BY <1>3, <2>1, DynamicV2Places
  <2>3. Rules(i)[n] \in RuleNames
    BY <2>2 DEF RuleNames
  <2>4. Rules(i)[n] \in {"auction", "governance"} => n <= 7
    BY <2>2
  <2>5. Remote(Rules(i)[n], i) => n >= 7
    BY <2>2 DEF Remote
  <2> QED
    BY <2>3, <2>4, <2>5
<1>4. CASE i.auction = "dynamic" /\ i.migration # "uniswapV2"
  <2>1. n \in 1..13 /\ Len(Rules(i)) = 13
    BY <1>4, DynamicV4Places
  <2>2. \/ (n = 1 /\ Rules(i)[n] = "parse") \/ (n = 2 /\ Rules(i)[n] = "limit_end")
        \/ (n = 3 /\ Rules(i)[n] = "chain") \/ (n = 4 /\ Rules(i)[n] = "auction")
        \/ (n = 5 /\ Rules(i)[n] = "v2_fees") \/ (n = 6 /\ Rules(i)[n] = "sale")
        \/ (n = 7 /\ Rules(i)[n] = "governance") \/ (n = 8 /\ Rules(i)[n] = "numeraire")
        \/ (n = 9 /\ Rules(i)[n] = "price") \/ (n = 10 /\ Rules(i)[n] = "owner")
        \/ (n = 11 /\ Rules(i)[n] = "fees") \/ (n = 12 /\ Rules(i)[n] = "migration")
        \/ (n = 13 /\ Rules(i)[n] = "proceeds")
    BY <1>4, <2>1, DynamicV4Places
  <2>3. Rules(i)[n] \in RuleNames
    BY <2>2 DEF RuleNames
  <2>4. Rules(i)[n] \in {"auction", "governance"} => n <= 7
    BY <2>2
  <2>5. Remote(Rules(i)[n], i) => n >= 7
    BY <2>2 DEF Remote
  <2> QED
    BY <2>3, <2>4, <2>5
<1> QED
  BY <1>1, <1>2, <1>3, <1>4, BodyFamilies

LEMMA NumberOfRules == ASSUME NEW i \in Body PROVE Len(Rules(i)) \in {11, 13}
BY BodyFamilies, StaticPlaces, MulticurvePlaces, DynamicV2Places, DynamicV4Places

\* What a rule that is kept says.
LEMMA WhatHolds ==
    ASSUME NEW i
    PROVE  /\ Holds("auction", i) => i.auction \in config.auctions
           /\ Holds("governance", i) => GovernanceAllowed(i.governance)
           /\ Holds("migration", i) => Mode(i) \in config.migrations
           /\ Holds("numeraire", i) => i.numeraire = "given" \/ config.hasNumeraire
           /\ Holds("price", i) => i.price = "given" \/ config.pricing
           /\ \A flaw \in {"parse", "limit_end", "chain", "sale", "fees", "curves"} :
                Holds(flaw, i) => flaw \notin i.flaws
BY DEF Holds, AuctionSupported

\* A body that keeps all rules of its family is permitted.
LEMMA RulesPermit ==
    ASSUME NEW i \in Body, \A n \in 1..Len(Rules(i)) : Holds(Rules(i)[n], i)
    PROVE  Permitted(i)
<1>1. CASE i.auction = "static"
  <2>0. \A n \in 1..11 : Holds(Rules(i)[n], i)
    BY <1>1, StaticPlaces
  <2>1. /\ Holds("parse", i) /\ Holds("limit_end", i) /\ Holds("chain", i)
        /\ Holds("auction", i) /\ Holds("sale", i) /\ Holds("governance", i)
        /\ Holds("numeraire", i) /\ Holds("price", i) /\ Holds("fees", i)
    BY <1>1, <2>0, StaticPlaces
  <2> QED
    BY <1>1, <2>1, WhatHolds DEF Permitted, GovernanceAllowed
<1>2. CASE i.auction = "multicurve"
  <2>0. \A n \in 1..11 : Holds(Rules(i)[n], i)
    BY <1>2, MulticurvePlaces
  <2>1. /\ Holds("parse", i) /\ Holds("limit_end", i) /\ Holds("chain", i)
        /\ Holds("auction", i) /\ Holds("sale", i) /\ Holds("governance", i)
        /\ Holds("numeraire", i) /\ Holds("price", i) /\ Holds("fees", i)
        /\ Holds("curves", i)
    BY <1>2, <2>0, MulticurvePlaces
  <2>2. i.flaws \intersect {"parse", "limit_end", "chain", "sale"} = {}
    BY <2>1, WhatHolds
  <2>3. /\ i.auction \in config.auctions
        /\ i.governance \in config.governanceModes
        /\ i.governance = "noOp" \/ config.governanceEnabled
    BY <2>1, WhatHolds DEF GovernanceAllowed
  <2>4. /\ config.hasNumeraire \/ i.numeraire = "given"
        /\ config.pricing \/ i.price = "given"
    BY <2>1, WhatHolds
  <2>5. "fees" \notin i.flaws /\ "curves" \notin i.flaws
    BY <2>1, WhatHolds
  <2> QED
    BY <1>2, <2>2, <2>3, <2>4, <2>5 DEF Permitted
<1>3. CASE i.auction = "dynamic" /\ i.migration = "uniswapV2"
  <2>0. \A n \in 1..11 : Holds(Rules(i)[n], i)
    BY <1>3, DynamicV2Places
  <2>1. /\ Holds("parse", i) /\ Holds("limit_end", i) /\ Holds("chain", i)
        /\ Holds("auction", i) /\ Holds("sale", i) /\ Holds("governance", i)
        /\ Holds("numeraire", i) /\ Holds("price", i) /\ Holds("migration", i)
    BY <1>3, <2>0, DynamicV2Places
  <2>2. i.flaws \intersect {"parse", "limit_end", "chain", "sale"} = {}
    BY <2>1, WhatHolds
  <2>3. /\ i.auction \in config.auctions
        /\ i.governance \in config.governanceModes
        /\ i.governance = "noOp" \/ config.governanceEnabled
    BY <2>1, WhatHolds DEF GovernanceAllowed
  <2>4. /\ config.hasNumeraire \/ i.numeraire = "given"
        /\ config.pricing \/ i.price = "given"
    BY <2>1, WhatHolds
  <2>5. Mode(i) \in config.migrations
    BY <2>1, WhatHolds
  <2> QED
    BY <1>3, <2>2, <2>3, <2>4, <2>5 DEF Permitted
<1>4. CASE i.auction = "dynamic" /\ i.migration # "uniswapV2"
  <2>0. \A n \in 1..13 : Holds(Rules(i)[n], i)
    BY <1>4, DynamicV4Places
  <2>1. /\ Holds("parse", i) /\ Holds("limit_end", i) /\ Holds("chain", i)
        /\ Holds("auction", i) /\ Holds("sale", i) /\ Holds("governance", i)
        /\ Holds("numeraire", i) /\ Holds("price", i) /\ Holds("migration", i)
        /\ Holds("fees", i)
    BY <1>4, <2>0, DynamicV4Places
  <2>2. i.flaws \intersect {"parse", "limit_end", "chain", "sale"} = {}
    BY <2>1, WhatHolds
  <2>3. /\ i.auction \in config.auctions
        /\ i.governance \in config.governanceModes
        /\ i.governance = "noOp" \/ config.governanceEnabled
    BY <2>1, WhatHolds DEF GovernanceAllowed
  <2>4. /\ config.hasNumeraire \/ i.numeraire = "given"
        /\ config.pricing \/ i.price = "given"
    BY <2>1, WhatHolds
  <2>5. Mode(i) \in config.migrations /\ "fees" \notin i.flaws
    BY <2>1, WhatHolds
  <2> QED
    BY <1>4, <2>2, <2>3, <2>4, <2>5 DEF Permitted
<1> QED
  BY <1>1, <1>2, <1>3, <1>4, BodyFamilies

-----------------------------------------------------------------------------
(* The invariant *)

Built == {"sdk_simulate", "translate", "simulate", "submit"}
Working == {"rules"} \union Built
TxStates == {"none", "late", "pending", "mined", "reverted", "dropped"}
Sent == {"pending", "mined", "reverted", "dropped"}

Progress ==
    [pc : Working \union {"idle", "done"}, input : Body \union {None}, rule : Nat \ {0},
     called : BOOLEAN, params : {Params(i) : i \in Body} \union {None},
     salt : Salts \union {None}, before : SUBSET Requests, answer : Answers \union {None}]

TypeOK ==
    /\ config \in Deployments
    /\ foreign \in SUBSET Salts
    /\ req \in [Requests -> Progress]
    /\ key \in [Keys -> {"free", "busy", "done", "doubt"}]
    /\ tx \in [Requests -> TxStates]

\* The rules of a body before place n are kept.
KeptBefore(i, n) == \A m \in 1..Len(Rules(i)) : m < n => Holds(Rules(i)[m], i)

\* What the progress c of a request says of its body, and of its transaction
\* in state t.
ProgressOk(c, t) ==
    /\ c.pc # "done" => t = "none" /\ c.answer = None
    /\ c.answer \notin {"ok", "in_doubt"} => t = "none"
    /\ c.pc = "idle" => c.rule = 1 /\ ~c.called
    /\ c.pc = "rules" =>
         c.input \in Body /\ KeptBefore(c.input, c.rule) /\ (c.called => c.rule >= 8)
    /\ c.pc \in Built \/ t # "none" =>
         c.input \in Body /\ Permitted(c.input) /\ c.params = Params(c.input)
    /\ c.answer \in {"auction", "governance"} => ~c.called
    /\ c.before # {} => c.pc \in {"submit", "done"}

ProgressInv ==
    \A r \in Requests, c \in Progress, t \in TxStates :
        c = req[r] /\ t = tx[r] => ProgressOk(c, t)

\* What the store knows of a key, and the one request that works under it.
KeyInv ==
    \A r \in Requests : KeyOf[r] # None =>
        /\ req[r].pc \in Working => key[KeyOf[r]] = "busy"
        /\ tx[r] # "none" => key[KeyOf[r]] \in {"done", "doubt"}
        /\ \A q \in Requests : KeyOf[q] = KeyOf[r] =>
             /\ req[q].pc \in Working /\ req[r].pc \in Working => q = r
             /\ tx[q] # "none" /\ tx[r] # "none" => q = r

\* What a request saw in the pending state is not its own token.
BeforeInv ==
    \A r, q \in Requests : q \in req[r].before =>
        tx[q] \in Sent /\ (tx[q] \in Live => req[r].salt # req[q].salt)

IInv == TypeOK /\ ProgressInv /\ KeyInv /\ BeforeInv

-----------------------------------------------------------------------------
(* The steps of a request that is being worked on *)

\* Request r moves from progress c to d and its transaction is then in state s:
\* it goes on, and touches nothing else, or it ends.
Effect(r, c, d, s) ==
    /\ UNCHANGED world
    /\ req' = [req EXCEPT ![r] = d] /\ tx' = [tx EXCEPT ![r] = s]
    /\ \/ d.pc \in Working /\ key' = key /\ s = "none"
       \/ /\ d.pc = "done" /\ d.answer \in Answers
          /\ key' = IF KeyOf[r] = None THEN key
                    ELSE [key EXCEPT ![KeyOf[r]] = Outcome(d.answer)]
          /\ s # "none" => d.answer \in {"ok", "in_doubt"} /\ s \in {"pending", "late"}
    /\ ProgressOk(d, s)
    /\ d.salt = c.salt \/ c.pc = "sdk_simulate"
    /\ \/ d.before = c.before
       \/ /\ d.salt = c.salt /\ ~Occupied(c.salt)
          /\ d.before = {q \in Requests : tx[q] \in Live}

Moves(r, c) == \E d \in Progress, s \in TxStates : Effect(r, c, d, s)

LEMMA AnswerMoves ==
    ASSUME TypeOK, NEW r \in Requests, NEW c \in Progress, c = req[r], c.pc \in Working,
           ProgressOk(c, "none"), NEW kind \in Answers, NEW s \in TxStates,
           Answer(r, kind), tx' = [tx EXCEPT ![r] = s], UNCHANGED world,
           kind \in {"auction", "governance"} => ~c.called,
           s # "none" => /\ c.pc = "submit" /\ kind \in {"ok", "in_doubt"}
                         /\ s \in {"pending", "late"}
    PROVE  Moves(r, c)
<1> DEFINE d == [c EXCEPT !.pc = "done", !.answer = kind]
<1>1. /\ d \in Progress /\ d.pc = "done" /\ d.answer = kind /\ d.input = c.input
      /\ d.called = c.called /\ d.params = c.params /\ d.salt = c.salt
      /\ d.before = c.before
  BY DEF Progress
<1>2. req' = [req EXCEPT ![r] = d]
  BY DEF Answer, TypeOK
<1>3. ProgressOk(d, s)
  <2>1. s # "none" => c.pc \in Built
    BY DEF Built
  <2>2. d.answer \notin {"ok", "in_doubt"} => s = "none"
    BY <1>1
  <2>3. s # "none" =>
          d.input \in Body /\ Permitted(d.input) /\ d.params = Params(d.input)
    BY <1>1, <2>1 DEF ProgressOk
  <2>4. d.answer \in {"auction", "governance"} => ~d.called
    BY <1>1
  <2> QED
    BY <1>1, <2>2, <2>3, <2>4 DEF ProgressOk, Built
<1>4. Effect(r, c, d, s)
  BY <1>1, <1>2, <1>3 DEF Effect, Answer
<1> QED
  BY <1>1, <1>4 DEF Moves

LEMMA RefuseMoves ==
    ASSUME TypeOK, NEW r \in Requests, NEW c \in Progress, c = req[r], c.pc \in Working,
           ProgressOk(c, "none"), tx[r] = "none", NEW kind \in Answers, Refuse(r, kind),
           kind \in {"auction", "governance"} => ~c.called
    PROVE  Moves(r, c)
<1>1. tx' = [tx EXCEPT ![r] = "none"] /\ Answer(r, kind) /\ UNCHANGED world
  BY DEF Refuse, TypeOK
<1> QED
  BY <1>1, AnswerMoves DEF TxStates

\* What there is to show for a request that has no answer yet.
LEMMA WorkingOk ==
    ASSUME NEW d, d.pc \in Working, d.answer = None,
           d.before # {} => d.pc = "submit",
           d.pc = "rules" =>
             d.input \in Body /\ KeptBefore(d.input, d.rule) /\ (d.called => d.rule >= 8),
           d.pc \in Built =>
             d.input \in Body /\ Permitted(d.input) /\ d.params = Params(d.input)
    PROVE  ProgressOk(d, "none")
<1>1. d.pc # "done" /\ d.pc # "idle"
  BY DEF Working, Built
<1>2. d.answer \notin {"ok", "in_doubt"} /\ d.answer \notin {"auction", "governance"}
  BY AnswersAssumption DEF Answers, RuleNames
<1> QED
  BY <1>1, <1>2 DEF ProgressOk

\* The request goes on with progress d.
LEMMA GoesOn ==
    ASSUME TypeOK, NEW r \in Requests, NEW c \in Progress, c = req[r], tx[r] = "none",
           NEW d \in Progress, req' = [req EXCEPT ![r] = d], UNCHANGED <<key, tx, world>>,
           d.pc \in Working, ProgressOk(d, "none"),
           d.salt = c.salt \/ c.pc = "sdk_simulate",
           \/ d.before = c.before
           \/ /\ d.salt = c.salt /\ ~Occupied(c.salt)
              /\ d.before = {q \in Requests : tx[q] \in Live}
    PROVE  Moves(r, c)
<1>1. tx' = [tx EXCEPT ![r] = "none"]
  BY DEF TypeOK
<1>2. Effect(r, c, d, "none")
  BY <1>1 DEF Effect
<1> QED
  BY <1>2 DEF Moves, TxStates

LEMMA RuleMoves ==
    ASSUME TypeOK, NEW r \in Requests, NEW c \in Progress, c = req[r], tx[r] = "none",
           ProgressOk(c, "none"), Rule(r)
    PROVE  Moves(r, c)
<1>1. /\ c.pc = "rules" /\ c.input \in Body /\ c.rule \in Nat \ {0}
      /\ c.pc \in Working /\ c.pc # "done"
  BY DEF Rule, Progress, Working, ProgressOk
<1> DEFINE i == c.input
           rule == Rules(i)[c.rule]
<1>2. /\ c.rule \in 1..Len(Rules(i)) /\ rule \in RuleNames
      /\ rule \in {"auction", "governance"} => ~c.called
      /\ Remote(rule, i) => c.rule >= 7
  <2>1. c.rule \in 1..Len(Rules(i))
    BY <1>1, NumberOfRules DEF Rule
  <2> QED
    BY <1>1, <2>1, RuleOrder DEF ProgressOk
<1>3. rule \in Answers /\ "upstream" \in Answers
  BY <1>2 DEF Answers, RuleNames
<1>4. CASE Holds(rule, i) /\ UNCHANGED <<key, tx, world>> /\
           req' = [req EXCEPT ![r].rule = @ + 1, ![r].called = @ \/ Remote(rule, i)]
  <2>0. PICK b \in BOOLEAN : b = (c.called \/ Remote(rule, i))
    OBVIOUS
  <2>9. PICK n \in Nat \ {0} : n = c.rule + 1
    BY <1>1
  <2> DEFINE d == [c EXCEPT !.rule = n, !.called = b]
  <2>1. /\ d \in Progress /\ d.pc = "rules" /\ d.answer = c.answer /\ d.input = c.input
        /\ d.rule = n /\ d.called = b
        /\ d.salt = c.salt /\ d.before = c.before
    BY <1>1 DEF Progress
  <2>2. req' = [req EXCEPT ![r] = d]
    BY <1>4, <2>0, <2>9 DEF TypeOK
  <2>3. KeptBefore(i, d.rule)
    BY <1>1, <1>2, <1>4, <2>1, <2>9, NumberOfRules DEF KeptBefore, ProgressOk
  <2>4. d.called => d.rule >= 8
    <3>1. c.called => c.rule >= 8
      BY <1>1 DEF ProgressOk
    <3>2. c.called => c.rule >= 7
      BY <1>1, <3>1
    <3>3. b => c.called \/ Remote(rule, i)
      BY <2>0
    <3>4. Remote(rule, i) => c.rule >= 7
      BY <1>2
    <3>5. b => c.rule >= 7
      BY <3>2, <3>3, <3>4
    <3> QED
      BY <1>1, <2>1, <2>9, <3>5
  <2>5. ProgressOk(d, "none")
    <3>1. c.answer = None /\ c.before = {}
      BY <1>1 DEF ProgressOk
    <3>2. d.pc \notin Built
      BY <2>1 DEF Built
    <3> QED
      BY <1>1, <2>1, <2>3, <2>4, <3>1, <3>2, WorkingOk
  <2>6. d.pc \in Working /\ UNCHANGED <<key, tx, world>>
    BY <1>4, <2>1 DEF Working
  <2> QED
    BY <2>1, <2>2, <2>5, <2>6, GoesOn
<1>5. CASE Refuse(r, rule)
  BY <1>1, <1>2, <1>3, <1>5, RefuseMoves
<1>6. CASE Refuse(r, "upstream")
  BY <1>1, <1>3, <1>6, RefuseMoves
<1> QED
  BY <1>4, <1>5, <1>6 DEF Rule

LEMMA BuildMoves ==
    ASSUME TypeOK, NEW r \in Requests, NEW c \in Progress, c = req[r], tx[r] = "none",
           ProgressOk(c, "none"), Build(r)
    PROVE  Moves(r, c)
<1>1. /\ c.pc = "rules" /\ c.input \in Body /\ c.rule > Len(Rules(c.input))
      /\ c.pc \in Working /\ c.pc # "done" /\ c.rule \in Nat
  BY DEF Build, Progress, Working, ProgressOk
<1>2. CASE /\ req' = [req EXCEPT ![r].pc = "sdk_simulate", ![r].params = Params(req[r].input)]
           /\ UNCHANGED <<key, tx, world>>
  <2> DEFINE d == [c EXCEPT !.pc = "sdk_simulate", !.params = Params(c.input)]
  <2>1. /\ d \in Progress /\ d.pc = "sdk_simulate" /\ d.answer = c.answer
        /\ d.input = c.input /\ d.params = Params(c.input) /\ d.called = c.called
        /\ d.salt = c.salt /\ d.before = c.before
    BY <1>1 DEF Progress, Working, Built
  <2>2. req' = [req EXCEPT ![r] = d]
    BY <1>2 DEF TypeOK
  <2>3. Permitted(c.input)
    <3>1. \A n \in 1..Len(Rules(c.input)) : Holds(Rules(c.input)[n], c.input)
      BY <1>1, NumberOfRules DEF KeptBefore, ProgressOk
    <3> QED
      BY <1>1, <3>1, RulesPermit
  <2>4. c.before = {} /\ c.answer = None
    BY <1>1 DEF ProgressOk
  <2>5. ProgressOk(d, "none")
    BY <1>1, <2>1, <2>3, <2>4, WorkingOk DEF Working, Built
  <2> QED
    BY <1>2, <2>1, <2>2, <2>5, GoesOn DEF Working, Built
<1>3. CASE Refuse(r, "build")
  BY <1>1, <1>3, RefuseMoves DEF Answers
<1> QED
  BY <1>2, <1>3 DEF Build

LEMMA SdkSimulateMoves ==
    ASSUME TypeOK, NEW r \in Requests, NEW c \in Progress, c = req[r], tx[r] = "none",
           ProgressOk(c, "none"), SdkSimulate(r)
    PROVE  Moves(r, c)
<1>1. c.pc = "sdk_simulate" /\ c.pc \in Working /\ c.pc # "done"
  BY DEF SdkSimulate, Working, Built
<1>2. ASSUME NEW s \in Salts, UNCHANGED <<key, tx, world>>,
             req' = [req EXCEPT ![r].pc = IF Occupied(s) THEN "translate" ELSE "simulate",
                                ![r].salt = s]
      PROVE  Moves(r, c)
  <2>1. PICK where \in {"translate", "simulate"} :
          where = IF Occupied(s) THEN "translate" ELSE "simulate"
    OBVIOUS
  <2> DEFINE d == [c EXCEPT !.pc = where, !.salt = s]
  <2>2. /\ d \in Progress /\ d.pc = where /\ d.answer = c.answer /\ d.input = c.input
        /\ d.called = c.called /\ d.params = c.params /\ d.before = c.before
    BY DEF Progress, Working, Built
  <2>3. req' = [req EXCEPT ![r] = d]
    BY <1>2, <2>1 DEF TypeOK
  <2>4. ProgressOk(d, "none")
    BY <1>1, <2>1, <2>2, AnswersAssumption DEF ProgressOk, Built, Answers
  <2> QED
    BY <1>1, <1>2, <2>1, <2>2, <2>3, <2>4, GoesOn DEF Working, Built
<1>3. CASE Refuse(r, "upstream")
  BY <1>1, <1>3, RefuseMoves DEF Answers
<1> QED
  BY <1>2, <1>3 DEF SdkSimulate

LEMMA SimulateMoves ==
    ASSUME TypeOK, NEW r \in Requests, NEW c \in Progress, c = req[r], tx[r] = "none",
           ProgressOk(c, "none"), Simulate(r)
    PROVE  Moves(r, c)
<1>1. /\ c.pc = "simulate" /\ c.pc \in Working /\ c.pc # "done"
      /\ c.answer = None /\ c.before = {}
  BY DEF Simulate, Working, Built, ProgressOk
<1>2. CASE Goto(r, "translate")
  <2> DEFINE d == [c EXCEPT !.pc = "translate"]
  <2>1. /\ d \in Progress /\ d.pc = "translate" /\ d.answer = c.answer /\ d.input = c.input
        /\ d.called = c.called /\ d.params = c.params /\ d.before = c.before
        /\ d.salt = c.salt
    BY DEF Progress, Working, Built
  <2>2. req' = [req EXCEPT ![r] = d] /\ UNCHANGED <<key, tx, world>>
    BY <1>2 DEF TypeOK, Goto
  <2>3. ProgressOk(d, "none")
    BY <1>1, <2>1, AnswersAssumption DEF ProgressOk, Built, Answers
  <2> QED
    BY <2>1, <2>2, <2>3, GoesOn DEF Working, Built
<1>3. CASE /\ ~Occupied(req[r].salt)
           /\ req' = [req EXCEPT ![r].pc = "submit",
                                 ![r].before = {q \in Requests : tx[q] \in Live}]
           /\ UNCHANGED <<key, tx, world>>
  <2>1. PICK seen \in SUBSET Requests : seen = {q \in Requests : tx[q] \in Live}
    OBVIOUS
  <2> DEFINE d == [c EXCEPT !.pc = "submit", !.before = seen]
  <2>2. /\ d \in Progress /\ d.pc = "submit" /\ d.answer = c.answer /\ d.input = c.input
        /\ d.called = c.called /\ d.params = c.params /\ d.before = seen
        /\ d.salt = c.salt
    BY DEF Progress, Working, Built
  <2>3. req' = [req EXCEPT ![r] = d]
    BY <1>3, <2>1 DEF TypeOK
  <2>4. ProgressOk(d, "none")
    BY <1>1, <2>2, AnswersAssumption DEF ProgressOk, Built, Answers
  <2> QED
    BY <1>3, <2>1, <2>2, <2>3, <2>4, GoesOn DEF Working, Built
<1>4. CASE Refuse(r, "upstream")
  BY <1>1, <1>4, RefuseMoves DEF Answers
<1> QED
  BY <1>2, <1>3, <1>4 DEF Simulate

LEMMA TranslateMoves ==
    ASSUME TypeOK, NEW r \in Requests, NEW c \in Progress, c = req[r], tx[r] = "none",
           ProgressOk(c, "none"), Translate(r)
    PROVE  Moves(r, c)
<1>1. c.pc \in Working
  BY DEF Translate, Working, Built
<1>2. CASE Refuse(r, "collision")
  BY <1>1, <1>2, RefuseMoves DEF Answers
<1>3. CASE Refuse(r, "simulation")
  BY <1>1, <1>3, RefuseMoves DEF Answers
<1> QED
  BY <1>2, <1>3 DEF Translate

LEMMA SubmitMoves ==
    ASSUME TypeOK, NEW r \in Requests, NEW c \in Progress, c = req[r], tx[r] = "none",
           ProgressOk(c, "none"), Submit(r)
    PROVE  Moves(r, c)
<1>1. c.pc = "submit" /\ c.pc \in Working
  BY DEF Submit, Working, Built
<1>2. CASE Answer(r, "ok") /\ With(r, "pending")
  BY <1>1, <1>2, AnswerMoves DEF With, Answers, TxStates
<1>3. CASE Refuse(r, "submission")
  BY <1>1, <1>3, RefuseMoves DEF Answers
<1>4. ASSUME NEW state \in {"none", "late", "pending"},
             Answer(r, "in_doubt"), With(r, state)
      PROVE  Moves(r, c)
  BY <1>1, <1>4, AnswerMoves DEF With, Answers, TxStates
<1> QED
  BY <1>2, <1>3, <1>4 DEF Submit

\* Only a request that is worked on works, and it has no transaction yet.
LEMMA WorkMoves ==
    ASSUME IInv, NEW r \in Requests, Work(r)
    PROVE  \E c \in Progress : /\ c = req[r] /\ c.pc \in Working /\ tx[r] = "none"
                               /\ ProgressOk(c, "none") /\ Moves(r, c)
<1>1. PICK c \in Progress : c = req[r]
  BY DEF IInv, TypeOK
<1>2. PICK t \in TxStates : t = tx[r]
  BY DEF IInv, TypeOK
<1>3. c.pc \in Working
  BY <1>1 DEF Work, Rule, Build, SdkSimulate, Simulate, Translate, Submit, Working, Built
<1>4. ProgressOk(c, t)
  BY <1>1, <1>2 DEF IInv, ProgressInv
<1>5. t = "none"
  BY <1>3, <1>4 DEF ProgressOk, Working, Built
<1>6. TypeOK /\ tx[r] = "none" /\ ProgressOk(c, "none")
  BY <1>2, <1>4, <1>5 DEF IInv
<1>7. Moves(r, c)
  BY <1>1, <1>6, RuleMoves, BuildMoves, SdkSimulateMoves, SimulateMoves, TranslateMoves,
     SubmitMoves DEF Work
<1> QED
  BY <1>1, <1>3, <1>6, <1>7

-----------------------------------------------------------------------------
(* The invariant is inductive *)

LEMMA ProgressSteady ==
    ASSUME UNCHANGED config, NEW c, NEW t
    PROVE  ProgressOk(c, t)' <=> ProgressOk(c, t)
<1>1. \A i : Permitted(i)' <=> Permitted(i)
  BY DEF Permitted
<1>2. \A rule, i : Holds(rule, i)' <=> Holds(rule, i)
  BY DEF Holds, AuctionSupported, GovernanceAllowed
<1>3. \A i, n : KeptBefore(i, n)' <=> KeptBefore(i, n)
  BY <1>2 DEF KeptBefore
<1> QED
  BY <1>1, <1>3 DEF ProgressOk

\* One request and its transaction move, to a progress that is fine.
LEMMA ProgressMoves ==
    ASSUME IInv, NEW r \in Requests, NEW d \in Progress, NEW s \in TxStates,
           UNCHANGED world, req' = [req EXCEPT ![r] = d], tx' = [tx EXCEPT ![r] = s],
           ProgressOk(d, s)
    PROVE  ProgressInv'
<1> SUFFICES ASSUME NEW q \in Requests, NEW c \in Progress, NEW t \in TxStates,
                    c = req'[q], t = tx'[q]
             PROVE  ProgressOk(c, t)
  BY ProgressSteady DEF ProgressInv
<1>1. CASE q = r
  BY <1>1 DEF IInv, TypeOK
<1>2. CASE q # r
  BY <1>2 DEF IInv, TypeOK, ProgressInv
<1> QED
  BY <1>1, <1>2

LEMMA MovesKeepInv ==
    ASSUME IInv, NEW r \in Requests, NEW c \in Progress, c = req[r], c.pc \in Working,
           tx[r] = "none", ProgressOk(c, "none"), Moves(r, c)
    PROVE  IInv'
<1>1. PICK d \in Progress, s \in TxStates : Effect(r, c, d, s)
  BY DEF Moves
<1>2. /\ req' = [req EXCEPT ![r] = d] /\ tx' = [tx EXCEPT ![r] = s] /\ UNCHANGED world
      /\ ProgressOk(d, s)
  BY <1>1 DEF Effect
<1>3. /\ req \in [Requests -> Progress] /\ tx \in [Requests -> TxStates]
      /\ req'[r] = d /\ tx'[r] = s
      /\ \A q \in Requests \ {r} : req'[q] = req[q] /\ tx'[q] = tx[q]
  BY <1>2 DEF IInv, TypeOK
<1>4. TypeOK'
  <2>1. key' \in [Keys -> {"free", "busy", "done", "doubt"}]
    BY <1>1, PipelineAssumption DEF Effect, IInv, TypeOK, Outcome
  <2> QED
    BY <1>2, <2>1 DEF IInv, TypeOK
<1>5. ProgressInv'
  BY <1>2, ProgressMoves
<1>6. KeyInv'
  <2> SUFFICES ASSUME NEW q \in Requests, KeyOf[q] # None
               PROVE  /\ req'[q].pc \in Working => key'[KeyOf[q]] = "busy"
                      /\ tx'[q] # "none" => key'[KeyOf[q]] \in {"done", "doubt"}
                      /\ \A p \in Requests : KeyOf[p] = KeyOf[q] =>
                           /\ req'[p].pc \in Working /\ req'[q].pc \in Working => p = q
                           /\ tx'[p] # "none" /\ tx'[q] # "none" => p = q
    BY DEF KeyInv
  <2>1. KeyInv /\ key \in [Keys -> {"free", "busy", "done", "doubt"}] /\ KeyOf[q] \in Keys
    BY PipelineAssumption DEF IInv, TypeOK
  <2>2. KeyOf[r] = KeyOf[q] =>
          /\ key[KeyOf[q]] = "busy"
          /\ \A p \in Requests \ {r} :
               KeyOf[p] = KeyOf[q] => req[p].pc \notin Working /\ tx[p] = "none"
    BY <2>1 DEF KeyInv
  <2>3. CASE d.pc \in Working /\ key' = key /\ s = "none"
    BY <1>3, <2>1, <2>2, <2>3 DEF KeyInv
  <2>4. CASE /\ d.pc = "done" /\ d.answer \in Answers
             /\ key' = IF KeyOf[r] = None THEN key
                       ELSE [key EXCEPT ![KeyOf[r]] = Outcome(d.answer)]
             /\ s # "none" => d.answer \in {"ok", "in_doubt"} /\ s \in {"pending", "late"}
    <3>1. CASE KeyOf[r] = KeyOf[q]
      <4>1. /\ d.pc \notin Working
            /\ s # "none" => key'[KeyOf[q]] \in {"done", "doubt"}
        BY <2>1, <2>4, <3>1 DEF Working, Built, Outcome
      <4> QED
        BY <1>3, <2>2, <3>1, <4>1
    <3>2. CASE KeyOf[r] # KeyOf[q]
      <4>1. key'[KeyOf[q]] = key[KeyOf[q]]
        BY <2>1, <2>4, <3>2
      <4>2. q # r /\ \A p \in Requests : KeyOf[p] = KeyOf[q] => p # r
        BY <3>2
      <4> QED
        BY <1>3, <2>1, <4>1, <4>2 DEF KeyInv
    <3> QED
      BY <3>1, <3>2
  <2> QED
    BY <1>1, <2>3, <2>4 DEF Effect
<1>7. BeforeInv'
  <2> SUFFICES ASSUME NEW p \in Requests, NEW q \in Requests, q \in req'[p].before
               PROVE  tx'[q] \in Sent /\ (tx'[q] \in Live => req'[p].salt # req'[q].salt)
    BY DEF BeforeInv
  <2>1. \A x \in Requests : r \notin req[x].before
    BY DEF IInv, BeforeInv, Sent
  <2>2. CASE p # r
    BY <1>3, <2>1, <2>2 DEF IInv, BeforeInv
  <2>3. CASE p = r /\ d.before = c.before
    <3>1. c.before # {} /\ q # r
      BY <1>3, <2>1, <2>3
    <3>2. d.salt = c.salt
      BY <1>1, <3>1 DEF Effect, ProgressOk
    <3> QED
      BY <1>3, <2>3, <3>1, <3>2 DEF IInv, BeforeInv
  <2>4. CASE /\ p = r /\ d.salt = c.salt /\ ~Occupied(c.salt)
             /\ d.before = {x \in Requests : tx[x] \in Live}
    <3>1. tx[q] \in Live /\ q # r
      BY <1>3, <2>4 DEF Live
    <3>2. req[q].salt # c.salt
      BY <2>4, <3>1 DEF Occupied
    <3> QED
      BY <1>3, <2>4, <3>1, <3>2 DEF Live, Sent
  <2> QED
    BY <1>1, <2>2, <2>3, <2>4 DEF Effect
<1> QED
  BY <1>4, <1>5, <1>6, <1>7 DEF IInv

LEMMA BeginKeepsInv ==
    ASSUME IInv, NEW r \in Requests, Begin(r)
    PROVE  IInv'
<1>1. PICK c \in Progress : c = req[r]
  BY DEF IInv, TypeOK
<1>2. PICK i \in Inputs[config.traffic] :
        /\ KeyOf[r] # None => key[KeyOf[r]] = "free"
        /\ req' = [req EXCEPT ![r].input = i, ![r].pc = "rules"]
  BY DEF Begin
<1>3. i \in Body
  BY <1>2, InputsAssumption, PipelineAssumption DEF IInv, TypeOK
<1>4. c.pc = "idle" /\ tx[r] = "none" /\ ProgressOk(c, "none")
  <2>1. PICK t \in TxStates : t = tx[r]
    BY DEF IInv, TypeOK
  <2>2. ProgressOk(c, t)
    BY <1>1, <2>1 DEF IInv, ProgressInv
  <2> QED
    BY <1>1, <2>1, <2>2 DEF Begin, ProgressOk
<1> DEFINE d == [c EXCEPT !.input = i, !.pc = "rules"]
<1>5. /\ d \in Progress /\ d.pc = "rules" /\ d.input = i /\ d.rule = c.rule
      /\ d.called = c.called /\ d.answer = c.answer /\ d.salt = c.salt /\ d.before = c.before
  BY <1>3 DEF Progress, Working
<1>6. ProgressOk(d, "none")
  <2>1. d.rule = 1 /\ ~d.called /\ d.before = {} /\ d.answer = None
    BY <1>4, <1>5 DEF ProgressOk
  <2>2. KeptBefore(i, d.rule)
    BY <1>3, <2>1, NumberOfRules DEF KeptBefore
  <2> QED
    BY <1>3, <1>5, <2>1, <2>2, WorkingOk DEF Working, Built
<1>7. req' = [req EXCEPT ![r] = d] /\ tx' = [tx EXCEPT ![r] = "none"] /\ UNCHANGED world
  BY <1>1, <1>2, <1>4 DEF Begin, IInv, TypeOK
<1>8. /\ req \in [Requests -> Progress] /\ req'[r] = d /\ tx' = tx
      /\ \A q \in Requests \ {r} : req'[q] = req[q]
  BY <1>7 DEF Begin, IInv, TypeOK
<1>9. TypeOK'
  <2>1. key' \in [Keys -> {"free", "busy", "done", "doubt"}]
    BY PipelineAssumption DEF Begin, IInv, TypeOK
  <2> QED
    BY <1>5, <1>7, <1>8, <2>1 DEF IInv, TypeOK
<1>10. ProgressInv'
  BY <1>5, <1>6, <1>7, ProgressMoves DEF TxStates
<1>11. KeyInv'
  <2> SUFFICES ASSUME NEW q \in Requests, KeyOf[q] # None
               PROVE  /\ req'[q].pc \in Working => key'[KeyOf[q]] = "busy"
                      /\ tx'[q] # "none" => key'[KeyOf[q]] \in {"done", "doubt"}
                      /\ \A p \in Requests : KeyOf[p] = KeyOf[q] =>
                           /\ req'[p].pc \in Working /\ req'[q].pc \in Working => p = q
                           /\ tx'[p] # "none" /\ tx'[q] # "none" => p = q
    BY DEF KeyInv
  <2>1. KeyInv /\ key \in [Keys -> {"free", "busy", "done", "doubt"}] /\ KeyOf[q] \in Keys
    BY PipelineAssumption DEF IInv, TypeOK
  <2>2. CASE KeyOf[r] = KeyOf[q]
    <3>1. key[KeyOf[q]] = "free" /\ key'[KeyOf[q]] = "busy"
      BY <1>2, <2>1, <2>2 DEF Begin
    <3>2. \A p \in Requests :
            KeyOf[p] = KeyOf[q] => req[p].pc \notin Working /\ tx[p] = "none"
      BY <2>1, <3>1 DEF KeyInv
    <3> QED
      BY <1>8, <2>2, <3>1, <3>2
  <2>3. CASE KeyOf[r] # KeyOf[q]
    <3>1. key'[KeyOf[q]] = key[KeyOf[q]]
      BY <2>1, <2>3 DEF Begin
    <3>2. q # r /\ \A p \in Requests : KeyOf[p] = KeyOf[q] => p # r
      BY <2>3
    <3> QED
      BY <1>8, <2>1, <3>1, <3>2 DEF KeyInv
  <2> QED
    BY <2>2, <2>3
<1>12. BeforeInv'
  <2>1. c.before = {}
    BY <1>4 DEF ProgressOk
  <2>2. \A q \in Requests : r \notin req[q].before
    BY <1>4 DEF IInv, BeforeInv, Sent
  <2> SUFFICES ASSUME NEW p \in Requests, NEW q \in Requests, q \in req'[p].before
               PROVE  tx'[q] \in Sent /\ (tx'[q] \in Live => req'[p].salt # req'[q].salt)
    BY DEF BeforeInv
  <2>3. p # r /\ q # r
    BY <1>5, <1>8, <2>1, <2>2
  <2> QED
    BY <1>8, <2>3 DEF IInv, BeforeInv
<1> QED
  BY <1>9, <1>10, <1>11, <1>12 DEF IInv

LEMMA NoKeyKeepsInv ==
    ASSUME IInv, NEW r \in Requests, NoKey(r)
    PROVE  IInv'
<1>1. PICK c \in Progress : c = req[r]
  BY DEF IInv, TypeOK
<1>2. c.pc = "idle" /\ tx[r] = "none" /\ ProgressOk(c, "none")
  <2>1. PICK t \in TxStates : t = tx[r]
    BY DEF IInv, TypeOK
  <2>2. ProgressOk(c, t)
    BY <1>1, <2>1 DEF IInv, ProgressInv
  <2> QED
    BY <1>1, <2>1, <2>2 DEF NoKey, ProgressOk
<1> DEFINE d == [c EXCEPT !.pc = "done", !.answer = "key_required"]
<1>3. /\ d \in Progress /\ d.pc = "done" /\ d.answer = "key_required" /\ d.before = c.before
  BY DEF Progress, Answers
<1>4. ProgressOk(d, "none")
  BY <1>3 DEF ProgressOk, Built
<1>5. /\ req' = [req EXCEPT ![r] = d] /\ tx' = [tx EXCEPT ![r] = "none"] /\ UNCHANGED world
      /\ key' = key /\ tx' = tx /\ KeyOf[r] = None
  BY <1>1, <1>2 DEF NoKey, Refuse, Answer, IInv, TypeOK
<1>6. /\ req'[r] = d /\ \A q \in Requests \ {r} : req'[q] = req[q]
  BY <1>5 DEF IInv, TypeOK
<1>7. TypeOK'
  BY <1>3, <1>5 DEF IInv, TypeOK
<1>8. ProgressInv'
  BY <1>3, <1>4, <1>5, ProgressMoves DEF TxStates
<1>9. KeyInv'
  <2>1. \A q \in Requests : KeyOf[q] # None => q # r
    BY <1>5
  <2> QED
    BY <1>5, <1>6, <2>1 DEF IInv, KeyInv
<1>10. BeforeInv'
  <2>1. c.before = {}
    BY <1>2 DEF ProgressOk
  <2>2. \A q \in Requests : r \notin req[q].before
    BY <1>2 DEF IInv, BeforeInv, Sent
  <2> SUFFICES ASSUME NEW p \in Requests, NEW q \in Requests, q \in req'[p].before
               PROVE  tx'[q] \in Sent /\ (tx'[q] \in Live => req'[p].salt # req'[q].salt)
    BY DEF BeforeInv
  <2>3. p # r /\ q # r
    BY <1>3, <1>6, <2>1, <2>2
  <2> QED
    BY <1>5, <1>6, <2>3 DEF IInv, BeforeInv
<1> QED
  BY <1>7, <1>8, <1>9, <1>10 DEF IInv

\* The chain moves a transaction that is on its way.
LEMMA ChainKeepsInv ==
    ASSUME IInv, NEW r \in Requests, NEW s \in Sent, tx[r] \in {"late", "pending"},
           tx' = [tx EXCEPT ![r] = s], UNCHANGED <<req, key, world>>
    PROVE  IInv'
<1>1. /\ s \in TxStates /\ tx \in [Requests -> TxStates] /\ tx'[r] = s
      /\ \A q \in Requests \ {r} : tx'[q] = tx[q]
  BY DEF IInv, TypeOK, Sent, TxStates
<1>2. TypeOK'
  BY <1>1 DEF IInv, TypeOK
<1>3. ProgressInv'
  <2>1. PICK c \in Progress : c = req[r]
    BY DEF IInv, TypeOK
  <2>2. PICK t \in TxStates : t = tx[r]
    BY <1>1
  <2>3. ProgressOk(c, t) /\ t # "none" /\ s # "none"
    BY <2>1, <2>2 DEF IInv, ProgressInv, Sent
  <2>4. ProgressOk(c, s)
    BY <2>3 DEF ProgressOk
  <2>5. req' = [req EXCEPT ![r] = c]
    BY <2>1 DEF IInv, TypeOK
  <2> QED
    BY <1>1, <2>4, <2>5, ProgressMoves
<1>4. KeyInv'
  <2>1. \A q \in Requests : tx'[q] # "none" => tx[q] # "none"
    BY <1>1
  <2> QED
    BY <2>1 DEF IInv, KeyInv
<1>5. BeforeInv'
  <2> SUFFICES ASSUME NEW p \in Requests, NEW q \in Requests, q \in req[p].before
               PROVE  tx'[q] \in Sent /\ (tx'[q] \in Live => req[p].salt # req[q].salt)
    BY DEF BeforeInv
  <2>1. tx[q] \in Sent /\ (tx[q] \in Live => req[p].salt # req[q].salt)
    BY DEF IInv, BeforeInv
  <2>2. CASE q = r
    BY <1>1, <2>1, <2>2 DEF Sent, Live
  <2>3. CASE q # r
    BY <1>1, <2>1, <2>3
  <2> QED
    BY <2>2, <2>3
<1> QED
  BY <1>2, <1>3, <1>4, <1>5 DEF IInv

LEMMA InitInv == Init => IInv
<1> SUFFICES ASSUME Init PROVE IInv
  OBVIOUS
<1> DEFINE new == [pc |-> "idle", input |-> None, rule |-> 1, called |-> FALSE,
                   params |-> None, salt |-> None, before |-> {}, answer |-> None]
<1>1. new \in Progress
  <2> DEFINE phases == Working \union {"idle", "done"}
             inputs == Body \union {None}
             built == {Params(i) : i \in Body} \union {None}
             answers == Answers \union {None}
  <2>1. "idle" \in phases /\ None \in inputs /\ None \in built /\ None \in answers
    OBVIOUS
  <2> HIDE DEF phases, inputs, built, answers
  <2>2. new \in [pc : phases, input : inputs, rule : Nat \ {0}, called : BOOLEAN,
                 params : built, salt : Salts \union {None}, before : SUBSET Requests,
                 answer : answers]
    BY <2>1
  <2> QED BY <2>2 DEF Progress, phases, inputs, built, answers
<1>2. /\ req = [r \in Requests |-> new] /\ key = [k \in Keys |-> "free"]
      /\ tx = [r \in Requests |-> "none"]
  BY DEF Init
<1>3. TypeOK
  BY <1>1, <1>2 DEF Init, TypeOK, TxStates
<1>4. ProgressOk(new, "none")
  BY AnswersAssumption DEF ProgressOk, Built, Answers
<1>5. ProgressInv
  BY <1>2, <1>4 DEF ProgressInv
<1>6. KeyInv /\ BeforeInv
  BY <1>2 DEF KeyInv, BeforeInv, Working, Built
<1> QED
  BY <1>3, <1>5, <1>6 DEF IInv

LEMMA NextInv == IInv /\ [Next]_vars => IInv'
<1> SUFFICES ASSUME IInv, [Next]_vars PROVE IInv'
  OBVIOUS
<1>1. ASSUME NEW r \in Requests, Work(r) PROVE IInv'
  BY <1>1, WorkMoves, MovesKeepInv
<1>2. ASSUME NEW r \in Requests, Land(r) PROVE IInv'
  BY <1>2, ChainKeepsInv DEF Land, With, Sent
<1>3. ASSUME NEW r \in Requests, Mine(r) PROVE IInv'
  <2>1. PICK s \in {"reverted", "mined"} :
          s = IF \E q \in Requests : tx[q] = "mined" /\ req[q].salt = req[r].salt
              THEN "reverted" ELSE "mined"
    OBVIOUS
  <2> QED
    BY <1>3, <2>1, ChainKeepsInv DEF Mine, With, Sent
<1>4. ASSUME NEW r \in Requests, Drop(r) PROVE IInv'
  BY <1>4, ChainKeepsInv DEF Drop, With, Sent
<1>5. CASE UNCHANGED vars
  <2>1. UNCHANGED <<config, foreign, req, key, tx>>
    BY <1>5 DEF vars
  <2>2. TypeOK' /\ KeyInv' /\ BeforeInv'
    BY <2>1 DEF IInv, TypeOK, KeyInv, BeforeInv
  <2>3. ProgressInv'
    BY <2>1, ProgressSteady DEF IInv, ProgressInv
  <2> QED
    BY <2>2, <2>3 DEF IInv
<1> QED
  BY <1>1, <1>2, <1>3, <1>4, <1>5, BeginKeepsInv, NoKeyKeepsInv DEF Next

LEMMA Invariance == Spec => []IInv
BY InitInv, NextInv, PTL DEF Spec

-----------------------------------------------------------------------------
(* The theorems *)

\* A request, its progress, and what the invariant says of them.
LEMMA Seen ==
    ASSUME IInv, NEW r \in Requests
    PROVE  \E c \in Progress, t \in TxStates : c = req[r] /\ t = tx[r] /\ ProgressOk(c, t)
BY DEF IInv, TypeOK, ProgressInv

\* Every request keeps a progress that its handler can have, and the store's
\* keys and the transactions are in one of their states.
THEOREM TypeCorrect == Spec => []TypeOK
BY Invariance, PTL DEF IInv

\* However many requests with one key arrive, and whatever became of the
\* earlier ones, the key never has two transactions that exist or may yet:
\* runInternal() lets one work at a time, and a key whose launch was sent or
\* is in doubt stays closed.
THEOREM KeysLaunchOnce == Spec => []OneLaunchPerKey
<1>1. IInv => OneLaunchPerKey
  <2> SUFFICES ASSUME IInv, NEW r \in Requests, NEW q \in Requests, r # q, KeyOf[r] # None,
                      KeyOf[r] = KeyOf[q]
               PROVE  ~({tx[r], tx[q]} \subseteq Possible)
    BY DEF OneLaunchPerKey
  <2>1. tx[r] = "none" \/ tx[q] = "none"
    BY DEF IInv, KeyInv
  <2> QED
    BY <2>1 DEF Possible, Live
<1> QED
  BY <1>1, Invariance, PTL

\* Whichever check or call of createLaunchInternal() a request fails at, with
\* any error but one in doubt, nothing of it was sent.
THEOREM ErrorsSendNothing == Spec => []FailuresLeaveNothing
<1>1. IInv => FailuresLeaveNothing
  BY Seen DEF FailuresLeaveNothing, ProgressOk
<1> QED
  BY <1>1, Invariance, PTL

\* In every family, whatever the deployment and the body, a launch that was
\* sent is one the deployment permits, with its fee beneficiaries in exactly
\* one of the modules that hold them, or in none if there are none.
THEOREM SentWasPermitted == Spec => []SubmittedWasPermitted
<1>1. IInv => SubmittedWasPermitted
  <2> SUFFICES ASSUME IInv, NEW r \in Requests, tx[r] # "none"
               PROVE  /\ Permitted(req[r].input)
                      /\ Cardinality(req[r].params.feesTo) =
                           IF /\ req[r].input.auction = "dynamic"
                              /\ req[r].input.migration = "uniswapV2" THEN 0 ELSE 1
    BY DEF SubmittedWasPermitted
  <2>1. PICK c \in Progress, t \in TxStates : c = req[r] /\ t = tx[r] /\ ProgressOk(c, t)
    BY Seen
  <2> DEFINE i == c.input
  <2>2. i \in Body /\ Permitted(i) /\ c.params = Params(i)
    BY <2>1 DEF ProgressOk
  <2>3. CASE i.auction = "static"
    <3>1. Params(i).feesTo = {"initializer"}
      BY <2>3 DEF Params, StaticParams
    <3>2. Cardinality(Params(i).feesTo) = 1
      BY <3>1, FS_Singleton
    <3> QED
      BY <2>1, <2>2, <2>3, <3>2
  <2>4. CASE i.auction = "multicurve"
    <3>1. Params(i).feesTo = {"initializer"}
      BY <2>4 DEF Params, MulticurveParams
    <3>2. Cardinality(Params(i).feesTo) = 1
      BY <3>1, FS_Singleton
    <3> QED
      BY <2>1, <2>2, <2>4, <3>2
  <2>5. CASE i.auction = "dynamic" /\ i.migration = "uniswapV2"
    <3>1. Params(i).feesTo = {}
      BY <2>5 DEF Params, DynamicParams
    <3>2. Cardinality(Params(i).feesTo) = 0
      BY <3>1, FS_EmptySet
    <3> QED
      BY <2>1, <2>2, <2>5, <3>2
  <2>6. CASE i.auction = "dynamic" /\ i.migration # "uniswapV2"
    <3>1. Params(i).feesTo = {"migrator"}
      BY <2>6 DEF Params, DynamicParams
    <3>2. Cardinality(Params(i).feesTo) = 1
      BY <3>1, FS_Singleton
    <3> QED
      BY <2>1, <2>2, <2>6, <3>2
  <2> QED
    BY <2>2, <2>3, <2>4, <2>5, <2>6, BodyFamilies
<1> QED
  BY <1>1, Invariance, PTL

\* An auction type or a governance mode that the deployment does not allow is
\* refused before the first call of the node or of the price provider, by each
\* family's order of checks.
THEOREM PoliciesComeFirst == Spec => []PolicyFailsFast
<1>1. IInv => PolicyFailsFast
  BY Seen DEF PolicyFailsFast, ProgressOk
<1> QED
  BY <1>1, Invariance, PTL

\* A token that was pending or mined when a launch was last simulated, by
\* whomever, does not have the address that the launch is then sent for.
THEOREM PendingIsNotResubmitted == Spec => []NoResubmission
<1>1. IInv => NoResubmission
  BY DEF IInv, BeforeInv, NoResubmission
<1> QED
  BY <1>1, Invariance, PTL

-----------------------------------------------------------------------------
(* What a request resolves to: AuctionTerms.  Sums of amounts *)

Amounts(entries) == [i \in DOMAIN entries |-> entries[i].amount]

LEMMA AmountsAreNumbers ==
    ASSUME NEW S, NEW entries \in Seq(S), \A e \in S : e.amount \in Nat
    PROVE  Amounts(entries) \in Seq(Nat) /\ Len(Amounts(entries)) = Len(entries)
  <1>1. Len(entries) \in Nat /\ DOMAIN entries = 1..Len(entries)
    OBVIOUS
  <1>2. Amounts(entries) \in [1..Len(entries) -> Nat]
    BY <1>1 DEF Amounts
  <1> QED BY <1>1, <1>2, IsASeq

LEMMA TotalOfAppend ==
    ASSUME NEW S, NEW entries \in Seq(S), NEW e \in S, \A x \in S : x.amount \in Nat
    PROVE  Total(Append(entries, e)) = Total(entries) + e.amount
  <1> DEFINE longer == Append(entries, e)
             s == Append(Amounts(entries), e.amount)
  <1>1. longer \in Seq(S) /\ Len(longer) = Len(entries) + 1 /\ Len(entries) \in Nat
    OBVIOUS
  <1>2. \A i \in 1..Len(entries) : longer[i] = entries[i]
    OBVIOUS
  <1>3. longer[Len(entries) + 1] = e
    OBVIOUS
  <1> HIDE DEF longer
  <1>4. Amounts(entries) \in Seq(Nat) /\ Len(Amounts(entries)) = Len(entries)
    BY AmountsAreNumbers
  <1>5. Amounts(longer) \in Seq(Nat) /\ Len(Amounts(longer)) = Len(entries) + 1
    BY <1>1, AmountsAreNumbers
  <1>6. s \in Seq(Nat) /\ Len(s) = Len(entries) + 1 /\ s[Len(entries) + 1] = e.amount
    BY <1>4
  <1>7. \A i \in 1..Len(entries) : s[i] = Amounts(entries)[i]
    BY <1>4
  <1> HIDE DEF s
  <1>8. \A i \in 1..Len(entries) + 1 : Amounts(longer)[i] = s[i]
    <2> SUFFICES ASSUME NEW i \in 1..Len(entries) + 1 PROVE Amounts(longer)[i] = s[i]
      OBVIOUS
    <2>1. Amounts(longer)[i] = longer[i].amount
      BY <1>1 DEF Amounts
    <2>2. CASE i = Len(entries) + 1
      BY <1>3, <1>6, <2>1, <2>2
    <2>3. CASE i # Len(entries) + 1
      <3>1. i \in 1..Len(entries) /\ DOMAIN entries = 1..Len(entries)
        BY <1>1, <2>3
      <3>2. Amounts(entries)[i] = entries[i].amount
        BY <3>1 DEF Amounts
      <3> QED BY <1>2, <1>7, <2>1, <3>1, <3>2
    <2> QED BY <2>2, <2>3
  <1>9. Amounts(longer) = s
    BY <1>5, <1>6, <1>8, SeqEqual
  <1>10. SumOf(s) = SumOf(Amounts(entries)) + e.amount
    BY <1>4, SumOfAppend DEF s
  <1> QED BY <1>9, <1>10 DEF Total, Amounts, longer

LEMMA TotalOfOne ==
    ASSUME NEW e, e.amount \in Nat
    PROVE  Total(<<e>>) = e.amount
  <1>1. DOMAIN <<e>> = {1} /\ DOMAIN <<e.amount>> = {1}
    OBVIOUS
  <1>2. [i \in DOMAIN <<e>> |-> <<e>>[i].amount] = <<e.amount>>
    <2>1. <<e.amount>> \in [{1} -> Nat]
      OBVIOUS
    <2>2. <<e>>[1].amount = <<e.amount>>[1]
      OBVIOUS
    <2> QED BY <1>1, <2>1, <2>2
  <1> QED BY <1>2, SumOfOne DEF Total

LEMMA TotalOfTwo ==
    ASSUME NEW d, NEW e, d.amount \in Nat, e.amount \in Nat
    PROVE  Total(<<d, e>>) = d.amount + e.amount
  <1> DEFINE s == <<d.amount, e.amount>>
  <1>1. DOMAIN <<d, e>> = {1, 2} /\ s \in [{1, 2} -> Nat]
    OBVIOUS
  <1>2. <<d, e>>[1].amount = s[1] /\ <<d, e>>[2].amount = s[2]
    OBVIOUS
  <1>3. [i \in DOMAIN <<d, e>> |-> <<d, e>>[i].amount] = s
    BY <1>1, <1>2
  <1> QED BY <1>3, SumOfTwo DEF Total

-----------------------------------------------------------------------------
(* The shares of the pool fees *)

Whole(fees, owner) ==
    /\ Total(fees) = WAD
    /\ Unique(fees)
    /\ Len(fees) <= MAX_FEE_BENEFICIARIES
    /\ \E i \in DOMAIN fees :
         Account(fees[i].address) = Account(owner) /\ 20 * fees[i].amount >= WAD

LEMMA Twentieths ==
    /\ PROTOCOL_MIN_SHARE \in Nat /\ 20 * PROTOCOL_MIN_SHARE = WAD
    /\ (WAD * 5) \div 100 = PROTOCOL_MIN_SHARE
    /\ (WAD * 95) \div 100 = WAD - PROTOCOL_MIN_SHARE
  <1>1. WAD \in Nat /\ WAD % 20 = 0
    BY TermsAssumption
  <1> DEFINE n == WAD \div 20
  <1>2. n \in Nat /\ WAD = 20 * n
    BY <1>1
  <1> HIDE DEF n
  <1>3. (20 * n * 5) \div 100 = n /\ (20 * n * 95) \div 100 = 19 * n
    BY <1>2
  <1> QED BY <1>2, <1>3 DEF PROTOCOL_MIN_SHARE, n

LEMMA DefaultSharesAreWhole == Whole(DefaultShares, input.owner)
  <1>1. WAD \in Nat /\ MAX_FEE_BENEFICIARIES \in Nat /\ MAX_FEE_BENEFICIARIES >= 2
    BY TermsAssumption
  <1>2. CASE Account(input.user) = Account(input.owner)
    <2> DEFINE e == [address |-> input.owner, amount |-> WAD]
               fees == <<e>>
    <2>1. e.amount = WAD /\ e.address = input.owner
      OBVIOUS
    <2>2. DefaultShares = fees
      BY <1>2 DEF DefaultShares
    <2>3. Len(fees) = 1 /\ DOMAIN fees = {1} /\ fees[1] = e
      OBVIOUS
    <2> HIDE DEF e
    <2>4. Total(fees) = WAD
      BY <1>1, <2>1, TotalOfOne
    <2> HIDE DEF fees
    <2>5. Unique(fees)
      BY <2>3 DEF Unique
    <2>6. Account(fees[1].address) = Account(input.owner) /\ 20 * fees[1].amount >= WAD
      BY <1>1, <2>1, <2>3 DEF Account
    <2> QED BY <1>1, <2>2, <2>3, <2>4, <2>5, <2>6 DEF Whole
  <1>3. CASE Account(input.user) # Account(input.owner)
    <2> DEFINE d == [address |-> input.user, amount |-> (WAD * 95) \div 100]
               e == [address |-> input.owner, amount |-> (WAD * 5) \div 100]
               fees == <<d, e>>
    <2>1. /\ d.address = input.user /\ d.amount = WAD - PROTOCOL_MIN_SHARE
          /\ e.address = input.owner /\ e.amount = PROTOCOL_MIN_SHARE
      BY Twentieths
    <2>2. DefaultShares = fees
      BY <1>3 DEF DefaultShares
    <2>3. Len(fees) = 2 /\ DOMAIN fees = {1, 2} /\ fees[1] = d /\ fees[2] = e
      OBVIOUS
    <2> HIDE DEF d, e
    <2>4. Total(fees) = WAD
      <3> DEFINE share == PROTOCOL_MIN_SHARE
      <3>1. share \in Nat /\ 20 * share = WAD /\ d.amount = WAD - share /\ e.amount = share
        BY <2>1, Twentieths
      <3> HIDE DEF share
      <3>2. d.amount \in Nat /\ e.amount \in Nat /\ d.amount + e.amount = WAD
        BY <1>1, <3>1
      <3> QED BY <3>2, TotalOfTwo
    <2> HIDE DEF fees
    <2>5. Unique(fees)
      BY <1>3, <2>1, <2>3 DEF Unique, Account
    <2>6. Account(fees[2].address) = Account(input.owner) /\ 20 * fees[2].amount >= WAD
      BY <1>1, <2>1, <2>3, Twentieths DEF Account
    <2> QED BY <1>1, <2>2, <2>3, <2>4, <2>5, <2>6 DEF Whole
  <1> QED BY <1>2, <1>3

LEMMA RequestedSharesAreWhole ==
    ASSUME Typed(input), Given(input.beneficiaries) # <<>>, SharesAddUp,
           OwnerIsThere, OwnerHasEnough, BeneficiariesWellFormed(input)
    PROVE  Whole(input.beneficiaries, input.owner)
  <1> DEFINE fees == input.beneficiaries
             S == [address : [account : STRING, spelling : STRING], amount : Nat]
  <1>1. fees \in Seq(S)
    BY DEF Typed, Address, Given, Or
  <1>2. PICK i \in DOMAIN fees : Account(fees[i].address) = Account(input.owner)
    BY DEF OwnerIsThere
  <1>3. \A j \in DOMAIN fees : fees[j].amount \in Nat
    <2>1. \A x \in S : x.amount \in Nat
      OBVIOUS
    <2> HIDE DEF S
    <2>2. \A j \in DOMAIN fees : fees[j] \in S
      BY <1>1
    <2> QED BY <2>1, <2>2
  <1>4. fees = Given(fees)
    BY DEF Given, Or
  <1>5. Len(fees) <= MAX_FEE_BENEFICIARIES /\ Unique(fees)
    BY <1>4 DEF BeneficiariesWellFormed
  <1>6. 20 * fees[i].amount >= WAD
    <2>1. fees[i].amount >= PROTOCOL_MIN_SHARE
      BY <1>2 DEF OwnerHasEnough
    <2>2. fees[i].amount \in Nat
      BY <1>3
    <2> DEFINE a == fees[i].amount
               m == PROTOCOL_MIN_SHARE
    <2>3. a \in Nat /\ a >= m /\ m \in Nat /\ WAD = 20 * m
      BY <2>1, <2>2, Twentieths
    <2> HIDE DEF a, m
    <2>4. 20 * a >= WAD
      BY <2>3
    <2> QED BY <2>4 DEF a
  <1>7. Total(fees) = WAD
    BY DEF SharesAddUp
  <1> QED BY <1>2, <1>5, <1>6, <1>7 DEF Whole

LEMMA CompletedSharesAreWhole ==
    ASSUME Typed(input), Given(input.beneficiaries) # <<>>, SharesAddUp, EntriesFit,
           ~OwnerIsThere, BeneficiariesWellFormed(input)
    PROVE  Whole(Append(input.beneficiaries, ProtocolEntry), input.owner)
  <1> DEFINE list == input.beneficiaries
             S == [address : [account : STRING, spelling : STRING], amount : Nat]
             fees == Append(list, ProtocolEntry)
             n == Len(list)
  <1>1. list \in Seq(S) /\ input.owner \in [account : STRING, spelling : STRING]
    BY DEF Typed, Address, Given, Or
  <1>2. ProtocolEntry \in S /\ ProtocolEntry.amount = PROTOCOL_MIN_SHARE
        /\ ProtocolEntry.address = input.owner
    BY <1>1, Twentieths DEF ProtocolEntry
  <1>3. /\ n \in Nat /\ Len(fees) = n + 1 /\ DOMAIN fees = 1..n + 1 /\ DOMAIN list = 1..n
        /\ fees[n + 1] = ProtocolEntry
    BY <1>1, <1>2
  <1>4. \A i \in 1..n : fees[i] = list[i]
    BY <1>1, <1>2
  <1>5. Total(list) = WAD - PROTOCOL_MIN_SHARE /\ n + 1 <= MAX_FEE_BENEFICIARIES
    BY DEF SharesAddUp, EntriesFit
  <1>6. Total(fees) = WAD
    <2>1. \A x \in S : x.amount \in Nat
      OBVIOUS
    <2> HIDE DEF S
    <2>2. Total(fees) = Total(list) + PROTOCOL_MIN_SHARE
      BY <1>1, <1>2, <2>1, TotalOfAppend
    <2> QED BY <1>5, <2>2, Twentieths, TermsAssumption
  <1>7. \A i \in 1..n : Account(list[i].address) # Account(input.owner)
    BY <1>3 DEF OwnerIsThere
  <1>8. list = Given(list)
    BY DEF Given, Or
  <1>9. \A i, j \in 1..n : i # j => Account(list[i].address) # Account(list[j].address)
    BY <1>3, <1>8 DEF BeneficiariesWellFormed, Unique
  <1> HIDE DEF fees
  <1>10. Unique(fees)
    <2> SUFFICES ASSUME NEW i \in 1..n + 1, NEW j \in 1..n + 1, i # j
                 PROVE  Account(fees[i].address) # Account(fees[j].address)
      BY <1>3 DEF Unique
    <2>1. CASE i = n + 1
      <3>1. j \in 1..n
        BY <1>3, <2>1
      <3> QED BY <1>2, <1>3, <1>4, <1>7, <2>1, <3>1
    <2>2. CASE j = n + 1
      <3>1. i \in 1..n
        BY <1>3, <2>2
      <3> QED BY <1>2, <1>3, <1>4, <1>7, <2>2, <3>1
    <2>3. CASE i # n + 1 /\ j # n + 1
      <3>1. i \in 1..n /\ j \in 1..n
        BY <1>3, <2>3
      <3> QED BY <1>4, <1>9, <3>1
    <2> QED BY <2>1, <2>2, <2>3
  <1>11. Account(fees[n + 1].address) = Account(input.owner) /\ 20 * fees[n + 1].amount >= WAD
    BY <1>2, <1>3, Twentieths, TermsAssumption
  <1>12. n + 1 \in DOMAIN fees
    BY <1>3
  <1> QED BY <1>3, <1>5, <1>6, <1>10, <1>11, <1>12 DEF Whole, fees

-----------------------------------------------------------------------------
(* Euclid's loop *)

\* Division with remainder.
LEMMA DivMod ==
    ASSUME NEW x \in Nat, NEW y \in Nat \ {0}
    PROVE  /\ x \div y \in Nat /\ x % y \in 0..y - 1
           /\ x = y * (x \div y) + (x % y)
  OBVIOUS

Multiple(d, x) == \E k \in Nat : x = d * k

LEMMA RemainderIsUnique ==
    ASSUME NEW d \in Nat \ {0}, NEW k \in Nat
    PROVE  (d * k) % d = 0
  OBVIOUS

LEMMA ModMultiple ==
    ASSUME NEW d \in Nat \ {0}, NEW x \in Nat
    PROVE  x % d = 0 <=> Multiple(d, x)
  <1>1. ASSUME x % d = 0 PROVE Multiple(d, x)
    <2>1. x \div d \in Nat /\ x = d * (x \div d)
      BY <1>1, DivMod
    <2> QED BY <2>1 DEF Multiple
  <1>2. ASSUME Multiple(d, x) PROVE x % d = 0
    <2>1. PICK k \in Nat : x = d * k
      BY <1>2 DEF Multiple
    <2> QED BY <2>1, RemainderIsUnique
  <1> QED BY <1>1, <1>2

\* Euclid's step keeps the common divisors.
LEMMA EuclidStep ==
    ASSUME NEW d \in Nat \ {0}, NEW x \in Nat, NEW y \in Nat \ {0}, y % d = 0
    PROVE  x % d = 0 <=> (x % y) % d = 0
  <1> DEFINE q == x \div y
             r == x % y
  <1>1. q \in Nat /\ r \in Nat /\ x = y * q + r
    BY DivMod
  <1> HIDE DEF q, r
  <1>2. PICK b \in Nat : y = d * b
    BY ModMultiple DEF Multiple
  <1>3. b * q \in Nat /\ y * q = d * (b * q)
    BY <1>1, <1>2
  <1>4. ASSUME Multiple(d, x) PROVE Multiple(d, r)
    <2>1. PICK a \in Nat : x = d * a
      BY <1>4 DEF Multiple
    <2> DEFINE bq == b * q
    <2>2. bq \in Nat /\ d * a = d * bq + r
      BY <1>1, <1>3, <2>1
    <2> HIDE DEF bq
    <2>3. r = d * (a - bq)
      BY <1>1, <2>2
    <2>4. a - bq >= 0
      <3>1. CASE a - bq < 0
        <4>1. d * (a - bq) < 0
          BY <2>2, <3>1
        <4> QED BY <1>1, <2>3, <4>1
      <3> QED BY <2>2, <3>1
    <2> QED BY <2>2, <2>3, <2>4 DEF Multiple
  <1>5. ASSUME Multiple(d, r) PROVE Multiple(d, x)
    <2>1. PICK c \in Nat : r = d * c
      BY <1>5 DEF Multiple
    <2>2. b * q + c \in Nat /\ x = d * (b * q + c)
      BY <1>1, <1>3, <2>1
    <2> QED BY <2>2 DEF Multiple
  <1>6. (Multiple(d, x) <=> x % d = 0) /\ (Multiple(d, r) <=> r % d = 0)
    BY <1>1, ModMultiple
  <1> QED BY <1>4, <1>5, <1>6 DEF r

\* f is Euclid's loop for the second numbers up to n.
Round(f, y) == [x \in Nat |-> IF y = 0 THEN x ELSE f[x % y][y]]
Euclid(f, n) == f = [y \in 0..n |-> Round(f, y)]

\* A round with y asks for what is left of a division by y, and no more.
LEMMA RoundsAgree ==
    ASSUME NEW f, NEW g, NEW y \in Nat, y = 0 \/ \A r \in 0..y - 1 : f[r] = g[r]
    PROVE  Round(f, y) = Round(g, y)
  <1>1. ASSUME NEW x \in Nat, y # 0 PROVE f[x % y][y] = g[x % y][y]
    <2>1. y \in Nat \ {0}
      BY <1>1
    <2>2. x % y \in 0..y - 1
      BY <2>1, DivMod
    <2> QED BY <1>1, <2>2
  <1> QED BY <1>1 DEF Round

LEMMA EuclidExists ==
    ASSUME NEW n \in Nat
    PROVE  \E f : Euclid(f, n)
  <1> DEFINE Bad == {k \in Nat : ~\E f : Euclid(f, k)}
  <1> SUFFICES ASSUME Bad # {} PROVE FALSE
    OBVIOUS
  <1>1. PICK k \in Bad : \A m \in Bad : k <= m
    BY LeastNat
  <1>2. CASE k = 0
    <2> DEFINE f == [y \in 0..0 |-> Round(<<>>, y)]
    <2>1. Round(f, 0) = Round(<<>>, 0)
      BY RoundsAgree
    <2>2. \A y \in 0..0 : Round(<<>>, y) = Round(f, y)
      BY <2>1
    <2>3. Euclid(f, 0)
      BY <2>2 DEF Euclid
    <2> QED BY <1>2, <2>3
  <1>3. CASE k # 0
    <2>1. k - 1 \in Nat /\ k - 1 \notin Bad /\ k \in Nat
      BY <1>1, <1>3
    <2>2. PICK f : Euclid(f, k - 1)
      BY <2>1
    <2> DEFINE g == [y \in 0..k |-> IF y = k THEN Round(f, k) ELSE f[y]]
    <2>3. \A r \in 0..k - 1 : g[r] = f[r]
      BY <2>1
    <2>4. ASSUME NEW y \in 0..k PROVE g[y] = Round(g, y)
      <3>1. y = 0 \/ \A r \in 0..y - 1 : f[r] = g[r]
        BY <2>1, <2>3
      <3>2. Round(f, y) = Round(g, y)
        BY <3>1, RoundsAgree
      <3>3. CASE y = k
        BY <3>2, <3>3
      <3>4. CASE y # k
        <4>1. y \in 0..k - 1
          BY <2>1, <3>4
        <4>2. f[y] = Round(f, y)
          BY <2>2, <4>1 DEF Euclid
        <4> QED BY <2>3, <3>2, <4>1, <4>2
      <3> QED BY <3>3, <3>4
    <2>5. g = [y \in 0..k |-> g[y]]
      OBVIOUS
    <2> HIDE DEF g
    <2>6. Euclid(g, k)
      BY <2>4, <2>5 DEF Euclid
    <2> QED BY <2>6
  <1> QED BY <1>2, <1>3

LEMMA EuclidsAgree ==
    ASSUME NEW m \in Nat, NEW n \in Nat, NEW f, NEW g, Euclid(f, m), Euclid(g, n),
           NEW y \in 0..m, y \in 0..n
    PROVE  f[y] = g[y]
  <1> DEFINE Bad == {k \in 0..y : f[k] # g[k]}
  <1> SUFFICES ASSUME Bad # {} PROVE FALSE
    OBVIOUS
  <1>1. PICK k \in Bad : \A j \in Bad : k <= j
    <2>1. Bad \in SUBSET Nat
      OBVIOUS
    <2> QED BY <2>1, LeastNat
  <1>2. k \in 0..m /\ k \in 0..n /\ k \in Nat
    OBVIOUS
  <1>3. f[k] = Round(f, k) /\ g[k] = Round(g, k)
    BY <1>2 DEF Euclid
  <1>4. \A r \in 0..k - 1 : f[r] = g[r]
    <2> SUFFICES ASSUME NEW r \in 0..k - 1 PROVE f[r] = g[r]
      OBVIOUS
    <2>1. r \in 0..y /\ ~(k <= r)
      BY <1>2
    <2> QED BY <1>1, <2>1
  <1>5. f[k] = g[k]
    BY <1>2, <1>3, <1>4, RoundsAgree
  <1> QED BY <1>5

LEMMA GcdByRecursion ==
    ASSUME NEW y \in Nat
    PROVE  gcd[y] = Round(gcd, y)
  <1> DEFINE Up(n) == CHOOSE f : Euclid(f, n)
             h == [z \in Nat |-> Up(z)[z]]
  <1>1. \A n \in Nat : Euclid(Up(n), n)
    BY EuclidExists
  <1> HIDE DEF Up
  <1>2. ASSUME NEW z \in Nat PROVE h[z] = Round(h, z)
    <2>1. Up(z)[z] = Round(Up(z), z)
      BY <1>1 DEF Euclid
    <2>2. ASSUME NEW r \in 0..z - 1 PROVE Up(z)[r] = h[r]
      <3>1. r \in Nat /\ r \in 0..r /\ r \in 0..z
        OBVIOUS
      <3>2. Up(z)[r] = Up(r)[r]
        BY <1>1, <3>1, EuclidsAgree
      <3> QED BY <3>1, <3>2
    <2>3. Round(Up(z), z) = Round(h, z)
      BY <2>2, RoundsAgree
    <2> QED BY <2>1, <2>3
  <1>3. h = [z \in Nat |-> h[z]]
    OBVIOUS
  <1> HIDE DEF h
  <1>4. h = [z \in Nat |-> Round(h, z)]
    BY <1>2, <1>3
  <1> DEFINE c == CHOOSE f : f = [z \in Nat |-> Round(f, z)]
  <1>5. c = [z \in Nat |-> Round(c, z)]
    BY <1>4
  <1>6. gcd = c
    BY DEF gcd, Round
  <1> QED BY <1>5, <1>6

\* What the loop returns has the common divisors of its two numbers.
LEMMA GcdDivisors ==
    ASSUME NEW x \in Nat, NEW y \in Nat
    PROVE  /\ gcd[y][x] \in Nat
           /\ \A d \in Nat \ {0} : gcd[y][x] % d = 0 <=> x % d = 0 /\ y % d = 0
  <1> DEFINE Good(b, a) == /\ gcd[b][a] \in Nat
                           /\ \A d \in Nat \ {0} :
                                gcd[b][a] % d = 0 <=> a % d = 0 /\ b % d = 0
             Bad == {b \in Nat : \E a \in Nat : ~Good(b, a)}
  <1>1. ASSUME Bad # {} PROVE FALSE
    <2>1. PICK b \in Bad : \A c \in Bad : b <= c
      BY <1>1, LeastNat
    <2>2. PICK a \in Nat : ~Good(b, a)
      BY <2>1
    <2>3. gcd[b][a] = IF b = 0 THEN a ELSE gcd[a % b][b]
      BY GcdByRecursion DEF Round
    <2>4. CASE b = 0
      <3>1. \A d \in Nat \ {0} : 0 % d = 0
        <4> SUFFICES ASSUME NEW d \in Nat \ {0} PROVE 0 % d = 0
          OBVIOUS
        <4>1. 0 = d * 0 /\ (d * 0) % d = 0
          BY RemainderIsUnique
        <4> QED BY <4>1
      <3>2. Good(b, a)
        BY <2>3, <2>4, <3>1
      <3> QED BY <2>2, <3>2
    <2>5. CASE b # 0
      <3>1. b \in Nat \ {0} /\ a % b \in Nat /\ a % b < b
        <4>1. b \in Nat \ {0}
          BY <2>5
        <4>2. a % b \in 0..b - 1
          BY <4>1, DivMod
        <4> QED BY <4>1, <4>2
      <3>2. a % b \notin Bad
        BY <2>1, <3>1
      <3> DEFINE r == a % b
                 g == gcd[r][b]
      <3>3. Good(r, b)
        BY <3>1, <3>2
      <3>4. gcd[b][a] = g
        BY <2>3, <2>5
      <3>5. ASSUME NEW d \in Nat \ {0} PROVE g % d = 0 <=> a % d = 0 /\ b % d = 0
        <4>1. g % d = 0 <=> b % d = 0 /\ r % d = 0
          BY <3>3
        <4>2. b % d = 0 => (a % d = 0 <=> r % d = 0)
          BY <3>1, EuclidStep
        <4> QED BY <4>1, <4>2
      <3>6. g \in Nat
        BY <3>3
      <3> HIDE DEF g
      <3>7. Good(b, a)
        BY <3>4, <3>5, <3>6
      <3> QED BY <2>2, <3>7
    <2> QED BY <2>4, <2>5
  <1>2. Good(y, x)
    BY <1>1
  <1> QED BY <1>2

LEMMA AbsTickIsNat == \A t \in Int : AbsTick(t) \in Nat
BY DEF AbsTick

\* The divisors of the first n of the ticks
LEMMA GcdManyDivisors ==
    ASSUME NEW ticks \in Seq(Int)
    PROVE  /\ gcdMany(ticks) \in Nat
           /\ \A d \in Nat \ {0} :
                gcdMany(ticks) % d = 0 <=> \A i \in DOMAIN ticks : AbsTick(ticks[i]) % d = 0
  <1> DEFINE len == Len(ticks)
             Acc(f, n) == f = [i \in 0..n |-> IF i = 0 THEN 0
                                              ELSE gcd[AbsTick(ticks[i])][f[i - 1]]]
             Good(f, n) == /\ f[n] \in Nat
                           /\ \A d \in Nat \ {0} :
                                f[n] % d = 0 <=> \A i \in 1..n : AbsTick(ticks[i]) % d = 0
  <1>1. len \in Nat /\ DOMAIN ticks = 1..len /\ \A i \in 1..len : AbsTick(ticks[i]) \in Nat
    <2>1. len \in Nat /\ DOMAIN ticks = 1..len /\ \A i \in 1..len : ticks[i] \in Int
      OBVIOUS
    <2> QED BY <2>1, AbsTickIsNat
  <1> HIDE DEF len
  <1> DEFINE Bad == {n \in 0..len : ~\E f : Acc(f, n)}
  <1>2. ASSUME Bad # {} PROVE FALSE
    <2>1. PICK k \in Bad : \A m \in Bad : k <= m
      <3>1. Bad \in SUBSET Nat
        BY <1>1
      <3> QED BY <1>2, <3>1, LeastNat
    <2>2. CASE k = 0
      <3>1. Acc([i \in 0..0 |-> 0], 0)
        OBVIOUS
      <3> QED BY <2>1, <2>2, <3>1
    <2>3. CASE k # 0
      <3>1. k - 1 \in 0..len /\ k \in Nat /\ ~(k <= k - 1)
        BY <1>1, <2>1, <2>3
      <3>2. PICK f : Acc(f, k - 1)
        <4> HIDE DEF Acc
        <4> QED BY <2>1, <3>1
      <3> DEFINE g == [i \in 0..k |-> IF i = k THEN gcd[AbsTick(ticks[k])][f[k - 1]] ELSE f[i]]
      <3>3. g = [i \in 0..k |-> g[i]] /\ \A i \in 0..k - 1 : g[i] = f[i]
        BY <3>1
      <3>4. g[k] = gcd[AbsTick(ticks[k])][f[k - 1]] /\ k - 1 \in 0..k - 1
        BY <2>3, <3>1
      <3> HIDE DEF g
      <3>5. \A i \in 0..k : g[i] = IF i = 0 THEN 0 ELSE gcd[AbsTick(ticks[i])][g[i - 1]]
        <4> SUFFICES ASSUME NEW i \in 0..k
                     PROVE  g[i] = IF i = 0 THEN 0 ELSE gcd[AbsTick(ticks[i])][g[i - 1]]
          OBVIOUS
        <4>1. CASE i = k
          BY <2>3, <3>3, <3>4, <4>1
        <4>2. CASE i # k
          <5>1. i \in 0..k - 1 /\ (i # 0 => i - 1 \in 0..k - 1)
            BY <3>1, <4>2
          <5>2. f[i] = IF i = 0 THEN 0 ELSE gcd[AbsTick(ticks[i])][f[i - 1]]
            BY <3>2, <5>1
          <5> QED BY <3>3, <5>1, <5>2
        <4> QED BY <4>1, <4>2
      <3>6. Acc(g, k)
        BY <3>3, <3>5
      <3> QED BY <2>1, <3>6
    <2> QED BY <2>2, <2>3
  <1>3. \E f : Acc(f, len)
    <2>1. len \in 0..len
      BY <1>1
    <2> HIDE DEF Acc
    <2> QED BY <1>2, <2>1
  <1> DEFINE h == CHOOSE f : Acc(f, len)
  <1>4. Acc(h, len)
    BY <1>3
  <1>5. gcdMany(ticks) = h[len]
    BY DEF gcdMany, len
  <1> HIDE DEF h
  <1>6. \A i \in 0..len : h[i] = IF i = 0 THEN 0 ELSE gcd[AbsTick(ticks[i])][h[i - 1]]
    BY <1>4
  <1> DEFINE Wrong == {n \in 0..len : ~Good(h, n)}
  <1>7. ASSUME Wrong # {} PROVE FALSE
    <2>1. PICK k \in Wrong : \A m \in Wrong : k <= m
      <3>1. Wrong \in SUBSET Nat
        BY <1>1
      <3> QED BY <1>7, <3>1, LeastNat
    <2>2. CASE k = 0
      <3>1. h[0] = 0
        BY <1>1, <1>6
      <3>2. \A d \in Nat \ {0} : 0 % d = 0
        <4> SUFFICES ASSUME NEW d \in Nat \ {0} PROVE 0 % d = 0
          OBVIOUS
        <4>1. 0 = d * 0 /\ (d * 0) % d = 0
          BY RemainderIsUnique
        <4> QED BY <4>1
      <3>3. 1..0 = {}
        OBVIOUS
      <3>4. Good(h, 0)
        BY <3>1, <3>2, <3>3
      <3> QED BY <2>1, <2>2, <3>4
    <2>3. CASE k # 0
      <3>1. k - 1 \in 0..len /\ k \in 1..len /\ ~(k <= k - 1)
        BY <1>1, <2>1, <2>3
      <3>2. Good(h, k - 1)
        <4> HIDE DEF Good
        <4> QED BY <2>1, <3>1
      <3> DEFINE x == h[k - 1]
                 y == AbsTick(ticks[k])
      <3>3. x \in Nat /\ y \in Nat /\ h[k] = gcd[y][x]
        BY <1>1, <1>6, <2>3, <3>1, <3>2
      <3>4. \A d \in Nat \ {0} : x % d = 0 <=> \A i \in 1..k - 1 : AbsTick(ticks[i]) % d = 0
        BY <3>2
      <3> HIDE DEF x
      <3>5. h[k] \in Nat /\ \A d \in Nat \ {0} : h[k] % d = 0 <=> x % d = 0 /\ y % d = 0
        BY <3>3, GcdDivisors
      <3>6. \A i : i \in 1..k <=> i \in 1..k - 1 \/ i = k
        BY <3>1
      <3>7. Good(h, k)
        BY <3>4, <3>5, <3>6
      <3> QED BY <2>1, <3>7
    <2> QED BY <2>2, <2>3
  <1>8. Good(h, len)
    <2>1. len \in 0..len
      BY <1>1
    <2> HIDE DEF Good
    <2> QED BY <1>7, <2>1
  <1> QED BY <1>1, <1>5, <1>8

LEMMA MaxIs ==
    ASSUME NEW n \in Nat, NEW S \in SUBSET (0..n), S # {}
    PROVE  Max(S) \in S /\ \A s \in S : s <= Max(S)
  <1> DEFINE T == {n - s : s \in S}
  <1>1. T \in SUBSET Nat /\ T # {}
    <2>1. \A s \in S : n - s \in Nat
      OBVIOUS
    <2>2. \A t \in T : t \in Nat
      BY <2>1
    <2> QED BY <2>2
  <1>2. PICK t \in T : \A u \in T : t <= u
    BY <1>1, LeastNat
  <1>3. PICK m \in S : t = n - m
    BY <1>2
  <1>4. \A s \in S : m >= s
    <2> SUFFICES ASSUME NEW s \in S PROVE m >= s
      OBVIOUS
    <2>1. n - s \in T
      OBVIOUS
    <2> HIDE DEF T
    <2>2. n - m <= n - s /\ s \in 0..n /\ m \in 0..n
      BY <1>2, <1>3, <2>1
    <2> QED BY <2>2
  <1>5. Max(S) \in S /\ \A s \in S : Max(S) >= s
    BY <1>4 DEF Max
  <1>6. \A s \in S : s \in 0..n
    OBVIOUS
  <1> QED BY <1>5, <1>6

LEMMA LargestDivisorIs ==
    ASSUME NEW g \in Nat \ {0}, NEW limit \in Nat \ {0}
    PROVE  /\ LargestDivisor(g, limit) \in 1..limit
           /\ g % LargestDivisor(g, limit) = 0
           /\ \A s \in (LargestDivisor(g, limit) + 1)..limit : g % s # 0
  <1> DEFINE least == Min({limit, g})
             S == {s \in 1..least : g % s = 0}
  <1>1. least \in {limit, g} /\ least <= limit /\ least <= g
    <2>1. \E x \in {limit, g} : \A y \in {limit, g} : x <= y
      <3>1. CASE limit <= g
        BY <3>1
      <3>2. CASE ~(limit <= g)
        BY <3>2
      <3> QED BY <3>1, <3>2
    <2>2. least = CHOOSE x \in {limit, g} : \A y \in {limit, g} : x <= y
      BY DEF Min
    <2> QED BY <2>1, <2>2
  <1> HIDE DEF least
  <1>2. least \in Nat \ {0}
    BY <1>1
  <1>3. 1 \in S
    BY <1>2
  <1>4. S \in SUBSET (0..least)
    OBVIOUS
  <1>5. LargestDivisor(g, limit) = Max(S)
    BY DEF LargestDivisor, least
  <1>6. Max(S) \in S /\ \A s \in S : s <= Max(S)
    BY <1>2, <1>3, <1>4, MaxIs
  <1> DEFINE m == Max(S)
  <1>7. m \in 1..least /\ g % m = 0
    BY <1>6
  <1>8. ASSUME NEW s \in (m + 1)..limit, g % s = 0 PROVE FALSE
    <2>1. s \in Nat \ {0} /\ s > m
      BY <1>1, <1>7
    <2>2. CASE s <= g
      <3>1. s \in 1..least
        BY <1>1, <2>1, <2>2
      <3>2. s \in S
        BY <1>8, <3>1
      <3> HIDE DEF S
      <3> QED BY <1>6, <1>7, <2>1, <3>2
    <2>3. CASE s > g
      <3>1. g % s = g
        BY <2>1, <2>3
      <3> QED BY <1>8, <3>1
    <2> QED BY <2>1, <2>2, <2>3
  <1>9. m \in 1..limit
    BY <1>1, <1>2, <1>7
  <1> HIDE DEF m
  <1>10. LargestDivisor(g, limit) = m
    BY <1>5 DEF m
  <1> QED BY <1>7, <1>8, <1>9, <1>10

LEMMA SpacingLimitIsPositive ==
    ASSUME NEW fee \in Nat
    PROVE  SpacingLimit(fee) \in Nat \ {0}
  <1>1. CASE fee \in DOMAIN TICK_SPACINGS
    BY <1>1, CurveAssumption DEF SpacingLimit
  <1>2. CASE fee \notin DOMAIN TICK_SPACINGS
    <2> DEFINE n == (fee + 25) \div 50
               S == {1, n}
    <2>1. n \in Nat
      OBVIOUS
    <2> HIDE DEF n
    <2>2. S \in SUBSET (0..n + 1) /\ n + 1 \in Nat /\ S # {}
      BY <2>1
    <2>3. Max(S) \in S /\ 1 <= Max(S)
      BY <2>2, MaxIs
    <2>4. SpacingLimit(fee) = Max(S)
      BY <1>2 DEF SpacingLimit, deriveTickSpacingFromFee, n
    <2> QED BY <2>1, <2>3, <2>4
  <1> QED BY <1>1, <1>2

\* The list of ticks holds the boundaries of the presets and nothing else.
LEMMA TicksAreTheBoundaries ==
    ASSUME NEW presets \in Seq({"low", "medium", "high"})
    PROVE  /\ TicksOf(presets) \in Seq(Int)
           /\ {TicksOf(presets)[k] : k \in DOMAIN TicksOf(presets)}
                = BoundariesOf(Range(presets))
  <1> DEFINE n == Len(presets)
             ticks == TicksOf(presets)
             Tick(k) == PresetTicks[presets[(k + 1) \div 2]][IF k % 2 = 1 THEN 1 ELSE 2]
  <1>1. /\ n \in Nat /\ DOMAIN presets = 1..n
        /\ \A j \in 1..n : presets[j] \in {"low", "medium", "high"}
    OBVIOUS
  <1>2. \A p \in {"low", "medium", "high"} : PresetTicks[p][1] \in Int /\ PresetTicks[p][2] \in Int
    BY CurveAssumption
  <1>3. ticks = [k \in 1..2 * n |-> Tick(k)]
    BY DEF TicksOf
  <1>4. \A k \in 1..2 * n : (k + 1) \div 2 \in 1..n
    BY <1>1
  <1>5. \A k \in 1..2 * n : Tick(k) \in Int
    <2> SUFFICES ASSUME NEW k \in 1..2 * n PROVE Tick(k) \in Int
      OBVIOUS
    <2>1. presets[(k + 1) \div 2] \in {"low", "medium", "high"}
      BY <1>1, <1>4
    <2> QED BY <1>2, <2>1
  <1>6. ticks \in [1..2 * n -> Int] /\ 2 * n \in Nat
    BY <1>1, <1>3, <1>5
  <1>7. ticks \in Seq(Int) /\ DOMAIN ticks = 1..2 * n
    BY <1>6, IsASeq
  <1>8. \A k \in 1..2 * n : ticks[k] = Tick(k)
    BY <1>3
  <1> HIDE DEF ticks
  <1>9. ASSUME NEW k \in 1..2 * n PROVE ticks[k] \in BoundariesOf(Range(presets))
    <2>1. presets[(k + 1) \div 2] \in Range(presets)
      BY <1>1, <1>4 DEF Range
    <2> QED BY <1>8, <2>1 DEF BoundariesOf
  <1>10. ASSUME NEW p \in Range(presets), NEW side \in {1, 2}
         PROVE  \E k \in 1..2 * n : ticks[k] = PresetTicks[p][side]
    <2>1. PICK j \in 1..n : p = presets[j]
      BY <1>1 DEF Range
    <2>2. CASE side = 1
      <3> DEFINE k == 2 * j - 1
      <3>1. k \in 1..2 * n /\ (k + 1) \div 2 = j /\ k % 2 = 1
        BY <1>1
      <3> QED BY <1>8, <2>1, <2>2, <3>1
    <2>3. CASE side = 2
      <3> DEFINE k == 2 * j
      <3>1. k \in 1..2 * n /\ (k + 1) \div 2 = j /\ k % 2 # 1
        BY <1>1
      <3> QED BY <1>8, <2>1, <2>3, <3>1
    <2> QED BY <2>2, <2>3
  <1>11. \A b \in BoundariesOf(Range(presets)) : \E k \in 1..2 * n : ticks[k] = b
    BY <1>10 DEF BoundariesOf
  <1>12. {ticks[k] : k \in DOMAIN ticks} = BoundariesOf(Range(presets))
    BY <1>7, <1>9, <1>11
  <1> QED BY <1>7, <1>12 DEF ticks

-----------------------------------------------------------------------------
(* The spacing of presets *)

SpacingIs(c, chosen) ==
    LET fee == Or(c.fee, LOW)
        spacing == IF chosen # None THEN chosen ELSE TICK_SPACINGS[fee]
        presets == IF Given(c.presets) = <<>> THEN {"low", "medium", "high"}
                   ELSE Range(c.presets)
        ticks == BoundariesOf(presets)
    IN /\ Divides(spacing, ticks)
       /\ \A s \in (spacing + 1)..SpacingLimit(fee) : ~Divides(s, ticks)

LEMMA ChosenSpacingIsLargest ==
    ASSUME NEW i, Typed(i), i.curve.type = "preset", i.curve.spacing = None
    PROVE  SpacingIs(i.curve, resolvePresetTickSpacing(i.curve))
  <1> DEFINE c == i.curve
             fee == Or(c.fee, LOW)
             selected == Selected(c)
             presets == IF Given(c.presets) = <<>> THEN {"low", "medium", "high"}
                        ELSE Range(c.presets)
             g == gcdMany(TicksOf(selected))
             limit == SpacingLimit(fee)
             m == IF g <= 0 THEN limit ELSE LargestDivisor(g, limit)
             chosen == resolvePresetTickSpacing(c)
             spacing == IF chosen # None THEN chosen ELSE TICK_SPACINGS[fee]
             ticks == BoundariesOf(presets)
  <1>1. fee \in Nat
    BY CurveAssumption DEF Or, Typed, CurveTyped, MaybeNat
  <1>2. c.presets \in Seq({"low", "medium", "high"}) \union {None}
    BY DEF Typed, CurveTyped
  <1>3. selected \in Seq({"low", "medium", "high"}) /\ Range(selected) = presets
    <2>1. CASE Given(c.presets) = <<>>
      <3>1. selected = AllPresets
        BY <2>1 DEF Selected
      <3>2. AllPresets \in Seq({"low", "medium", "high"})
            /\ Range(AllPresets) = {"low", "medium", "high"}
        BY DEF AllPresets, Range
      <3> QED BY <2>1, <3>1, <3>2
    <2>2. CASE Given(c.presets) # <<>>
      <3>1. c.presets # None
        BY <2>2 DEF Given, Or
      <3>2. selected = c.presets
        BY <2>2 DEF Selected
      <3> QED BY <1>2, <2>2, <3>1, <3>2
    <2> QED BY <2>1, <2>2
  <1> DEFINE list == TicksOf(selected)
  <1>4. list \in Seq(Int) /\ {list[k] : k \in DOMAIN list} = ticks
    BY <1>3, TicksAreTheBoundaries
  <1>5. g \in Nat /\ \A d \in Nat \ {0} :
                       g % d = 0 <=> \A k \in DOMAIN list : AbsTick(list[k]) % d = 0
    BY <1>4, GcdManyDivisors
  <1>6. \A d \in Nat \ {0} : g % d = 0 <=> Divides(d, ticks)
    <2> HIDE DEF list, ticks, g
    <2> QED BY <1>4, <1>5 DEF Divides
  <1>7. limit \in Nat \ {0}
    BY <1>1, SpacingLimitIsPositive
  <1>8. chosen = UnlessSdk(m, fee)
    BY DEF resolvePresetTickSpacing
  <1> HIDE DEF g, limit, ticks, fee, list
  <1>9. m \in 1..limit /\ g % m = 0 /\ \A s \in (m + 1)..limit : g % s # 0
    <2>1. CASE g <= 0
      <3>1. g = 0 /\ g % limit = 0
        <4>1. g = 0
          BY <1>5, <2>1
        <4>2. limit * 0 = 0 /\ (limit * 0) % limit = 0
          BY <1>7, RemainderIsUnique
        <4> QED BY <4>1, <4>2
      <3>2. m = limit /\ (limit + 1)..limit = {}
        BY <1>7, <2>1
      <3> QED BY <1>7, <3>1, <3>2
    <2>2. CASE ~(g <= 0)
      <3>1. g \in Nat \ {0} /\ m = LargestDivisor(g, limit)
        BY <1>5, <2>2
      <3> QED BY <1>7, <3>1, LargestDivisorIs
    <2> QED BY <2>1, <2>2
  <1> HIDE DEF m
  <1>10. spacing = m
    <2>1. CASE fee \in DOMAIN TICK_SPACINGS /\ TICK_SPACINGS[fee] = m
      BY <1>8, <2>1 DEF UnlessSdk
    <2>2. CASE ~(fee \in DOMAIN TICK_SPACINGS /\ TICK_SPACINGS[fee] = m)
      <3>1. m # None
        BY <1>7, <1>9, BodiesAssumption
      <3> QED BY <1>8, <2>2, <3>1 DEF UnlessSdk
    <2> QED BY <2>1, <2>2
  <1> HIDE DEF spacing
  <1>11. m \in Nat \ {0} /\ \A s \in (m + 1)..limit : s \in Nat \ {0}
    BY <1>7, <1>9
  <1>12. Divides(spacing, ticks)
    BY <1>6, <1>9, <1>10, <1>11
  <1>13. \A s \in (spacing + 1)..limit : ~Divides(s, ticks)
    BY <1>6, <1>9, <1>10, <1>11
  <1> QED BY <1>12, <1>13 DEF SpacingIs, spacing, limit, ticks, fee

-----------------------------------------------------------------------------
(* The stages of a request *)

Sold ==
    /\ plan.forSale \in 1..input.supply /\ 5 * plan.forSale >= input.supply
    /\ input.limit # None => input.limit < input.supply

Locked ==
    /\ plan.forSale + Total(plan.allocations) = input.supply
    /\ \A k \in DOMAIN plan.allocations : plan.allocations[k].amount > 0

Spaced ==
    Curve.type = "preset" /\ Curve.spacing = None => SpacingIs(Curve, plan.spacing)

Stages == {"parse", "sale", "allocations", "fees", "curve", "initializer", "done"}
After(stages) == stage \in stages \/ Accepted

PlanFields == {"forSale", "allocations", "fees", "source", "spacing", "ranges", "destination"}

\* Each stage rests on what the stages before it have established.
TermsInv ==
    /\ Typed(input) /\ stage \in Stages /\ DOMAIN plan = PlanFields
    /\ stage # "done" => answer = None
    /\ After(Stages \ {"parse", "done"}) => WellFormed(input)
    /\ After({"allocations", "fees", "curve", "initializer"}) => Sold
    /\ After({"fees", "curve", "initializer"}) => Locked
    /\ After({"curve", "initializer"}) => Whole(plan.fees, input.owner)
    /\ After({"initializer"}) => Spaced

LEMMA TermsInvInit == TermsInit => TermsInv
  <1> SUFFICES ASSUME TermsInit PROVE TermsInv
    OBVIOUS
  <1>1. Typed(input) /\ answer = None /\ answer # "ok" /\ stage = "parse"
    BY BodiesAssumption DEF TermsInit
  <1>2. DOMAIN plan = PlanFields
    BY DEF TermsInit, PlanFields
  <1> QED BY <1>1, <1>2 DEF TermsInv, Stages, After, Accepted

LEMMA RefusingKeepsInv ==
    ASSUME TermsInv, NEW code, Done(code), code # "ok"
    PROVE  TermsInv'
  <1>1. stage' = "done" /\ answer' = code /\ UNCHANGED <<input, plan>>
    BY DEF Done, Conclude
  <1> QED BY <1>1 DEF TermsInv, Stages, After, Accepted

LEMMA ParseKeepsTerms ==
    ASSUME TermsInv, Parse
    PROVE  TermsInv'
  <1>1. stage = "parse" /\ answer = None /\ answer # "ok"
    BY BodiesAssumption DEF TermsInv, Parse
  <1>2. CASE WellFormed(input)
    <2>1. stage' = "sale" /\ UNCHANGED <<input, plan, answer>>
      BY <1>2 DEF Parse
    <2> QED BY <1>1, <1>2, <2>1 DEF TermsInv, Stages, After, Accepted
  <1>3. CASE ~WellFormed(input)
    BY <1>3, RefusingKeepsInv DEF Parse
  <1> QED BY <1>2, <1>3

LEMMA SaleKeepsTerms ==
    ASSUME TermsInv, ResolveSaleNumbers
    PROVE  TermsInv'
  <1> DEFINE sold == TokensForSale
  <1>1. stage = "sale" /\ answer = None /\ answer # "ok"
    BY BodiesAssumption DEF TermsInv, ResolveSaleNumbers
  <1>2. Typed(input) /\ WellFormed(input) /\ DOMAIN plan = PlanFields
    BY <1>1 DEF TermsInv, After, Stages
  <1>3. CASE Done("INVALID_ECONOMICS") \/ Done("INVALID_TOKEN_CONFIG")
    BY <1>3, RefusingKeepsInv
  <1>4. CASE ~(Done("INVALID_ECONOMICS") \/ Done("INVALID_TOKEN_CONFIG"))
    <2>1. InSupply(sold) /\ ~(input.limit # None /\ input.limit >= input.supply)
          /\ EnoughForSale(sold) /\ AllocationsFit(sold)
      BY <1>4 DEF ResolveSaleNumbers
    <2>2. plan' = [plan EXCEPT !.forSale = sold] /\ stage' = "allocations"
          /\ UNCHANGED <<input, answer>>
      BY <1>4, <2>1 DEF ResolveSaleNumbers
    <2> HIDE DEF sold
    <2>3. plan'.forSale = sold /\ DOMAIN plan' = PlanFields
      BY <1>2, <2>2 DEF PlanFields
    <2>4. input.supply \in Nat /\ (input.limit # None => input.limit \in Nat)
      BY <1>2 DEF Typed, MaybeNat
    <2>5. sold \in 1..input.supply /\ 5 * sold >= input.supply
      BY <2>1, <2>4 DEF InSupply, EnoughForSale
    <2>6. input.limit # None => input.limit < input.supply
      BY <2>1, <2>4
    <2>7. Sold'
      BY <2>2, <2>3, <2>5, <2>6 DEF Sold
    <2> QED BY <1>1, <1>2, <2>2, <2>3, <2>7 DEF TermsInv, Stages, After, Accepted
  <1> QED BY <1>3, <1>4

LEMMA AllocationsKeepTerms ==
    ASSUME TermsInv, ResolveAllocationPlan
    PROVE  TermsInv'
  <1> DEFINE rest == input.supply - plan.forSale
             own == <<[address |-> input.user, amount |-> rest,
                       duration |-> LOCK_DURATION, cliff |-> 0]>>
             entries == IF rest = 0 THEN <<>>
                        ELSE IF Given(input.allocations) # <<>> THEN input.allocations ELSE own
  <1>1. stage = "allocations" /\ answer = None /\ answer # "ok"
    BY BodiesAssumption DEF TermsInv, ResolveAllocationPlan
  <1>2. Typed(input) /\ WellFormed(input) /\ DOMAIN plan = PlanFields /\ Sold
    BY <1>1 DEF TermsInv, After, Stages
  <1>3. CASE Done("INVALID_ECONOMICS")
    BY <1>3, RefusingKeepsInv
  <1>4. CASE ~Done("INVALID_ECONOMICS")
    <2>1. /\ Total(entries) = rest /\ plan' = [plan EXCEPT !.allocations = entries]
          /\ stage' = "fees" /\ UNCHANGED <<input, answer>>
      BY <1>4 DEF ResolveAllocationPlan
    <2>2. input.supply \in Nat /\ plan.forSale \in 1..input.supply
      BY <1>2 DEF Typed, Sold
    <2>3. \A k \in DOMAIN entries : entries[k].amount > 0
      <3>1. CASE rest = 0
        BY <3>1
      <3>2. CASE rest # 0 /\ Given(input.allocations) # <<>>
        <4>1. input.allocations # None
          BY <3>2 DEF Given, Or
        <4>2. AllOf(input.allocations, VestingWellFormed)
          BY <1>2, <4>1 DEF WellFormed, CommonWellFormed, AllocationsWellFormed
        <4> QED BY <3>2, <4>2 DEF AllOf, VestingWellFormed, Positive
      <3>3. CASE rest # 0 /\ ~(Given(input.allocations) # <<>>)
        <4>1. rest > 0
          BY <2>2, <3>3
        <4>2. DOMAIN own = {1} /\ own[1].amount = rest
          OBVIOUS
        <4>3. entries = own
          BY <3>3
        <4> HIDE DEF own, entries, rest
        <4> QED BY <4>1, <4>2, <4>3
      <3> QED BY <3>1, <3>2, <3>3
    <2> HIDE DEF entries
    <2>4. plan'.allocations = entries /\ plan'.forSale = plan.forSale /\ DOMAIN plan' = PlanFields
      BY <1>2, <2>1 DEF PlanFields
    <2>5. Sold' /\ Locked'
      BY <1>2, <2>1, <2>2, <2>3, <2>4 DEF Sold, Locked
    <2> QED BY <1>1, <1>2, <2>1, <2>4, <2>5 DEF TermsInv, Stages, After, Accepted
  <1> QED BY <1>3, <1>4

LEMMA FeesKeepTerms ==
    ASSUME TermsInv, NormalizeFeeBeneficiaries
    PROVE  TermsInv'
  <1> DEFINE none == Given(input.beneficiaries) = <<>>
             entries == IF none THEN DefaultShares
                        ELSE IF OwnerIsThere THEN input.beneficiaries
                        ELSE Append(input.beneficiaries, ProtocolEntry)
  <1>1. stage = "fees" /\ answer = None /\ answer # "ok"
    BY BodiesAssumption DEF TermsInv, NormalizeFeeBeneficiaries
  <1>2. /\ Typed(input) /\ WellFormed(input) /\ DOMAIN plan = PlanFields /\ Sold /\ Locked
        /\ BeneficiariesWellFormed(input)
    BY <1>1 DEF TermsInv, After, Stages, WellFormed, CommonWellFormed
  <1>3. CASE Done("INVALID_FEE_BENEFICIARIES")
    BY <1>3, RefusingKeepsInv
  <1>4. CASE ~Done("INVALID_FEE_BENEFICIARIES")
    <2>1. none \/ (SharesAddUp /\ EntriesFit /\ (OwnerIsThere => OwnerHasEnough))
      BY <1>4 DEF NormalizeFeeBeneficiaries
    <2>2. Whole(entries, input.owner)
      <3>1. CASE none
        BY <3>1, DefaultSharesAreWhole
      <3>2. CASE ~none /\ OwnerIsThere
        BY <1>2, <2>1, <3>2, RequestedSharesAreWhole
      <3>3. CASE ~none /\ ~OwnerIsThere
        BY <1>2, <2>1, <3>3, CompletedSharesAreWhole
      <3> QED BY <3>1, <3>2, <3>3
    <2>3. /\ plan' = [plan EXCEPT !.fees = entries,
                                  !.source = IF none THEN "default" ELSE "request"]
          /\ stage' = "curve" /\ UNCHANGED <<input, answer>>
      BY <1>4, <2>1 DEF NormalizeFeeBeneficiaries
    <2> HIDE DEF entries, none
    <2>4. /\ plan'.fees = entries /\ plan'.forSale = plan.forSale
          /\ plan'.allocations = plan.allocations /\ DOMAIN plan' = PlanFields
      BY <1>2, <2>3 DEF PlanFields
    <2>5. Sold' /\ Locked'
      BY <1>2, <2>3, <2>4 DEF Sold, Locked
    <2>6. Whole(plan'.fees, input'.owner)
      BY <2>2, <2>3, <2>4
    <2> QED BY <1>1, <1>2, <2>3, <2>4, <2>5, <2>6 DEF TermsInv, Stages, After, Accepted, Whole
  <1> QED BY <1>3, <1>4

\* A step of the curve or the initializer leaves what was resolved before it.
LEMMA CurveStepsKeepInv ==
    ASSUME TermsInv, stage \in {"curve", "initializer"}, DOMAIN plan' = PlanFields,
           plan'.forSale = plan.forSale, plan'.allocations = plan.allocations,
           plan'.fees = plan.fees, UNCHANGED input, Spaced',
           \/ stage' = "initializer" /\ UNCHANGED answer
           \/ stage' = "done"
    PROVE  TermsInv'
  <1>1. Typed(input) /\ WellFormed(input) /\ Sold /\ Locked /\ Whole(plan.fees, input.owner)
    BY DEF TermsInv, After, Stages
  <1>2. Sold' /\ Locked' /\ Whole(plan'.fees, input'.owner)
    BY <1>1 DEF Sold, Locked
  <1>3. answer = None
    BY DEF TermsInv
  <1> QED BY <1>1, <1>2, <1>3 DEF TermsInv, Stages, After, Accepted, Whole

LEMMA PresetKeepsTerms ==
    ASSUME TermsInv, Preset
    PROVE  TermsInv'
  <1>1. Typed(input) /\ DOMAIN plan = PlanFields /\ stage = "curve" /\ Curve.type = "preset"
    BY DEF TermsInv, Preset
  <1>2. /\ plan' = [plan EXCEPT !.spacing = resolvePresetTickSpacing(Curve)]
        /\ stage' = "initializer" /\ UNCHANGED <<input, answer>>
    BY DEF Preset
  <1>3. /\ plan'.spacing = resolvePresetTickSpacing(Curve) /\ DOMAIN plan' = PlanFields
        /\ plan'.forSale = plan.forSale /\ plan'.allocations = plan.allocations
        /\ plan'.fees = plan.fees
    BY <1>1, <1>2 DEF PlanFields
  <1>4. Curve.spacing = None => SpacingIs(Curve, resolvePresetTickSpacing(Curve))
    BY <1>1, ChosenSpacingIsLargest DEF Curve
  <1>5. Spaced'
    BY <1>2, <1>3, <1>4 DEF Spaced, Curve, SpacingIs
  <1> QED BY <1>1, <1>2, <1>3, <1>5, CurveStepsKeepInv

LEMMA OtherCurvesKeepTerms ==
    ASSUME TermsInv, Ranges \/ Static \/ Dynamic
    PROVE  TermsInv'
  <1>1. DOMAIN plan = PlanFields /\ stage = "curve" /\ Curve.type # "preset"
    BY DEF TermsInv, Ranges, Static, Dynamic
  <1>2. CASE Done("INVALID_BIGINT")
    BY <1>2, RefusingKeepsInv
  <1>3. CASE ~Done("INVALID_BIGINT")
    <2>1. /\ \/ stage' = "initializer" /\ UNCHANGED answer
             \/ stage' = "done"
          /\ UNCHANGED input
      BY <1>3 DEF Ranges, Static, Dynamic, Conclude
    <2>2. \/ \E s, r : plan' = [plan EXCEPT !.spacing = s, !.ranges = r]
          \/ \E r : plan' = [plan EXCEPT !.ranges = r]
          \/ \E s : plan' = [plan EXCEPT !.spacing = s]
      <3>1. CASE Ranges
        <4>1. plan' = [plan EXCEPT !.spacing = resolveRangesTickSpacing(Curve),
                                   !.ranges = Curve.ranges]
          BY <1>3, <3>1 DEF Ranges
        <4> QED BY <4>1
      <3>2. CASE Static
        BY <3>2 DEF Static
      <3>3. CASE Dynamic
        BY <3>3 DEF Dynamic
      <3> QED BY <3>1, <3>2, <3>3
    <2>3. /\ DOMAIN plan' = PlanFields
          /\ plan'.forSale = plan.forSale /\ plan'.allocations = plan.allocations
          /\ plan'.fees = plan.fees
      BY <1>1, <2>2 DEF PlanFields
    <2>4. Spaced'
      BY <1>1, <2>1 DEF Spaced, Curve
    <2> QED BY <1>1, <2>1, <2>3, <2>4, CurveStepsKeepInv
  <1> QED BY <1>2, <1>3

LEMMA InitializerKeepsTerms ==
    ASSUME TermsInv, Initializer
    PROVE  TermsInv'
  <1>1. DOMAIN plan = PlanFields /\ stage = "initializer" /\ Spaced
    BY DEF TermsInv, Initializer, After
  <1>2. /\ plan' = [plan EXCEPT !.destination =
                      Or(input.initializer.beneficiaries, input.initializer.buyback)]
        /\ stage' = "done" /\ UNCHANGED input
    BY DEF Initializer, Conclude
  <1>3. /\ plan'.spacing = plan.spacing /\ DOMAIN plan' = PlanFields
        /\ plan'.forSale = plan.forSale /\ plan'.allocations = plan.allocations
        /\ plan'.fees = plan.fees
    BY <1>1, <1>2 DEF PlanFields
  <1>4. Spaced'
    BY <1>1, <1>2, <1>3 DEF Spaced, Curve, SpacingIs
  <1> QED BY <1>1, <1>2, <1>3, <1>4, CurveStepsKeepInv

LEMMA TermsInductive == TermsInv /\ [TermsNext]_termsVars => TermsInv'
  <1> SUFFICES ASSUME TermsInv, [TermsNext]_termsVars PROVE TermsInv'
    OBVIOUS
  <1>1. CASE UNCHANGED termsVars
    BY <1>1 DEF termsVars, TermsInv, After, Accepted, Sold, Locked, Spaced, Curve, SpacingIs,
       Whole
  <1>2. CASE TermsNext
    BY <1>2, ParseKeepsTerms, SaleKeepsTerms, AllocationsKeepTerms, FeesKeepTerms,
       PresetKeepsTerms, OtherCurvesKeepTerms, InitializerKeepsTerms DEF TermsNext
  <1> QED BY <1>1, <1>2

LEMMA TermsAlways == TermsSpec => []TermsInv
BY TermsInvInit, TermsInductive, PTL DEF TermsSpec

\* Of every accepted request of any size the supply is what is sold and what
\* is locked, at least a fifth of it is sold, and the limit on balances is
\* below it.
THEOREM SuppliesAreSpent == TermsSpec => []SupplyIsSpent
  <1>1. TermsInv => SupplyIsSpent
    <2> SUFFICES ASSUME TermsInv, Accepted PROVE SupplyIsSpent
      BY DEF SupplyIsSpent
    <2>1. Sold /\ Locked
      BY DEF TermsInv, After
    <2>2. AllOf(plan.allocations, LAMBDA e : e.amount > 0)
      BY <2>1 DEF Locked, AllOf
    <2> QED BY <2>1, <2>2 DEF Sold, Locked, SupplyIsSpent
  <1> QED BY <1>1, TermsAlways, PTL

\* The shares of the pool fees make one whole with the owner in it, for any
\* number of beneficiaries and any WAD that a twentieth divides.
THEOREM FeesMakeOneWhole == TermsSpec => []FeesAreWhole
  <1>1. TermsInv => FeesAreWhole
    BY DEF TermsInv, After, FeesAreWhole, Whole
  <1> QED BY <1>1, TermsAlways, PTL

\* Euclid's loop, folded over the ticks of any presets, and the search below
\* the limit find the largest spacing that divides every boundary.
THEOREM PresetSpacingsAreLargest == TermsSpec => []SpacingIsLargest
  <1>1. TermsInv => SpacingIsLargest
    BY DEF TermsInv, After, Spaced, SpacingIs, SpacingIsLargest
  <1> QED BY <1>1, TermsAlways, PTL

-----------------------------------------------------------------------------
(* What is documented of a request *)

\* resolveSaleNumbers() lets a request pass.
SalePasses ==
    /\ InSupply(TokensForSale) /\ EnoughForSale(TokensForSale) /\ AllocationsFit(TokensForSale)
    /\ ~(input.limit # None /\ input.limit >= input.supply)

LEMMA VestingAmounts ==
    ASSUME Typed(input), input.allocations # None
    PROVE  /\ Amounts(input.allocations) \in Seq(Nat)
           /\ Len(Amounts(input.allocations)) = Len(input.allocations)
           /\ \A k \in 1..Len(input.allocations) :
                Amounts(input.allocations)[k] = input.allocations[k].amount
           /\ Total(input.allocations) \in Nat
  <1> DEFINE S == [address : Address, amount : Nat, duration : Nat, cliff : Nat]
             list == input.allocations
  <1>1. list \in Seq(S)
    BY DEF Typed
  <1>2. \A e \in S : e.amount \in Nat
    OBVIOUS
  <1> HIDE DEF S
  <1>3. Amounts(list) \in Seq(Nat) /\ Len(Amounts(list)) = Len(list)
    BY <1>1, <1>2, AmountsAreNumbers
  <1>4. DOMAIN list = 1..Len(list)
    BY <1>1
  <1> HIDE DEF list
  <1>5. \A k \in 1..Len(list) : Amounts(list)[k] = list[k].amount
    BY <1>4 DEF Amounts
  <1>6. Total(list) \in Nat
    BY <1>3, PartsAreAtMostTheSum DEF Total, Amounts
  <1> QED BY <1>3, <1>5, <1>6 DEF list

LEMMA SaleIsDocumented ==
    ASSUME Typed(input), AllocationsWellFormed(input)
    PROVE  SalePasses <=> SaleDocumented(input)
  <1> DEFINE list == input.allocations
             sold == TokensForSale
  <1>1. Given(list) # <<>> <=> list # None
    <2>1. CASE list = None
      BY <2>1 DEF Given, Or
    <2>2. CASE list # None
      <3>1. Given(list) = list /\ Len(list) \in 1..MAX_VESTING_ALLOCATIONS
        BY <2>2 DEF Given, Or, AllocationsWellFormed
      <3>2. Len(list) # 0
        BY <3>1, TermsAssumption
      <3> QED BY <2>2, <3>1, <3>2
    <2> QED BY <2>1, <2>2
  <1>2. /\ SalePasses <=>
             /\ sold \in 1..input.supply
             /\ (sold < input.supply => 100 * sold >= 20 * input.supply)
             /\ (list # None => Explicit = input.supply - sold)
             /\ ~(input.limit # None /\ input.limit >= input.supply)
    BY <1>1 DEF SalePasses, InSupply, EnoughForSale, AllocationsFit
  <1>3. /\ SaleDocumented(input) <=>
             /\ sold \in 1..input.supply
             /\ (sold < input.supply => 100 * sold >= 20 * input.supply)
             /\ (list # None => Explicit = input.supply - sold)
             /\ (input.limit # None => input.limit < input.supply)
    BY DEF SaleDocumented, TokensForSale, Explicit
  <1>4. input.supply \in Nat /\ (input.limit # None => input.limit \in Nat)
    BY DEF Typed, MaybeNat
  <1>5. (input.limit # None => input.limit < input.supply)
        <=> ~(input.limit # None /\ input.limit >= input.supply)
    BY <1>4
  <1> QED BY <1>2, <1>3, <1>5

\* resolveAllocationPlan() refuses nothing that resolveSaleNumbers() let pass.
LEMMA AllocationsNeverRefuse ==
    ASSUME Typed(input), AllocationsWellFormed(input), SaleDocumented(input),
           plan.forSale = TokensForSale, ResolveAllocationPlan
    PROVE  stage' = "fees" /\ UNCHANGED <<input, answer>>
  <1> DEFINE rest == input.supply - plan.forSale
             list == input.allocations
             own == [address |-> input.user, amount |-> rest,
                     duration |-> LOCK_DURATION, cliff |-> 0]
             entries == IF rest = 0 THEN <<>>
                        ELSE IF Given(list) # <<>> THEN list ELSE <<own>>
  <1>1. input.supply \in Nat /\ plan.forSale \in 1..input.supply
    BY SaleIsDocumented DEF SalePasses, InSupply, Typed
  <1>2. rest \in Nat
    BY <1>1
  <1>3. list # None => Total(list) = rest
    <2> SUFFICES ASSUME list # None PROVE Total(list) = rest
      OBVIOUS
    <2>1. Given(list) = list
      BY DEF Given, Or
    <2> QED BY <2>1 DEF SaleDocumented, TokensForSale, Explicit
  <1>4. list # None => Total(list) > 0
    <2> SUFFICES ASSUME list # None PROVE Total(list) > 0
      OBVIOUS
    <2>1. Len(list) \in 1..MAX_VESTING_ALLOCATIONS /\ AllOf(list, VestingWellFormed)
      BY DEF AllocationsWellFormed
    <2>2. /\ Amounts(list) \in Seq(Nat) /\ Len(Amounts(list)) = Len(list)
          /\ \A k \in 1..Len(list) : Amounts(list)[k] = list[k].amount
          /\ Total(list) \in Nat
      BY VestingAmounts
    <2>3. 1 \in DOMAIN list /\ 1 \in DOMAIN Amounts(list) /\ 1 \in 1..Len(list)
      <3>1. list \in Seq([address : Address, amount : Nat, duration : Nat, cliff : Nat])
        BY DEF Typed
      <3> QED BY <2>1, <2>2, <3>1, TermsAssumption
    <2>4. list[1].amount > 0
      BY <2>1, <2>3 DEF AllOf, VestingWellFormed, Positive
    <2>5. Amounts(list)[1] <= Total(list)
      BY <2>2, <2>3, PartsAreAtMostTheSum DEF Total, Amounts
    <2>6. list[1].amount <= Total(list) /\ list[1].amount \in Nat
      <3>1. Amounts(list)[1] \in Nat
        BY <2>2, <2>3
      <3> QED BY <2>2, <2>3, <2>5, <3>1
    <2> QED BY <2>2, <2>4, <2>6
  <1>5. ~(rest = 0 /\ list # None)
    BY <1>2, <1>3, <1>4
  <1>6. Total(entries) = rest
    <2>1. CASE rest = 0
      <3>1. [i \in DOMAIN <<>> |-> <<>>[i].amount] = <<>>
        OBVIOUS
      <3> QED BY <2>1, <3>1, SumOfEmpty DEF Total
    <2>2. CASE rest # 0 /\ Given(list) # <<>>
      <3>1. list # None
        BY <2>2 DEF Given, Or
      <3> QED BY <1>3, <2>2, <3>1
    <2>3. CASE rest # 0 /\ Given(list) = <<>>
      <3>1. own.amount = rest
        OBVIOUS
      <3>2. entries = <<own>>
        BY <2>3
      <3> HIDE DEF own, entries
      <3> QED BY <1>2, <3>1, <3>2, TotalOfOne
    <2> QED BY <2>1, <2>2, <2>3
  <1> HIDE DEF rest, entries
  <1>7. plan' = [plan EXCEPT !.allocations = entries] /\ stage' = "fees" /\ UNCHANGED <<input, answer>>
    BY <1>5, <1>6 DEF ResolveAllocationPlan, rest, entries
  <1> QED BY <1>7

\* normalizeFeeBeneficiaries() lets a request pass.
FeesPass ==
    Given(input.beneficiaries) = <<>>
    \/ (SharesAddUp /\ EntriesFit /\ (OwnerIsThere => OwnerHasEnough))

\* The amounts of an account among the beneficiaries count for nothing.
AmountsWithout(entries, account) ==
    [k \in DOMAIN entries |->
       IF Account(entries[k].address) = account THEN 0 ELSE entries[k].amount]

LEMMA OwnerAndOthers ==
    ASSUME Typed(input), Given(input.beneficiaries) # <<>>, BeneficiariesWellFormed(input),
           NEW k \in DOMAIN input.beneficiaries,
           Account(input.beneficiaries[k].address) = Account(input.owner)
    PROVE  /\ input.beneficiaries[k].amount \in Nat
           /\ SumOf(AmountsWithout(input.beneficiaries, Account(input.owner))) \in Nat
           /\ Total(input.beneficiaries)
                = SumOf(AmountsWithout(input.beneficiaries, Account(input.owner)))
                  + input.beneficiaries[k].amount
           /\ OwnerHasEnough <=> input.beneficiaries[k].amount >= PROTOCOL_MIN_SHARE
  <1> DEFINE list == input.beneficiaries
             S == [address : Address, amount : Nat]
             others == AmountsWithout(list, Account(input.owner))
             s == Amounts(list)
  <1>1. list \in Seq(S) /\ Given(list) = list
    BY DEF Typed, Given, Or
  <1>2. Unique(list)
    BY <1>1 DEF BeneficiariesWellFormed
  <1>3. \A e \in S : e.amount \in Nat
    OBVIOUS
  <1> HIDE DEF S
  <1>4. s \in Seq(Nat) /\ Len(s) = Len(list)
    BY <1>1, <1>3, AmountsAreNumbers
  <1>5. DOMAIN s = DOMAIN list /\ \A j \in DOMAIN list : s[j] = list[j].amount
    BY DEF Amounts
  <1>6. \A j \in DOMAIN list : j # k => Account(list[j].address) # Account(input.owner)
    BY <1>2 DEF Unique
  <1>7. others = [s EXCEPT ![k] = 0]
    <2>1. \A j \in DOMAIN list : others[j] = IF j = k THEN 0 ELSE s[j]
      BY <1>5, <1>6 DEF AmountsWithout
    <2>2. others = [j \in DOMAIN list |-> others[j]]
      BY DEF AmountsWithout
    <2> HIDE DEF others
    <2>3. others = [j \in DOMAIN list |-> IF j = k THEN 0 ELSE s[j]]
      BY <2>1, <2>2
    <2> HIDE DEF s
    <2>4. [s EXCEPT ![k] = 0] = [j \in DOMAIN s |-> IF j = k THEN 0 ELSE s[j]]
      OBVIOUS
    <2> QED BY <1>5, <2>3, <2>4
  <1> HIDE DEF s, others
  <1>8. SumOf(s) = SumOf(others) + s[k] /\ s[k] \in Nat
    <2>1. k \in DOMAIN s
      BY <1>5
    <2>2. SumOf(s) = SumOf([s EXCEPT ![k] = 0]) + s[k]
      BY <1>4, <2>1, SumOfTheOthers
    <2>3. s[k] \in Nat
      BY <1>4, <2>1
    <2> QED BY <1>7, <2>2, <2>3
  <1>9. SumOf(others) \in Nat
    <2>1. others \in Seq(Nat)
      BY <1>4, <1>5, <1>7
    <2> QED BY <2>1, PartsAreAtMostTheSum
  <1>10. Total(list) = SumOf(s)
    BY DEF Total, s, Amounts
  <1>11. OwnerHasEnough <=> list[k].amount >= PROTOCOL_MIN_SHARE
    BY <1>6 DEF OwnerHasEnough
  <1> QED BY <1>5, <1>8, <1>9, <1>10, <1>11 DEF others

LEMMA FeesAreDocumented ==
    ASSUME Typed(input), BeneficiariesWellFormed(input)
    PROVE  FeesPass <=> FeesDocumented(input)
  <1> DEFINE list == input.beneficiaries
             n == Len(list)
             named == {Account(list[k].address) : k \in DOMAIN list}
             others == SumOf(AmountsWithout(list, Account(input.owner)))
  <1> SUFFICES ASSUME Given(list) # <<>> PROVE FeesPass <=> FeesDocumented(input)
    BY DEF FeesPass, FeesDocumented
  <1>1. list \in Seq([address : Address, amount : Nat]) /\ Given(list) = list
    BY DEF Typed, Given, Or
  <1>2. n \in Nat /\ DOMAIN list = 1..n
    BY <1>1
  <1>3. Unique(list) /\ n <= MAX_FEE_BENEFICIARIES
    BY <1>1 DEF BeneficiariesWellFormed
  <1>4. OwnerIsThere <=> Account(input.owner) \in named
    BY DEF OwnerIsThere
  <1>5. FeesDocumented(input) <=>
          IF Account(input.owner) \in named
          THEN Total(list) = WAD /\ 20 * others <= 19 * WAD
          ELSE 20 * others = 19 * WAD /\ Cardinality(named) < MAX_FEE_BENEFICIARIES
    BY DEF FeesDocumented, AmountsWithout
  <1>6. WAD \in Nat /\ PROTOCOL_MIN_SHARE \in Nat /\ 20 * PROTOCOL_MIN_SHARE = WAD
        /\ MAX_FEE_BENEFICIARIES \in Nat
    BY Twentieths, TermsAssumption
  <1>7. CASE OwnerIsThere
    <2>1. PICK k \in DOMAIN list : Account(list[k].address) = Account(input.owner)
      BY <1>7 DEF OwnerIsThere
    <2>2. /\ list[k].amount \in Nat /\ others \in Nat
          /\ Total(list) = others + list[k].amount
          /\ OwnerHasEnough <=> list[k].amount >= PROTOCOL_MIN_SHARE
      BY <2>1, OwnerAndOthers
    <2>3. FeesPass <=> Total(list) = WAD /\ n + 0 <= MAX_FEE_BENEFICIARIES /\ OwnerHasEnough
      BY <1>7 DEF FeesPass, SharesAddUp, EntriesFit
    <2> HIDE DEF others
    <2>4. FeesPass <=> Total(list) = WAD /\ list[k].amount >= PROTOCOL_MIN_SHARE
      BY <1>2, <1>3, <2>2, <2>3
    <2>5. Total(list) = WAD =>
            (list[k].amount >= PROTOCOL_MIN_SHARE <=> 20 * others <= 19 * WAD)
      <3> DEFINE a == list[k].amount
                 m == PROTOCOL_MIN_SHARE
      <3>1. a \in Nat /\ m \in Nat /\ WAD = 20 * m
        BY <1>6, <2>2
      <3>2. Total(list) = others + a
        BY <2>2
      <3> HIDE DEF a, m
      <3>3. others + a = 20 * m => (a >= m <=> 20 * others <= 19 * (20 * m))
        BY <2>2, <3>1
      <3> QED BY <3>1, <3>2, <3>3 DEF a, m
    <2> QED BY <1>4, <1>5, <1>7, <2>4, <2>5
  <1>8. CASE ~OwnerIsThere
    <2>1. others = Total(list)
      <3>1. \A k \in DOMAIN list : Account(list[k].address) # Account(input.owner)
        BY <1>8 DEF OwnerIsThere
      <3>2. AmountsWithout(list, Account(input.owner)) = [k \in DOMAIN list |-> list[k].amount]
        BY <3>1 DEF AmountsWithout
      <3> QED BY <3>2 DEF Total
    <2>2. Total(list) \in Nat
      <3> DEFINE S == [address : Address, amount : Nat]
      <3>1. \A e \in S : e.amount \in Nat
        OBVIOUS
      <3> HIDE DEF S
      <3>2. Amounts(list) \in Seq(Nat)
        BY <1>1, <3>1, AmountsAreNumbers DEF S
      <3> QED BY <3>2, PartsAreAtMostTheSum DEF Total, Amounts
    <2>3. Cardinality(named) = n
      <3> DEFINE f == [k \in 1..n |-> Account(list[k].address)]
      <3>1. DOMAIN f = 1..n /\ f = [k \in 1..n |-> f[k]]
        OBVIOUS
      <3>2. \A k \in 1..n : f[k] = Account(list[k].address)
        OBVIOUS
      <3> HIDE DEF f
      <3>3. {f[k] : k \in 1..n} = named
        BY <1>2, <3>2
      <3>4. \A i, j \in 1..n : i # j => f[i] # f[j]
        BY <1>2, <1>3, <3>2 DEF Unique
      <3> HIDE DEF n, named
      <3> QED BY <1>2, <3>1, <3>3, <3>4, AllDifferent
    <2>4. FeesPass <=> /\ Total(list) = WAD - PROTOCOL_MIN_SHARE
                       /\ n + 1 <= MAX_FEE_BENEFICIARIES
      BY <1>8 DEF FeesPass, SharesAddUp, EntriesFit
    <2>5. Total(list) = WAD - PROTOCOL_MIN_SHARE <=> 20 * Total(list) = 19 * WAD
      <3> DEFINE a == Total(list)
                 m == PROTOCOL_MIN_SHARE
      <3>1. a \in Nat /\ m \in Nat /\ WAD = 20 * m
        BY <1>6, <2>2
      <3> HIDE DEF a, m
      <3>2. a = 20 * m - m <=> 20 * a = 19 * (20 * m)
        BY <3>1
      <3> QED BY <3>1, <3>2 DEF a, m
    <2> HIDE DEF others, named, n
    <2>6. n + 1 <= MAX_FEE_BENEFICIARIES <=> Cardinality(named) < MAX_FEE_BENEFICIARIES
      BY <1>2, <1>6, <2>3
    <2> QED BY <1>4, <1>5, <1>8, <2>1, <2>4, <2>5, <2>6
  <1> QED BY <1>7, <1>8

-----------------------------------------------------------------------------
(* Curves *)

RangeLists == Seq([start : Nat, end : Nat \union {Open}, shares : Nat])

\* What rangesCurveConfigSchema looks at.
Chained(ranges) ==
    /\ \A i \in DOMAIN ranges : EndsAbove(ranges[i])
    /\ \A i \in 1..(Len(ranges) - 1) : Meets(ranges[i], ranges[i + 1])

\* What RangesDocumented says of the ends.
Caps(ranges) ==
    {r.start : r \in Range(ranges)} \union ({r.end : r \in Range(ranges)} \ {Open})
InsideOf(ranges) == {cap \in Caps(ranges) : \E r \in Range(ranges) : r.end = Open \/ cap < r.end}
CoversOf(ranges, cap) == {i \in DOMAIN ranges : Covers(ranges[i], cap)}

Ascending(ranges) == \A i, j \in DOMAIN ranges : i < j => ranges[i].start < ranges[j].start
Partition(ranges) ==
    /\ \A r \in Range(ranges) : Covers(r, r.start)
    /\ \A cap \in InsideOf(ranges) : Cardinality(CoversOf(ranges, cap)) = 1

LEMMA EndsOfRanges ==
    ASSUME NEW ranges \in RangeLists
    PROVE  /\ Len(ranges) \in Nat /\ DOMAIN ranges = 1..Len(ranges)
           /\ \A k \in 1..Len(ranges) : ranges[k].start \in Nat /\ ranges[k].end \in Nat \union {Open}
           /\ Range(ranges) = {ranges[k] : k \in 1..Len(ranges)}
           /\ Open \notin Nat
  <1> DEFINE S == [start : Nat, end : Nat \union {Open}, shares : Nat]
  <1>1. \A r \in S : r.start \in Nat /\ r.end \in Nat \union {Open}
    OBVIOUS
  <1>2. ranges \in Seq(S)
    BY DEF RangeLists
  <1> HIDE DEF S
  <1>3. Len(ranges) \in Nat /\ DOMAIN ranges = 1..Len(ranges)
    BY <1>2
  <1>4. \A k \in 1..Len(ranges) : ranges[k] \in S
    BY <1>2
  <1>5. Open \notin Nat
    BY CurveAssumption
  <1> QED BY <1>1, <1>3, <1>4, <1>5 DEF Range

\* One range and no other covers a cap.
LEMMA OneCovers ==
    ASSUME NEW ranges \in RangeLists, NEW cap
    PROVE  Cardinality(CoversOf(ranges, cap)) = 1
             <=> \E i \in DOMAIN ranges :
                   /\ Covers(ranges[i], cap)
                   /\ \A j \in DOMAIN ranges : Covers(ranges[j], cap) => j = i
  <1> DEFINE C == CoversOf(ranges, cap)
  <1>1. IsFiniteSet(C)
    <2>1. IsFiniteSet(DOMAIN ranges)
      BY EndsOfRanges, FS_Interval
    <2>2. C \in SUBSET DOMAIN ranges
      BY DEF CoversOf
    <2> QED BY <2>1, <2>2, FS_Subset
  <1>2. \A i : i \in C <=> i \in DOMAIN ranges /\ Covers(ranges[i], cap)
    BY DEF CoversOf
  <1> HIDE DEF C
  <1>3. Cardinality(C) = 1 <=> \E i : C = {i}
    BY <1>1, FS_Singleton
  <1>4. (\E i : C = {i}) <=> \E i \in C : \A j \in C : j = i
    OBVIOUS
  <1> QED BY <1>2, <1>3, <1>4 DEF C

\* Ranges that meet come one after the other.
LEMMA ChainedRangesAreApart ==
    ASSUME NEW ranges \in RangeLists, Chained(ranges)
    PROVE  \A i, j \in 1..Len(ranges) :
             i < j => /\ ranges[i].end \in Nat /\ ranges[i].end <= ranges[j].start
                      /\ ranges[i].start < ranges[i].end
  <1> DEFINE n == Len(ranges)
             a(k) == ranges[k].start
             b(k) == ranges[k].end
  <1>1. /\ n \in Nat /\ DOMAIN ranges = 1..n /\ Open \notin Nat
        /\ \A k \in 1..n : a(k) \in Nat /\ b(k) \in Nat \union {Open}
    BY EndsOfRanges
  <1>2. \A k \in 1..n : b(k) # Open => a(k) < b(k)
    BY <1>1 DEF Chained, EndsAbove
  <1>3. \A k \in 1..n - 1 : b(k) # Open /\ a(k + 1) = b(k)
    BY DEF Chained, Meets
  <1> HIDE DEF n, a, b
  <1> SUFFICES ASSUME NEW i \in 1..n
               PROVE  \A j \in i + 1..n : b(i) \in Nat /\ b(i) <= a(j) /\ a(i) < b(i)
    BY <1>1 DEF n, a, b
  <1> DEFINE Good(j) == b(i) \in Nat /\ b(i) <= a(j) /\ a(i) < b(i)
             Bad == {j \in i + 1..n : ~Good(j)}
  <1>4. Bad = {}
    <2> SUFFICES ASSUME Bad # {} PROVE FALSE
      OBVIOUS
    <2>1. PICK j \in Bad : \A m \in Bad : j <= m
      <3>1. Bad \in SUBSET Nat
        BY <1>1
      <3> HIDE DEF Bad
      <3> QED BY <3>1, LeastNat
    <2>2. j \in i + 1..n /\ ~Good(j)
      OBVIOUS
    <2>3. CASE j = i + 1
      <3>1. i \in 1..n - 1 /\ i \in 1..n
        BY <1>1, <2>2, <2>3
      <3> QED BY <1>1, <1>2, <1>3, <2>2, <2>3, <3>1
    <2>4. CASE j # i + 1
      <3>1. j - 1 \in i + 1..n /\ j - 1 \in 1..n - 1 /\ j - 1 \in 1..n /\ ~(j <= j - 1)
        BY <1>1, <2>2, <2>4
      <3>2. Good(j - 1)
        BY <2>1, <3>1
      <3>3. b(j - 1) \in Nat /\ a(j - 1) \in Nat /\ a(j - 1) < b(j - 1)
        BY <1>1, <1>2, <1>3, <3>1
      <3>4. a(j - 1 + 1) = b(j - 1) /\ j - 1 + 1 = j
        BY <1>1, <1>3, <2>2, <3>1
      <3>5. b(i) <= a(j)
        <4> DEFINE x == b(i)
                   y == a(j - 1)
                   z == b(j - 1)
        <4>1. x \in Nat /\ y \in Nat /\ z \in Nat /\ x <= y /\ y < z
          BY <3>2, <3>3
        <4>2. a(j) = z
          BY <3>4
        <4> HIDE DEF x, y, z
        <4> QED BY <4>1, <4>2 DEF x
      <3> QED BY <2>2, <3>2, <3>5
    <2> QED BY <2>3, <2>4
  <1> HIDE DEF Good
  <1>5. \A j \in i + 1..n : Good(j)
    BY <1>4
  <1> QED BY <1>5 DEF Good

LEMMA ChainedRangesPartition ==
    ASSUME NEW ranges \in RangeLists, Chained(ranges)
    PROVE  Ascending(ranges) /\ Partition(ranges)
  <1> DEFINE n == Len(ranges)
             a(k) == ranges[k].start
             b(k) == ranges[k].end
  <1>1. /\ n \in Nat /\ DOMAIN ranges = 1..n /\ Open \notin Nat
        /\ \A k \in 1..n : a(k) \in Nat /\ b(k) \in Nat \union {Open}
        /\ Range(ranges) = {ranges[k] : k \in 1..n}
    BY EndsOfRanges
  <1>2. \A k \in 1..n : b(k) # Open => a(k) < b(k)
    BY <1>1 DEF Chained, EndsAbove
  <1>3. \A k \in 1..n - 1 : b(k) # Open /\ a(k + 1) = b(k)
    BY DEF Chained, Meets
  <1>4. \A i, j \in 1..n : i < j => b(i) \in Nat /\ b(i) <= a(j) /\ a(i) < b(i)
    BY ChainedRangesAreApart
  <1>5. \A k \in 1..n, cap \in Nat :
          Covers(ranges[k], cap) <=> a(k) <= cap /\ (b(k) = Open \/ cap < b(k))
    BY DEF Covers
  <1>6. Caps(ranges) = {a(k) : k \in 1..n} \union ({b(k) : k \in 1..n} \ {Open})
    BY <1>1 DEF Caps
  <1>7. \A cap : cap \in InsideOf(ranges) <=>
                   cap \in Caps(ranges) /\ \E k \in 1..n : b(k) = Open \/ cap < b(k)
    BY <1>1 DEF InsideOf
  <1> HIDE DEF n, a, b
  <1>8. Ascending(ranges)
    <2>1. \A i, j \in 1..n : i < j => a(i) < a(j)
      BY <1>1, <1>4
    <2> QED BY <1>1, <2>1 DEF Ascending, a
  <1>9. \A r \in Range(ranges) : Covers(r, r.start)
    <2>1. \A k \in 1..n : Covers(ranges[k], a(k))
      BY <1>1, <1>2, <1>5
    <2> QED BY <1>1, <2>1 DEF a
  <1>10. ASSUME NEW cap \in InsideOf(ranges)
         PROVE  \E k \in 1..n : Covers(ranges[k], cap)
    <2>1. PICK m \in 1..n : b(m) = Open \/ cap < b(m)
      BY <1>7
    <2>2. CASE \E k \in 1..n : cap = a(k)
      BY <1>1, <1>2, <1>5, <2>2
    <2>3. CASE \E k \in 1..n : cap = b(k) /\ cap # Open
      <3>1. PICK k \in 1..n : cap = b(k) /\ cap # Open
        BY <2>3
      <3>2. cap \in Nat
        BY <1>1, <3>1
      <3>3. CASE k < n
        <4>1. k \in 1..n - 1 /\ k + 1 \in 1..n
          BY <1>1, <3>3
        <4>2. cap = a(k + 1)
          BY <1>3, <3>1, <4>1
        <4> QED BY <1>1, <1>2, <1>5, <4>1, <4>2
      <3>4. CASE ~(k < n)
        <4>1. k = n /\ (m = n \/ m < n)
          BY <1>1, <3>4
        <4>2. CASE m = n
          BY <3>1, <3>2, <2>1, <4>1, <4>2
        <4>3. CASE m < n
          <5>1. b(m) \in Nat /\ b(m) <= a(n) /\ a(n) \in Nat
            BY <1>1, <1>4, <4>1, <4>3
          <5>2. cap < b(m) /\ a(n) < cap
            BY <1>1, <1>2, <2>1, <3>1, <4>1, <5>1
          <5> QED BY <3>2, <5>1, <5>2
        <4> QED BY <4>1, <4>2, <4>3
      <3> QED BY <3>3, <3>4
    <2>4. cap \in Caps(ranges)
      BY <1>7
    <2> QED BY <1>6, <2>2, <2>3, <2>4
  <1>11. ASSUME NEW cap \in Nat, NEW i \in 1..n, NEW j \in 1..n,
                Covers(ranges[i], cap), Covers(ranges[j], cap), i < j
         PROVE  FALSE
    <2>1. cap < b(i) /\ b(i) <= a(j) /\ a(j) <= cap /\ b(i) \in Nat /\ a(j) \in Nat
      BY <1>1, <1>4, <1>5, <1>11
    <2> QED BY <2>1
  <1>12. \A cap \in InsideOf(ranges) : cap \in Nat
    BY <1>1, <1>6, <1>7
  <1>13. ASSUME NEW cap \in InsideOf(ranges)
         PROVE  Cardinality(CoversOf(ranges, cap)) = 1
    <2>1. PICK i \in 1..n : Covers(ranges[i], cap)
      BY <1>10
    <2>2. \A j \in 1..n : Covers(ranges[j], cap) => j = i
      <3> SUFFICES ASSUME NEW j \in 1..n, Covers(ranges[j], cap), j # i PROVE FALSE
        OBVIOUS
      <3>1. i < j \/ j < i
        BY <1>1
      <3> QED BY <1>11, <1>12, <2>1, <3>1
    <2> QED BY <1>1, <2>1, <2>2, OneCovers
  <1> QED BY <1>8, <1>9, <1>13 DEF Partition

LEMMA PartitionsAreChained ==
    ASSUME NEW ranges \in RangeLists, Ascending(ranges), Partition(ranges)
    PROVE  Chained(ranges)
  <1> DEFINE n == Len(ranges)
             a(k) == ranges[k].start
             b(k) == ranges[k].end
  <1>1. /\ n \in Nat /\ DOMAIN ranges = 1..n /\ Open \notin Nat
        /\ \A k \in 1..n : a(k) \in Nat /\ b(k) \in Nat \union {Open}
        /\ Range(ranges) = {ranges[k] : k \in 1..n}
    BY EndsOfRanges
  <1>2. \A k \in 1..n, cap \in Nat :
          Covers(ranges[k], cap) <=> a(k) <= cap /\ (b(k) = Open \/ cap < b(k))
    BY DEF Covers
  <1>3. Caps(ranges) = {a(k) : k \in 1..n} \union ({b(k) : k \in 1..n} \ {Open})
    BY <1>1 DEF Caps
  <1>4. \A cap : cap \in InsideOf(ranges) <=>
                   cap \in Caps(ranges) /\ \E k \in 1..n : b(k) = Open \/ cap < b(k)
    BY <1>1 DEF InsideOf
  <1>5. \A i, j \in 1..n : i < j => a(i) < a(j)
    BY <1>1 DEF Ascending
  <1>6. \A k \in 1..n : Covers(ranges[k], a(k))
    BY <1>1 DEF Partition
  <1>7. \A k \in 1..n : EndsAbove(ranges[k]) <=> (b(k) # Open => b(k) > a(k))
    BY DEF EndsAbove
  <1>8. \A k \in 1..n - 1 : Meets(ranges[k], ranges[k + 1]) <=> b(k) # Open /\ a(k + 1) = b(k)
    BY DEF Meets
  <1> HIDE DEF n, a, b
  <1>9. \A k \in 1..n : b(k) # Open => b(k) \in Nat /\ a(k) < b(k)
    BY <1>1, <1>2, <1>6
  <1>10. ASSUME NEW cap \in InsideOf(ranges), NEW i \in 1..n, NEW j \in 1..n,
                Covers(ranges[i], cap), Covers(ranges[j], cap)
         PROVE  i = j
    <2>1. Cardinality(CoversOf(ranges, cap)) = 1
      BY DEF Partition
    <2>2. PICK k \in DOMAIN ranges : \A m \in DOMAIN ranges : Covers(ranges[m], cap) => m = k
      BY <2>1, OneCovers
    <2> QED BY <1>1, <1>10, <2>2
  <1>11. \A k \in 1..n : a(k) \in InsideOf(ranges)
    BY <1>1, <1>3, <1>4, <1>9
  <1>12. ASSUME NEW k \in 1..n - 1 PROVE b(k) # Open /\ a(k + 1) = b(k)
    <2>1. k \in 1..n /\ k + 1 \in 1..n /\ k < k + 1 /\ k # k + 1
      BY <1>1
    <2>2. a(k) \in Nat /\ a(k + 1) \in Nat /\ a(k) < a(k + 1) /\ a(k) <= a(k + 1)
      BY <1>1, <1>5, <2>1
    <2>3. ~Covers(ranges[k], a(k + 1))
      BY <1>6, <1>10, <1>11, <2>1
    <2>4. b(k) # Open /\ b(k) \in Nat /\ a(k) < b(k) /\ b(k) <= a(k + 1)
      BY <1>1, <1>2, <1>9, <2>1, <2>2, <2>3
    <2>5. ASSUME b(k) < a(k + 1) PROVE FALSE
      <3>1. b(k) \in InsideOf(ranges)
        <4>1. b(k) \in Caps(ranges)
          BY <1>3, <2>1, <2>4
        <4>2. b(k + 1) = Open \/ b(k) < b(k + 1)
          BY <1>9, <2>1, <2>2, <2>4, <2>5
        <4> QED BY <1>4, <2>1, <4>1, <4>2
      <3>2. PICK m \in DOMAIN ranges : Covers(ranges[m], b(k))
        BY <3>1, OneCovers DEF Partition
      <3>3. m \in 1..n /\ a(m) <= b(k) /\ (b(m) = Open \/ b(k) < b(m)) /\ a(m) \in Nat
        BY <1>1, <1>2, <2>4, <3>2
      <3>4. m < k \/ m = k \/ m = k + 1 \/ k + 1 < m
        BY <1>1, <3>3
      <3>5. CASE m = k
        BY <2>4, <3>3, <3>5
      <3>6. CASE m = k + 1 \/ k + 1 < m
        <4>1. a(k + 1) <= a(m)
          BY <1>5, <2>1, <2>2, <3>3, <3>6
        <4> QED BY <2>2, <2>4, <2>5, <3>3, <4>1
      <3>7. CASE m < k
        <4>1. a(m) < a(k)
          BY <1>5, <2>1, <3>3, <3>7
        <4>2. Covers(ranges[m], a(k))
          <5>1. b(m) = Open \/ a(k) < b(m)
            BY <1>1, <2>2, <2>4, <3>3
          <5> QED BY <1>2, <2>2, <3>3, <4>1, <5>1
        <4>3. m = k
          BY <1>6, <1>10, <1>11, <2>1, <3>3, <4>2
        <4> QED BY <2>1, <3>3, <3>7, <4>3
      <3> QED BY <3>4, <3>5, <3>6, <3>7
    <2> QED BY <2>2, <2>4, <2>5
  <1>13. \A k \in 1..n : b(k) # Open => b(k) > a(k)
    BY <1>1, <1>9
  <1>14. /\ \A k \in DOMAIN ranges : EndsAbove(ranges[k])
         /\ \A k \in 1..n - 1 : Meets(ranges[k], ranges[k + 1])
    BY <1>1, <1>7, <1>8, <1>12, <1>13
  <1> QED BY <1>14 DEF Chained, n

LEMMA RangesAreDocumented ==
    ASSUME NEW c, c.ranges \in RangeLists
    PROVE  RangesWellFormed(c) /\ AllPositive(c.ranges)
             <=> FeeAndSpacing(c) /\ RangesDocumented(c.ranges)
  <1> DEFINE ranges == c.ranges
  <1>1. RangesWellFormed(c) <=> /\ FeeAndSpacing(c) /\ ranges # <<>> /\ Chained(ranges)
                                /\ Shares(ranges) = WAD
    BY DEF RangesWellFormed, Chained
  <1>2. RangesDocumented(ranges) <=> /\ ranges # <<>> /\ AllPositive(ranges)
                                     /\ Shares(ranges) = WAD
                                     /\ Ascending(ranges) /\ Partition(ranges)
    BY DEF RangesDocumented, Ascending, Partition, InsideOf, Caps, CoversOf
  <1>3. Chained(ranges) <=> Ascending(ranges) /\ Partition(ranges)
    BY ChainedRangesPartition, PartitionsAreChained
  <1> QED BY <1>1, <1>2, <1>3

\* The remainder says whether whole steps make the total.
LEMMA MultiplesAreWhole ==
    ASSUME NEW x \in Nat \ {0}, NEW d \in Nat \ {0}
    PROVE  x % d = 0 <=> IsMultiple(x, d)
  <1>1. ASSUME x % d = 0 PROVE IsMultiple(x, d)
    <2>1. PICK k \in Nat : x = d * k
      BY <1>1, ModMultiple DEF Multiple
    <2>2. k # 0
      BY <2>1
    <2>3. k * d = d * k /\ k <= d * k
      BY <2>2
    <2>4. k \in 1..x /\ k * d = x
      BY <2>1, <2>2, <2>3
    <2> QED BY <2>4 DEF IsMultiple
  <1>2. ASSUME IsMultiple(x, d) PROVE x % d = 0
    <2>1. PICK k \in 1..x : k * d = x
      BY <1>2 DEF IsMultiple
    <2>2. k \in Nat /\ x = d * k
      BY <2>1
    <2>3. Multiple(d, x)
      BY <2>2 DEF Multiple
    <2> QED BY <2>3, ModMultiple
  <1> QED BY <1>1, <1>2

LEMMA DynamicIsDocumented ==
    ASSUME NEW c, CurveTyped(c), c.type = "dynamic"
    PROVE  DynamicWellFormed(c) <=> /\ InRange(c.fee, 0, V4_MAX_FEE)
                                    /\ InRange(c.spacing, 1, DOPPLER_MAX_TICK_SPACING)
                                    /\ DynamicDocumented(c)
  <1>1. /\ {c.min, c.start, c.minProceeds, c.maxProceeds} \subseteq Nat
        /\ {c.duration, c.epoch, c.spacing, c.gamma} \subseteq MaybeNat \ {0}
    BY DEF CurveTyped
  <1> DEFINE duration == Or(c.duration, DEFAULT_AUCTION_DURATION)
             epoch == Or(c.epoch, DEFAULT_EPOCH_LENGTH)
             spacing == Or(c.spacing, DOPPLER_MAX_TICK_SPACING)
  <1>2. duration \in Nat \ {0} /\ epoch \in Nat \ {0} /\ spacing \in Nat \ {0}
    BY <1>1, CurveAssumption DEF Or, MaybeNat
  <1>3. EpochsFit(c) <=> IsMultiple(duration, epoch)
    BY <1>2, MultiplesAreWhole DEF EpochsFit
  <1>4. (c.gamma # None => c.gamma % spacing = 0) <=> (c.gamma # None => IsMultiple(c.gamma, spacing))
    <2> SUFFICES ASSUME c.gamma # None PROVE c.gamma % spacing = 0 <=> IsMultiple(c.gamma, spacing)
      OBVIOUS
    <2>1. c.gamma \in Nat \ {0}
      BY <1>1 DEF MaybeNat
    <2> QED BY <1>2, <2>1, MultiplesAreWhole
  <1>5. (c.maxProceeds > 0 <=> 0 < c.maxProceeds)
        /\ (c.minProceeds <= c.maxProceeds <=> ~(c.maxProceeds < c.minProceeds))
    BY <1>1
  <1>6. (c.fee \notin DOMAIN TICK_SPACINGS \union {None} => c.spacing # None)
        <=> c.fee \in {None} \union DOMAIN TICK_SPACINGS \/ c.spacing # None
    OBVIOUS
  <1> QED BY <1>3, <1>4, <1>5, <1>6 DEF DynamicWellFormed, DynamicDocumented

LEMMA StaticIsDocumented ==
    ASSUME NEW c, CurveTyped(c), c.type = "static"
    PROVE  StaticWellFormed(c) <=>
             /\ c.fee \in {None, 100, 500, 3000, 10000} /\ InRange(c.maxShare, 1, WAD)
             /\ c.preset # None \/ c.start < c.end
  <1>1. c.start \in Nat /\ c.end \in Nat
    BY DEF CurveTyped
  <1>2. c.end > c.start <=> c.start < c.end
    BY <1>1
  <1> QED BY <1>2 DEF StaticWellFormed

LEMMA InitializerIsDocumented ==
    ASSUME NEW r, InitializerTyped(r)
    PROVE  InitializerWellFormed(r) <=>
             /\ InRange(r.start, 0, MAX_HOOK_FEE) /\ InRange(r.end, 0, MAX_HOOK_FEE)
             /\ Len(Given(r.beneficiaries)) <= 10
             /\ InitializerDocumented(r)
  <1> DEFINE list == r.beneficiaries
             n == Len(list)
             accounts == {e.account : e \in Range(list)}
             Apart == \A i, j \in DOMAIN list : i # j => list[i].account # list[j].account
             Beneficiaries == /\ list # <<>> /\ AllPositive(list) /\ Shares(list) = WAD
                              /\ Cardinality(accounts) = Len(list)
  <1>1. r.start \in Nat /\ r.end \in MaybeNat /\ r.duration \in MaybeNat
    BY DEF InitializerTyped
  <1>2. ASSUME list # None
        PROVE  RehypeBeneficiariesWellFormed(list)
                 <=> Len(Given(list)) <= 10 /\ Beneficiaries
    <2>1. list \in Seq([account : STRING, shares : Nat]) /\ Given(list) = list
      BY <1>2 DEF InitializerTyped, Given, Or
    <2>2. n \in Nat /\ DOMAIN list = 1..n /\ (list # <<>> <=> n # 0)
      BY <2>1
    <2>3. Cardinality(accounts) = n <=> Apart
      <3> DEFINE f == [k \in 1..n |-> list[k].account]
      <3>1. DOMAIN f = 1..n /\ f = [k \in 1..n |-> f[k]]
        OBVIOUS
      <3>2. \A k \in 1..n : f[k] = list[k].account
        OBVIOUS
      <3> HIDE DEF f
      <3>3. {f[k] : k \in 1..n} = accounts
        BY <2>2, <3>2 DEF Range
      <3>4. Apart <=> \A i, j \in 1..n : i # j => f[i] # f[j]
        BY <2>2, <3>2
      <3> HIDE DEF n, accounts, Apart
      <3> QED BY <2>2, <3>1, <3>3, <3>4, AllDifferent
    <2>4. RehypeBeneficiariesWellFormed(list)
            <=> n \in 1..10 /\ AllPositive(list) /\ Apart /\ Shares(list) = WAD
      BY DEF RehypeBeneficiariesWellFormed
    <2>5. n \in 1..10 <=> n # 0 /\ n <= 10
      <3>1. n \in Nat
        BY <2>2
      <3> HIDE DEF n
      <3> QED BY <3>1
    <2> HIDE DEF Apart, accounts
    <2> QED BY <2>1, <2>2, <2>3, <2>4, <2>5
  <1>3. ASSUME list = None PROVE Len(Given(list)) <= 10
    <2>1. Given(list) = <<>>
      BY <1>3 DEF Given, Or
    <2>2. Len(<<>>) <= 10
      OBVIOUS
    <2> QED BY <2>1, <2>2
  <1>4. DestinationWellFormed(r)
          <=> /\ (r.buyback = None) <=> (list # None)
              /\ list # None => Beneficiaries
              /\ Len(Given(list)) <= 10
    <2> HIDE DEF Beneficiaries
    <2> QED BY <1>2, <1>3 DEF DestinationWellFormed
  <1>5. DecayWellFormed(r)
          <=> (r.end \notin {None, r.start} => r.end < r.start /\ r.duration \notin {None, 0})
    <2>1. CASE r.end = None
      <3>1. Or(r.end, r.start) = r.start
        BY <2>1 DEF Or
      <3> QED BY <1>1, <2>1, <3>1 DEF DecayWellFormed
    <2>2. CASE r.end # None
      <3>1. Or(r.end, r.start) = r.end /\ r.end \in Nat
        BY <1>1, <2>2 DEF Or, MaybeNat
      <3>2. Or(r.duration, 0) > 0 <=> r.duration \notin {None, 0}
        <4>1. CASE r.duration = None
          <5>1. Or(r.duration, 0) = 0
            BY <4>1 DEF Or
          <5> QED BY <4>1, <5>1
        <4>2. CASE r.duration # None
          <5>1. Or(r.duration, 0) = r.duration /\ r.duration \in Nat
            BY <1>1, <4>2 DEF Or, MaybeNat
          <5> QED BY <4>2, <5>1
        <4> QED BY <4>1, <4>2
      <3>3. DecayWellFormed(r)
              <=> r.start >= r.end /\ (r.start > r.end => r.duration \notin {None, 0})
        BY <3>1, <3>2 DEF DecayWellFormed
      <3> QED BY <1>1, <2>2, <3>1, <3>3
    <2> QED BY <2>1, <2>2
  <1>6. SidesAddUp(r) <=> SumOf(r.asset) = WAD /\ SumOf(r.numeraire) = WAD
    BY DEF SidesAddUp
  <1>7. InitializerDocumented(r) <=>
          /\ (r.buyback = None) <=> (list # None)
          /\ list # None => Beneficiaries
          /\ r.end \notin {None, r.start} => r.end < r.start /\ r.duration \notin {None, 0}
          /\ SumOf(r.asset) = WAD /\ SumOf(r.numeraire) = WAD
    BY DEF InitializerDocumented
  <1> HIDE DEF Beneficiaries, list
  <1> QED BY <1>4, <1>5, <1>6, <1>7 DEF InitializerWellFormed, list

\* The schema of an auction, with the share of zero that the service refuses,
\* takes what is documented of it.
LEMMA AuctionIsDocumented ==
    ASSUME NEW i, Typed(i)
    PROVE  AuctionWellFormed(i) /\ (i.curve.type = "ranges" => AllPositive(i.curve.ranges))
             <=> InBounds(i) /\ AuctionDocumented(i)
  <1> DEFINE c == i.curve
             r == i.initializer
  <1>1. CurveTyped(c) /\ (Multicurve(c) => InitializerTyped(r))
    BY DEF Typed
  <1>2. CASE c.type = "preset"
    <2>1. Multicurve(c) /\ c.type # "static" /\ c.type # "dynamic" /\ c.type # "ranges"
      BY <1>2 DEF Multicurve
    <2>2. AuctionWellFormed(i) <=> FeeAndSpacing(c) /\ InitializerWellFormed(r)
      BY <1>2, <2>1 DEF AuctionWellFormed, CurveWellFormed
    <2>3. AuctionDocumented(i) <=> InitializerDocumented(r)
      BY <1>2 DEF AuctionDocumented
    <2> QED BY <1>1, <2>1, <2>2, <2>3, InitializerIsDocumented DEF InBounds
  <1>3. CASE c.type = "ranges"
    <2>1. Multicurve(c) /\ c.type # "static" /\ c.type # "dynamic"
      BY <1>3 DEF Multicurve
    <2>2. c.ranges \in RangeLists
      BY <1>1, <1>3 DEF CurveTyped, RangeLists
    <2>3. AuctionWellFormed(i) <=> RangesWellFormed(c) /\ InitializerWellFormed(r)
      BY <1>3, <2>1 DEF AuctionWellFormed, CurveWellFormed
    <2>4. AuctionDocumented(i) <=> RangesDocumented(c.ranges) /\ InitializerDocumented(r)
      BY <1>3 DEF AuctionDocumented
    <2>5. RangesWellFormed(c) /\ AllPositive(c.ranges)
            <=> FeeAndSpacing(c) /\ RangesDocumented(c.ranges)
      BY <2>2, RangesAreDocumented
    <2> QED BY <1>1, <1>3, <2>1, <2>3, <2>4, <2>5, InitializerIsDocumented DEF InBounds
  <1>4. CASE c.type = "static"
    <2>1. ~Multicurve(c)
      BY <1>4 DEF Multicurve
    <2>2. AuctionWellFormed(i) <=> StaticWellFormed(c)
      BY <1>4, <2>1 DEF AuctionWellFormed, CurveWellFormed
    <2>3. AuctionDocumented(i) <=> c.preset # None \/ c.start < c.end
      BY <1>4 DEF AuctionDocumented
    <2> QED BY <1>1, <1>4, <2>1, <2>2, <2>3, StaticIsDocumented DEF InBounds
  <1>5. CASE c.type = "dynamic"
    <2>1. ~Multicurve(c)
      BY <1>5 DEF Multicurve
    <2>2. AuctionWellFormed(i) <=> DynamicWellFormed(c)
      BY <1>5, <2>1 DEF AuctionWellFormed, CurveWellFormed
    <2>3. AuctionDocumented(i) <=> DynamicDocumented(c)
      BY <1>5 DEF AuctionDocumented
    <2> QED BY <1>1, <1>5, <2>1, <2>2, <2>3, DynamicIsDocumented DEF InBounds
  <1> QED BY <1>1, <1>2, <1>3, <1>4, <1>5 DEF CurveTyped

-----------------------------------------------------------------------------
(* What each stage has decided *)

AllDocumented(i) ==
    /\ CommonWellFormed(i) /\ InBounds(i)
    /\ SaleDocumented(i) /\ FeesDocumented(i) /\ AuctionDocumented(i)

\* A stage lets exactly what is documented of its part of the request pass.
DecisionInv ==
    /\ stage \in {"allocations", "fees", "curve", "initializer"} => SaleDocumented(input)
    /\ stage = "allocations" => plan.forSale = TokensForSale
    /\ stage \in {"curve", "initializer"} => FeesDocumented(input)
    /\ stage = "initializer" =>
         Multicurve(Curve) /\ (Curve.type = "ranges" => AllPositive(Curve.ranges))
    /\ stage = "done" => (Accepted <=> AllDocumented(input))

LEMMA RefusalsAreDocumented ==
    ASSUME NEW code, Done(code), code # "ok", ~AllDocumented(input)
    PROVE  DecisionInv'
  <1>1. stage' = "done" /\ answer' = code /\ UNCHANGED <<input, plan>>
    BY DEF Done, Conclude
  <1> QED BY <1>1 DEF DecisionInv, Accepted

LEMMA WellFormedParts ==
    ASSUME TermsInv, stage \in {"sale", "allocations", "fees", "curve", "initializer"}
    PROVE  /\ Typed(input) /\ CommonWellFormed(input) /\ AuctionWellFormed(input)
           /\ AllocationsWellFormed(input) /\ BeneficiariesWellFormed(input)
           /\ answer = None /\ answer # "ok"
  BY BodiesAssumption DEF TermsInv, After, Stages, WellFormed, CommonWellFormed

LEMMA ParseDecides ==
    ASSUME TermsInv, Parse PROVE DecisionInv'
  <1>1. Typed(input)
    BY DEF TermsInv
  <1>2. CASE WellFormed(input)
    <2>1. stage' = "sale"
      BY <1>2 DEF Parse
    <2> QED BY <2>1 DEF DecisionInv
  <1>3. CASE ~WellFormed(input)
    <2>1. ~AllDocumented(input)
      BY <1>1, <1>3, AuctionIsDocumented DEF AllDocumented, WellFormed
    <2> QED BY <1>3, <2>1, RefusalsAreDocumented DEF Parse
  <1> QED BY <1>2, <1>3

LEMMA SaleDecides ==
    ASSUME TermsInv, ResolveSaleNumbers PROVE DecisionInv'
  <1>1. stage = "sale"
    BY DEF ResolveSaleNumbers
  <1>2. Typed(input) /\ AllocationsWellFormed(input) /\ DOMAIN plan = PlanFields
    BY <1>1, WellFormedParts DEF TermsInv
  <1>3. CASE SalePasses
    <2> DEFINE sold == TokensForSale
    <2>1. plan' = [plan EXCEPT !.forSale = sold] /\ stage' = "allocations"
          /\ UNCHANGED <<input, answer>>
      BY <1>3 DEF ResolveSaleNumbers, SalePasses
    <2>2. SaleDocumented(input)
      BY <1>2, <1>3, SaleIsDocumented
    <2>3. TokensForSale' = sold
      BY <2>1 DEF TokensForSale, Explicit
    <2> HIDE DEF sold
    <2>4. plan'.forSale = sold
      BY <1>2, <2>1 DEF PlanFields
    <2> QED BY <2>1, <2>2, <2>3, <2>4 DEF DecisionInv
  <1>4. CASE ~SalePasses
    <2>1. ~AllDocumented(input)
      BY <1>2, <1>4, SaleIsDocumented DEF AllDocumented
    <2>2. Done("INVALID_ECONOMICS") \/ Done("INVALID_TOKEN_CONFIG")
      BY <1>4 DEF ResolveSaleNumbers, SalePasses
    <2> QED BY <2>1, <2>2, RefusalsAreDocumented
  <1> QED BY <1>3, <1>4

LEMMA AllocationsDecide ==
    ASSUME TermsInv, DecisionInv, ResolveAllocationPlan PROVE DecisionInv'
  <1>1. stage = "allocations" /\ SaleDocumented(input) /\ plan.forSale = TokensForSale
    BY DEF ResolveAllocationPlan, DecisionInv
  <1>2. Typed(input) /\ AllocationsWellFormed(input)
    BY <1>1, WellFormedParts
  <1>3. stage' = "fees" /\ UNCHANGED <<input, answer>>
    BY <1>1, <1>2, AllocationsNeverRefuse
  <1> QED BY <1>1, <1>3 DEF DecisionInv

LEMMA FeesDecide ==
    ASSUME TermsInv, DecisionInv, NormalizeFeeBeneficiaries PROVE DecisionInv'
  <1>1. stage = "fees" /\ SaleDocumented(input)
    BY DEF NormalizeFeeBeneficiaries, DecisionInv
  <1>2. Typed(input) /\ BeneficiariesWellFormed(input)
    BY <1>1, WellFormedParts
  <1>3. FeesPass <=> FeesDocumented(input)
    BY <1>2, FeesAreDocumented
  <1>4. CASE FeesPass
    <2>1. stage' = "curve" /\ UNCHANGED input
      BY <1>4 DEF NormalizeFeeBeneficiaries, FeesPass
    <2> QED BY <1>1, <1>3, <1>4, <2>1 DEF DecisionInv
  <1>5. CASE ~FeesPass
    <2>1. ~AllDocumented(input)
      BY <1>3, <1>5 DEF AllDocumented
    <2>2. Done("INVALID_FEE_BENEFICIARIES")
      BY <1>5 DEF NormalizeFeeBeneficiaries, FeesPass
    <2> QED BY <2>1, <2>2, RefusalsAreDocumented
  <1> QED BY <1>4, <1>5

LEMMA CurvesDecide ==
    ASSUME TermsInv, DecisionInv, Preset \/ Ranges \/ Static \/ Dynamic PROVE DecisionInv'
  <1>1. stage = "curve" /\ SaleDocumented(input) /\ FeesDocumented(input)
    BY DEF Preset, Ranges, Static, Dynamic, DecisionInv
  <1>2. Typed(input) /\ CommonWellFormed(input) /\ AuctionWellFormed(input)
    BY <1>1, WellFormedParts
  <1>3. InBounds(input) /\ AuctionDocumented(input)
          <=> (Curve.type = "ranges" => AllPositive(Curve.ranges))
    BY <1>2, AuctionIsDocumented DEF Curve
  <1>4. CASE Preset
    <2>1. stage' = "initializer" /\ UNCHANGED input /\ Curve.type = "preset"
      BY <1>4 DEF Preset
    <2> QED BY <1>1, <2>1 DEF DecisionInv, Curve, Multicurve
  <1>5. CASE Ranges /\ AllPositive(Curve.ranges)
    <2>1. stage' = "initializer" /\ UNCHANGED input /\ Curve.type = "ranges"
      BY <1>5 DEF Ranges
    <2> QED BY <1>1, <1>5, <2>1 DEF DecisionInv, Curve, Multicurve
  <1>6. CASE Ranges /\ ~AllPositive(Curve.ranges)
    <2>1. Done("INVALID_BIGINT") /\ Curve.type = "ranges"
      BY <1>6 DEF Ranges
    <2>2. ~AllDocumented(input)
      BY <1>3, <1>6, <2>1 DEF AllDocumented
    <2> QED BY <2>1, <2>2, RefusalsAreDocumented
  <1>7. CASE Static \/ Dynamic
    <2>1. /\ stage' = "done" /\ answer' = "ok" /\ UNCHANGED input
          /\ Curve.type \in {"static", "dynamic"}
      BY <1>7 DEF Static, Dynamic, Conclude
    <2>2. AllDocumented(input)
      BY <1>1, <1>2, <1>3, <2>1 DEF AllDocumented
    <2> QED BY <2>1, <2>2 DEF DecisionInv, Accepted
  <1> QED BY <1>4, <1>5, <1>6, <1>7

LEMMA InitializerDecides ==
    ASSUME TermsInv, DecisionInv, Initializer PROVE DecisionInv'
  <1>1. /\ stage = "initializer" /\ SaleDocumented(input) /\ FeesDocumented(input)
        /\ Curve.type = "ranges" => AllPositive(Curve.ranges)
    BY DEF Initializer, DecisionInv
  <1>2. Typed(input) /\ CommonWellFormed(input) /\ AuctionWellFormed(input)
    BY <1>1, WellFormedParts
  <1>3. InBounds(input) /\ AuctionDocumented(input)
    BY <1>1, <1>2, AuctionIsDocumented DEF Curve
  <1>4. AllDocumented(input)
    BY <1>1, <1>2, <1>3 DEF AllDocumented
  <1>5. stage' = "done" /\ answer' = "ok" /\ UNCHANGED input
    BY DEF Initializer, Conclude
  <1> QED BY <1>4, <1>5 DEF DecisionInv, Accepted

LEMMA DecisionsAlways == TermsSpec => [](TermsInv /\ DecisionInv)
  <1>1. TermsInit => DecisionInv
    BY DEF TermsInit, DecisionInv
  <1>2. TermsInv /\ DecisionInv /\ [TermsNext]_termsVars => DecisionInv'
    <2> SUFFICES ASSUME TermsInv, DecisionInv, [TermsNext]_termsVars PROVE DecisionInv'
      OBVIOUS
    <2>1. CASE UNCHANGED termsVars
      BY <2>1 DEF termsVars, DecisionInv, TokensForSale, Explicit, Curve, Accepted
    <2>2. CASE TermsNext
      BY <2>2, ParseDecides, SaleDecides, AllocationsDecide, FeesDecide, CurvesDecide,
         InitializerDecides DEF TermsNext
    <2> QED BY <2>1, <2>2
  <1> QED BY <1>1, <1>2, TermsInvInit, TermsInductive, PTL DEF TermsSpec

\* For any body whose fields have their types, exactly the documented ones
\* reach the builder; no check of the schemas and of the services decides
\* differently from what is documented of the request as a whole.
THEOREM RequestsAreBuiltAsDocumented == TermsSpec => []AcceptsWhatIsDocumented
  <1>1. DecisionInv => AcceptsWhatIsDocumented
    BY DEF DecisionInv, AcceptsWhatIsDocumented, AllDocumented
  <1> QED BY <1>1, DecisionsAlways, PTL

=============================================================================
