------------------------- MODULE FixedAssets_proofs -------------------------
(***************************************************************************)
(* Proofs about the fixed-asset register, for any number of assets,        *)
(* months, handlers and connections and for any lives.                     *)
(*                                                                         *)
(* TypeInv: the types, and what a handler carries is sound by itself: an   *)
(* amount it computed fits the row it read.                                *)
(*                                                                         *)
(* SealInv: past its checks a handler carries no sealed month.             *)
(*                                                                         *)
(* LedgerInv: who has claimed a month of an asset is the only one who has; *)
(* what a transaction is about to publish nobody else has booked; and who  *)
(* has the row of an asset FOR UPDATE finds in its months what it found    *)
(* before.  So the ledger ties to the schedules.                           *)
(*                                                                         *)
(* AssetInv: while handlers do not cross on an asset and none is torn, one *)
(* of them works on it, and knows what the asset has been charged.         *)
(***************************************************************************)
EXTENDS FixedAssets, SumTheorems, SequenceTheorems, TLAPS

USE FixedAssetsAssumption

-----------------------------------------------------------------------------
(* A finite set has an element that all others are related to.              *)
LEMMA Greatest ==
    ASSUME NEW S, IsFiniteSet(S), S # {}, NEW R,
           \A x, y \in S : <<x, y>> \in R \/ <<y, x>> \in R,
           \A x, y, z \in S : <<x, y>> \in R /\ <<y, z>> \in R => <<x, z>> \in R
    PROVE  \E x \in S : \A y \in S : <<y, x>> \in R
<1> DEFINE Bad == {t \in SUBSET S : t # {} /\ ~ \E x \in t : \A y \in t : <<y, x>> \in R}
<1> SUFFICES ASSUME Bad # {} PROVE FALSE
  <2>1. S \notin Bad => \E x \in S : \A y \in S : <<y, x>> \in R
    OBVIOUS
  <2> QED BY <2>1
<1>1. PICK t \in Bad : \A u \in Bad : u \subseteq t => u = t
  <2>1. Bad \subseteq SUBSET S
    OBVIOUS
  <2> HIDE DEF Bad
  <2> QED BY <2>1, Smallest
<1>2. PICK x \in t : x \in S
  BY <1>1
<1> DEFINE rest == t \ {x}
<1>3. rest \in SUBSET S /\ rest \subseteq t /\ rest # t
  BY <1>1, <1>2
<1>4. rest \notin Bad
  <2> HIDE DEF Bad, rest
  <2> QED BY <1>1, <1>3
<1>5. rest # {} => \E z \in rest : \A y \in rest : <<y, z>> \in R
  <2> HIDE DEF rest
  <2> QED BY <1>3, <1>4
<1>6. CASE rest = {}
  BY <1>1, <1>2, <1>6
<1>7. ASSUME NEW z \in rest, \A y \in rest : <<y, z>> \in R PROVE FALSE
  <2>1. z \in t /\ z \in S /\ t \subseteq S
    BY <1>1
  <2>2. CASE <<x, z>> \in R
    BY <1>1, <1>7, <2>1, <2>2
  <2>3. CASE <<z, x>> \in R
    BY <1>1, <1>2, <1>7, <2>1, <2>3
  <2> QED BY <1>2, <2>1, <2>2, <2>3
<1> QED BY <1>5, <1>6, <1>7

LEMMA MaxOfFinite ==
    ASSUME NEW S, IsFiniteSet(S), S # {}, S \subseteq Int
    PROVE  Max(S) \in S /\ \A y \in S : y <= Max(S)
<1> DEFINE R == {p \in Int \X Int : p[1] <= p[2]}
<1>1. \A x, y \in Int : <<x, y>> \in R <=> x <= y
  OBVIOUS
<1> HIDE DEF R
<1>2. \A x, y \in S : <<x, y>> \in R \/ <<y, x>> \in R
  <2> TAKE x \in S, y \in S
  <2>1. x \in Int /\ y \in Int
    OBVIOUS
  <2> QED BY <1>1, <2>1
<1>3. \A x, y, z \in S : <<x, y>> \in R /\ <<y, z>> \in R => <<x, z>> \in R
  <2> SUFFICES ASSUME NEW x \in S, NEW y \in S, NEW z \in S, <<x, y>> \in R, <<y, z>> \in R
               PROVE  <<x, z>> \in R
    OBVIOUS
  <2>1. x \in Int /\ y \in Int /\ z \in Int
    OBVIOUS
  <2> QED BY <1>1, <2>1
<1>4. PICK x \in S : \A y \in S : <<y, x>> \in R
  BY <1>2, <1>3, Greatest
<1>5. \A y \in S : x >= y
  BY <1>1, <1>4
<1>6. Max(S) \in S /\ \A y \in S : Max(S) >= y
  BY <1>5 DEF Max
<1> QED BY <1>6

LEMMA MinOfFinite ==
    ASSUME NEW S, IsFiniteSet(S), S # {}, S \subseteq Int
    PROVE  Min(S) \in S
<1> DEFINE R == {p \in Int \X Int : p[2] <= p[1]}
<1>1. \A x, y \in Int : <<x, y>> \in R <=> y <= x
  OBVIOUS
<1> HIDE DEF R
<1>2. \A x, y \in S : <<x, y>> \in R \/ <<y, x>> \in R
  <2> TAKE x \in S, y \in S
  <2>1. x \in Int /\ y \in Int
    OBVIOUS
  <2> QED BY <1>1, <2>1
<1>3. \A x, y, z \in S : <<x, y>> \in R /\ <<y, z>> \in R => <<x, z>> \in R
  <2> SUFFICES ASSUME NEW x \in S, NEW y \in S, NEW z \in S, <<x, y>> \in R, <<y, z>> \in R
               PROVE  <<x, z>> \in R
    OBVIOUS
  <2>1. x \in Int /\ y \in Int /\ z \in Int
    OBVIOUS
  <2> QED BY <1>1, <2>1
<1>4. PICK x \in S : \A y \in S : <<y, x>> \in R
  BY <1>2, <1>3, Greatest
<1>5. \A y \in S : x =< y
  BY <1>1, <1>4
<1> QED BY <1>5 DEF Min

-----------------------------------------------------------------------------
(* The charge of a month is part of what remains.                            *)
LEMMA RoundedPart ==
    ASSUME NEW rest \in Nat, NEW parts \in Nat, parts >= 1
    PROVE  (2 * rest + parts) \div (2 * parts) \in 0..rest
<1> DEFINE c == (2 * rest + parts) \div (2 * parts)
<1>1. c \in Int /\ (2 * parts) * c <= 2 * rest + parts /\ 2 * rest + parts < (2 * parts) * (c + 1)
  OBVIOUS
<1> HIDE DEF c
<1>2. c >= 0
  <2> SUFFICES ASSUME c <= -1 PROVE FALSE
    BY <1>1
  <2>1. (2 * parts) * (c + 1) <= 0
    BY <1>1
  <2> QED BY <1>1, <2>1
<1>3. c <= rest
  <2> SUFFICES ASSUME c >= rest + 1 PROVE FALSE
    BY <1>1
  <2>1. (2 * parts) * c >= (2 * parts) * (rest + 1)
    BY <1>1
  <2>2. (2 * parts) * (rest + 1) = (2 * parts) * rest + 2 * parts
    OBVIOUS
  <2>3. (2 * parts) * rest >= 2 * rest
    OBVIOUS
  <2> QED BY <1>1, <2>1, <2>2, <2>3
<1> QED BY <1>1, <1>2, <1>3 DEF c

LEMMA ChargeFits ==
    ASSUME NEW row \in Row, NEW m \in Months, NEW n \in Nat
    PROVE  Charge(row, m, n) \in Nat /\ row.acc + Charge(row, m, n) <= Depreciable
<1> DEFINE rest == Depreciable - row.acc
           left == Max({1, row.life * YearLength - n})
           parts == left * (IF m = 1 THEN 2 ELSE 1)
<1>1. row.acc \in 0..Depreciable /\ row.life \in Nat
  BY DEF Row
<1>2. rest \in Nat
  BY <1>1
<1>3. left \in Nat /\ left >= 1
  <2>1. row.life * YearLength - n \in Int
    BY <1>1
  <2> DEFINE both == {1, row.life * YearLength - n}
  <2>2. IsFiniteSet(both) /\ both # {} /\ both \subseteq Int /\ 1 \in both
    <3>1. both = {1} \cup {row.life * YearLength - n} /\ IsFiniteSet({1})
      BY FS_Singleton
    <3>2. IsFiniteSet(both)
      <4> HIDE DEF both
      <4> QED BY <3>1, FS_AddElement
    <3> QED BY <2>1, <3>2
  <2> HIDE DEF both
  <2>3. Max(both) \in both /\ \A y \in both : y <= Max(both)
    BY <2>2, MaxOfFinite
  <2> QED BY <2>1, <2>2, <2>3 DEF both
<1>4. parts \in Nat /\ parts >= 1
  <2> HIDE DEF left
  <2> QED BY <1>3
<1> HIDE DEF left
<1>5. (2 * rest + parts) \div (2 * parts) \in 0..rest
  <2> HIDE DEF rest, parts
  <2> QED BY <1>2, <1>4, RoundedPart
<1>6. Charge(row, m, n) = (2 * rest + parts) \div (2 * parts)
  BY DEF Charge, left
<1> HIDE DEF parts
<1>7. Charge(row, m, n) \in 0..rest
  BY <1>5, <1>6
<1> QED BY <1>1, <1>2, <1>7

LEMMA BookedBeforeType ==
    ASSUME NEW r, NEW a, NEW m \in Months
    PROVE  BookedBefore(r, a, m) \in Nat
<1>1. m - 1 \in Int
  BY DEF Months
<1> DEFINE S == {k \in 1..(m - 1) : schedule[a][k] # 0 \/ request[r].drafts[a][k] # 0}
<1>2. S \subseteq 1..(m - 1) /\ IsFiniteSet(1..(m - 1))
  BY <1>1, FS_Interval
<1> HIDE DEF S
<1>3. Cardinality(S) \in Nat
  BY <1>2, FS_Subset, FS_CardinalityType
<1> QED BY <1>3 DEF BookedBefore, S

LEMMA NewType == New \in Row /\ New.status = "active" /\ New.acc = 0
<1>1. Max(Lives) \in Lives
  <2>1. IsFiniteSet(Lives) /\ Lives # {} /\ Lives \subseteq Int
    OBVIOUS
  <2> QED BY <2>1, MaxOfFinite
<1> QED BY <1>1 DEF New, Row

LEMMA NothingType == Nothing \in Amounts /\ \A m \in Months : Nothing[m] = 0
BY DEF Nothing, Amounts

LEMMA FirstMonth == 1 \in Months
BY DEF Months

-----------------------------------------------------------------------------
(* What every handler carries is sound by itself.                            *)
StepsOf ==
    [single  |-> {"idle", "check", "find", "claim", "post", "set", "undo"},
     batch   |-> {"check", "connect", "lockDate", "pick", "claim", "set"},
     dispose |-> {"check", "connect", "lockRow", "catchUp", "book", "dispose"},
     life    |-> {"check", "count", "write"},
     status  |-> {"check", "write"}]

\* Handlers keep to the steps of their kind; an amount computed is due and fits;
\* only transactions carry drafts: a batch of its month, of assets it read as
\* active, and a disposal of its asset, of months it is done with.
Sound(q) ==
    /\ q.step \in StepsOf[q.kind]
    /\ q.kind = "single" /\ q.step \in {"claim", "post", "set", "undo"} =>
          q.amount > 0 /\ q.rows[q.asset].acc + q.amount <= Depreciable
    /\ q.kind = "batch" =>
          /\ q.step = "claim" =>
                q.amount > 0 /\ q.asset \in q.assets /\ q.rows[q.asset].acc + q.amount <= Depreciable
          /\ \A a \in q.assets : q.rows[a].status = "active"
          /\ \A a \in Assets : q.rows[a].acc + q.drafts[a][q.month] <= Depreciable
          /\ \A a \in Assets, m \in Months : q.drafts[a][m] # 0 =>
                m = q.month /\ q.step \in {"pick", "claim", "set"} /\ q.rows[a].status = "active"
    /\ q.kind = "dispose" =>
          /\ q.step \in {"catchUp", "book"} => q.months # {} /\ q.months \subseteq 1..(q.month - 1)
          /\ q.step = "book" => q.amount > 0 /\ q.rows[q.asset].acc + q.amount <= Depreciable
          /\ \A a \in Assets, m \in Months : q.drafts[a][m] # 0 =>
                a = q.asset /\ q.step \in {"catchUp", "book", "dispose"} /\ m \notin q.months
    /\ q.kind \in {"single", "life", "status"} => q.drafts = [a \in Assets |-> Nothing]

TypeInv == TypeOK /\ \A r \in Requests : Sound(request[r])

LEMMA LocalType ==
    ASSUME NEW kind \in Kinds, NEW step \in Steps, NEW a \in Assets, NEW m \in Months,
           NEW rows \in [Assets -> Row]
    PROVE  /\ Local(kind, step, a, m, rows) \in LocalState
           /\ step \in StepsOf[kind] \cap {"idle", "check"} => Sound(Local(kind, step, a, m, rows))
<1> DEFINE q == Local(kind, step, a, m, rows)
<1>1. q \in LocalState
  BY NothingType DEF Local, LocalState
<1>2. ASSUME step \in StepsOf[kind] \cap {"idle", "check"} PROVE Sound(q)
  <2>1. \A b \in Assets, n \in Months : q.drafts[b][n] = 0
    BY NothingType DEF Local
  <2>2. \A b \in Assets : q.rows[b].acc \in 0..Depreciable
    BY DEF Local, Row
  <2> QED BY <1>2, <2>1, <2>2 DEF Local, Sound
<1> QED BY <1>1, <1>2

LEMMA RestingSound ==
    Resting \in LocalState /\ Sound(Resting) /\ Resting.step = "idle" /\ Resting.kind = "single"
    /\ Resting.asset \in Assets /\ \A a \in Assets, m \in Months : Resting.drafts[a][m] = 0
<1>1. (CHOOSE a \in Assets : TRUE) \in Assets
  OBVIOUS
<1>2. Unread \in [Assets -> Row]
  BY NewType DEF Unread
<1>3. "single" \in Kinds /\ "idle" \in Steps /\ "idle" \in StepsOf["single"] \cap {"idle", "check"}
  BY DEF Kinds, Steps, StepsOf
<1> DEFINE any == CHOOSE a \in Assets : TRUE
<1> HIDE DEF any
<1>4. Local("single", "idle", any, 1, Unread) \in LocalState /\ Sound(Local("single", "idle", any, 1, Unread))
  BY <1>1, <1>2, <1>3, FirstMonth, LocalType DEF any
<1>5. Resting = Local("single", "idle", any, 1, Unread)
  BY DEF Resting, any
<1> QED BY <1>1, <1>4, <1>5, NothingType DEF Local, any

LEMMA Kept ==
    ASSUME TypeInv, NEW r \in Requests, NEW x \in LocalState, Sound(x), Set(r, x)
    PROVE  request' \in [Requests -> LocalState] /\ \A q \in Requests : Sound(request'[q])
BY DEF TypeInv, TypeOK, Set

LEMMA LocalFields ==
    ASSUME TypeInv, NEW r \in Requests
    PROVE  /\ request[r] \in LocalState /\ Sound(request[r])
           /\ request[r].kind \in Kinds /\ request[r].step \in Steps /\ request[r].asset \in Assets
           /\ request[r].month \in Months /\ request[r].rows \in [Assets -> Row]
           /\ request[r].assets \subseteq Assets /\ request[r].months \subseteq Months
           /\ request[r].amount \in Nat /\ request[r].drafts \in [Assets -> Amounts]
           /\ \A a \in Assets : request[r].rows[a] \in Row
           /\ \A a \in Assets, m \in Months : request[r].drafts[a][m] \in Nat
<1>1. request[r] \in LocalState /\ Sound(request[r])
  BY DEF TypeInv, TypeOK
<1>2. /\ request[r].kind \in Kinds /\ request[r].step \in Steps /\ request[r].asset \in Assets
      /\ request[r].month \in Months /\ request[r].rows \in [Assets -> Row]
      /\ request[r].assets \subseteq Assets /\ request[r].months \subseteq Months
      /\ request[r].amount \in Nat /\ request[r].drafts \in [Assets -> Amounts]
  BY <1>1 DEF LocalState
<1>3. \A a \in Assets, m \in Months : request[r].drafts[a][m] \in Nat
  BY <1>2 DEF Amounts
<1> QED BY <1>1, <1>2, <1>3

\* A step that goes on with what the handler carries.
LEMMA GotoSound ==
    ASSUME TypeInv, NEW r \in Requests, NEW to \in Steps, Goto(r, to),
           to \in StepsOf[request[r].kind] \ {"idle", "check"},
           \/ request[r].step \in {"check", "connect"} /\ to \in {"find", "connect", "lockDate", "lockRow", "count", "write"}
           \/ request[r].kind = "single" /\ request[r].step \in {"claim", "post", "set", "undo"}
           \/ request[r].kind \in {"life", "status"}
    PROVE  request' \in [Requests -> LocalState] /\ \A q \in Requests : Sound(request'[q])
<1> DEFINE old == request[r]
           new == [old EXCEPT !.step = to]
<1>1. old \in LocalState /\ Sound(old)
  BY LocalFields
<1> HIDE DEF old
<1>2. new \in LocalState /\ new.step = to
      /\ new.kind = old.kind /\ new.asset = old.asset /\ new.month = old.month /\ new.rows = old.rows
      /\ new.assets = old.assets /\ new.months = old.months /\ new.amount = old.amount
      /\ new.drafts = old.drafts
  BY <1>1 DEF LocalState
<1>3. Sound(new)
  <2>1. to \in StepsOf[old.kind] \ {"idle", "check"}
    BY DEF old
  <2>2. CASE old.step \in {"check", "connect"} /\ to \in {"find", "connect", "lockDate", "lockRow", "count", "write"}
    <3> HIDE DEF new
    <3> QED BY <1>1, <1>2, <2>1, <2>2 DEF Sound
  <2>3. CASE old.kind = "single" /\ old.step \in {"claim", "post", "set", "undo"}
    <3> HIDE DEF new
    <3> QED BY <1>1, <1>2, <2>1, <2>3 DEF Sound
  <2>4. CASE old.kind \in {"life", "status"}
    <3> HIDE DEF new
    <3> QED BY <1>1, <1>2, <2>1, <2>4 DEF Sound
  <2> QED BY <2>2, <2>3, <2>4 DEF old
<1>4. Set(r, new)
  BY DEF Goto, Set, old, TypeInv, TypeOK
<1> HIDE DEF new
<1> QED BY <1>2, <1>3, <1>4, Kept

-----------------------------------------------------------------------------
(* Types, action by action.                                                  *)
RequestsKept == request' \in [Requests -> LocalState] /\ \A q \in Requests : Sound(request'[q])

LEMMA EndKeeps ==
    ASSUME TypeInv, NEW r \in Requests, End(r)
    PROVE  RequestsKept /\ request'[r] = Resting /\ (\A q \in Requests \ {r} : request'[q] = request[q])
BY RestingSound, Kept DEF End, RequestsKept, Set, TypeInv, TypeOK

LEMMA PassLockKeeps ==
    ASSUME TypeInv, NEW r \in Requests, PassLock(r) PROVE RequestsKept
<1>1. CASE Goto(r, After(request[r].kind))
  <2>1. request[r].step = "check" /\ request[r].kind \in Kinds
    BY LocalFields DEF PassLock, At
  <2>2. After(request[r].kind) \in Steps /\ After(request[r].kind) \in StepsOf[request[r].kind] \ {"idle", "check"}
        /\ After(request[r].kind) \in {"find", "connect", "lockDate", "lockRow", "count", "write"}
    BY <2>1 DEF After, Kinds, Steps, StepsOf
  <2> QED BY <1>1, <2>1, <2>2, GotoSound DEF RequestsKept
<1> QED BY <1>1, EndKeeps DEF PassLock

LEMMA BeginKeeps ==
    ASSUME TypeInv, NEW r \in Requests, Begin(r) PROVE RequestsKept
<1>1. asset \in [Assets -> Row]
  BY DEF TypeInv, TypeOK
<1>2. Unread \in [Assets -> Row]
  BY NewType DEF Unread
<1>3. ASSUME NEW kind \in Kinds, NEW a \in Assets, NEW m \in Months, NEW rows \in [Assets -> Row],
             Set(r, Local(kind, "check", a, m, rows))
      PROVE  RequestsKept
  <2>1. "check" \in Steps /\ "check" \in StepsOf[kind] \cap {"idle", "check"}
    BY DEF Kinds, Steps, StepsOf
  <2> QED BY <1>3, <2>1, LocalType, Kept DEF RequestsKept
<1>4. ASSUME NEW a \in Assets, NEW m \in Months, Depreciate(r, a, m) PROVE RequestsKept
  <2>1. "single" \in Kinds /\ [Unread EXCEPT ![a] = asset[a]] \in [Assets -> Row]
    BY <1>1, <1>2 DEF Kinds
  <2> QED BY <1>3, <1>4, <2>1 DEF Depreciate
<1>5. ASSUME NEW a \in Assets, NEW m \in Months, BeginDispose(r, a, m) PROVE RequestsKept
  BY <1>2, <1>3, <1>5 DEF BeginDispose, Kinds
<1>6. ASSUME NEW m \in Months, RunBatch(r, m) PROVE RequestsKept
  BY <1>2, <1>3, <1>6, RestingSound DEF RunBatch, Kinds
<1>7. ASSUME NEW a \in Assets, Edits(r, a) PROVE RequestsKept
  <2>1. PICK kind \in Kinds, row \in Row : Edit(r, a, kind, row)
    <3>1. \A life \in Lives : [New EXCEPT !.life = life] \in Row
      BY NewType DEF Row
    <3>2. \A status \in {"active", "disposed"} : [New EXCEPT !.status = status] \in Row
      BY NewType DEF Row
    <3> QED BY <1>7, <3>1, <3>2 DEF Edits, Kinds
  <2>2. [Unread EXCEPT ![a] = row] \in [Assets -> Row]
    BY <1>2
  <2> QED BY <1>3, <2>1, <2>2, FirstMonth DEF Edit
<1> QED BY <1>4, <1>5, <1>6, <1>7 DEF Begin

LEMMA FindKeeps ==
    ASSUME TypeInv, NEW r \in Requests, Find(r) PROVE RequestsKept
<1> DEFINE a == request[r].asset
           m == request[r].month
           amount == Charge(request[r].rows[a], m, BookedBefore(r, a, m))
<1>1. /\ request[r] \in LocalState /\ Sound(request[r]) /\ request[r].step = "find"
      /\ a \in Assets /\ m \in Months /\ request[r].rows[a] \in Row
  BY LocalFields DEF Find, At
<1>2. BookedBefore(r, a, m) \in Nat
  BY <1>1, BookedBeforeType
<1>3. amount \in Nat /\ request[r].rows[a].acc + amount <= Depreciable
  <2> HIDE DEF a, m
  <2> QED BY <1>1, <1>2, ChargeFits
<1> DEFINE new == [request[r] EXCEPT !.step = "claim", !.amount = amount]
<1>4. (amount > 0 /\ Set(r, new)) \/ End(r)
  BY DEF Find
<1>5. request[r].kind = "single"
  BY <1>1, LocalFields DEF Sound, StepsOf, Kinds
<1> HIDE DEF amount
<1>6. amount > 0 => new \in LocalState /\ Sound(new)
  <2> SUFFICES ASSUME amount > 0 PROVE new \in LocalState /\ Sound(new)
    OBVIOUS
  <2>1. /\ new \in LocalState /\ new.step = "claim" /\ new.kind = "single" /\ new.asset = a
        /\ new.rows = request[r].rows /\ new.amount = amount /\ new.drafts = request[r].drafts
    BY <1>1, <1>3, <1>5 DEF LocalState, Steps
  <2>2. request[r].drafts = [b \in Assets |-> Nothing]
    BY <1>1, <1>5 DEF Sound
  <2> HIDE DEF new, a, m
  <2> QED BY <1>3, <2>1, <2>2 DEF Sound, StepsOf
<1> HIDE DEF new
<1> QED BY <1>4, <1>6, Kept, EndKeeps DEF RequestsKept

LEMMA SingleKeeps ==
    ASSUME TypeInv, NEW r \in Requests, Claim(r) \/ Post(r) \/ SetAsset(r) \/ Undo(r) PROVE RequestsKept
<1>1. ASSUME NEW from \in {"claim", "post"}, NEW to \in {"post", "set"}, At(r, from), Goto(r, to),
             request[r].kind = "single"
      PROVE  RequestsKept
  <2>1. to \in Steps /\ to \in StepsOf[request[r].kind] \ {"idle", "check"}
    BY <1>1 DEF Steps, StepsOf
  <2> QED BY <1>1, <2>1, GotoSound DEF At, RequestsKept
<1>2. At(r, "post") => request[r].kind = "single"
  BY LocalFields DEF At, Sound, StepsOf, Kinds
<1> QED BY <1>1, <1>2, EndKeeps DEF Claim, Post, SetAsset, Undo, Is

LEMMA ConnectKeeps ==
    ASSUME TypeInv, NEW r \in Requests, Connect(r) PROVE RequestsKept
<1>1. request[r].step = "connect" /\ request[r].kind \in {"batch", "dispose"}
  BY LocalFields DEF Connect, At, Sound, StepsOf, Kinds
<1>2. PICK to \in {"lockDate", "lockRow"} : Goto(r, to) /\ to \in StepsOf[request[r].kind] \ {"idle", "check"}
  BY <1>1 DEF Connect, Is, StepsOf
<1>3. to \in Steps
  BY DEF Steps
<1> QED BY <1>1, <1>2, <1>3, GotoSound DEF RequestsKept

LEMMA CountKeeps ==
    ASSUME TypeInv, NEW r \in Requests, Count(r) \/ WriteEdit(r) PROVE RequestsKept
<1>1. CASE At(r, "count") /\ Goto(r, "write")
  <2>1. request[r].kind = "life"
    BY <1>1, LocalFields DEF At, Sound, StepsOf, Kinds
  <2>2. "write" \in Steps /\ "write" \in StepsOf[request[r].kind] \ {"idle", "check"}
    BY <2>1 DEF Steps, StepsOf
  <2> QED BY <1>1, <2>1, <2>2, GotoSound DEF RequestsKept
<1> QED BY <1>1, EndKeeps DEF Count, WriteEdit

\* The drafts of a batch that has read nothing yet are empty.
LEMMA LockDateKeeps ==
    ASSUME TypeInv, NEW r \in Requests, LockDate(r)
    PROVE  /\ RequestsKept /\ request[r].kind = "batch" /\ request[r].step = "lockDate"
           /\ request'[r].kind = "batch" /\ request'[r].step = "pick"
           /\ request'[r].month = request[r].month /\ request'[r].drafts = request[r].drafts
           /\ \A a \in Assets : request'[r].rows[a].status = "active" =>
                 request'[r].rows[a] = asset[a] /\ asset[a].status = "active" /\ Explored(a)
<1> DEFINE active == {a \in Assets : asset[a].status = "active" /\ Explored(a)}
           rows == [a \in Assets |-> IF a \in active THEN asset[a] ELSE [New EXCEPT !.status = "deleted"]]
           old == request[r]
           new == [old EXCEPT !.step = "pick", !.assets = active, !.rows = rows]
<1>1. old \in LocalState /\ Sound(old) /\ old.step = "lockDate" /\ Set(r, new)
  BY LocalFields DEF LockDate, At
<1>2. old.kind = "batch" /\ \A a \in Assets, m \in Months : old.drafts[a][m] = 0
  BY <1>1, LocalFields DEF Sound, StepsOf, Kinds
<1>3. active \subseteq Assets /\ rows \in [Assets -> Row]
      /\ \A a \in Assets : rows[a].status = "active" => a \in active /\ rows[a] = asset[a]
  BY NewType DEF TypeInv, TypeOK, Row
<1>4. \A a \in active : rows[a].status = "active"
  OBVIOUS
<1>5. \A a \in Assets : asset[a] \in Row
  BY DEF TypeInv, TypeOK
<1>6. \A a \in active : asset[a].status = "active" /\ Explored(a)
  OBVIOUS
<1> HIDE DEF active, rows
<1>7. /\ new \in LocalState /\ new.step = "pick" /\ new.kind = "batch" /\ new.month = old.month
      /\ new.rows = rows /\ new.assets = active /\ new.drafts = old.drafts
  BY <1>1, <1>2, <1>3 DEF LocalState, Steps
<1> HIDE DEF new, old
<1>8. Sound(new)
  <2>1. \A a \in Assets : rows[a].acc \in 0..Depreciable
    BY <1>3 DEF Row
  <2>2. old.month \in Months
    BY <1>1 DEF LocalState
  <2> QED BY <1>2, <1>4, <1>7, <2>1, <2>2 DEF Sound, StepsOf
<1>9. request'[r] = new
  BY <1>1 DEF Set, TypeInv, TypeOK
<1> QED BY <1>1, <1>2, <1>3, <1>5, <1>6, <1>7, <1>8, <1>9, Kept DEF RequestsKept, old

LEMMA PickKeeps ==
    ASSUME TypeInv, NEW r \in Requests, NEW b \in Assets, Pick(r, b)
    PROVE  /\ RequestsKept /\ request[r].kind = "batch" /\ request[r].step = "pick"
           /\ request'[r].kind = "batch" /\ request'[r].step \in {"pick", "claim"}
           /\ request'[r].month = request[r].month /\ request'[r].drafts = request[r].drafts
           /\ request'[r].rows = request[r].rows
<1> DEFINE old == request[r]
           m == old.month
           amount == Charge(old.rows[b], m, BookedBefore(r, b, m))
           claim == [old EXCEPT !.step = "claim", !.asset = b, !.amount = amount]
           skip == [old EXCEPT !.assets = @ \ {b}]
<1>1. /\ old \in LocalState /\ Sound(old) /\ old.step = "pick" /\ b \in old.assets
      /\ m \in Months /\ old.rows[b] \in Row
  BY LocalFields DEF Pick, At
<1>2. BookedBefore(r, b, m) \in Nat
  BY <1>1, BookedBeforeType
<1>3. amount \in Nat /\ old.rows[b].acc + amount <= Depreciable
  <2> HIDE DEF m, old
  <2> QED BY <1>1, <1>2, ChargeFits
<1>4. (amount > 0 /\ Set(r, claim)) \/ Set(r, skip)
  BY DEF Pick
<1>5. old.kind = "batch"
  BY <1>1, LocalFields DEF Sound, StepsOf, Kinds
<1> HIDE DEF amount, old
<1>6. /\ skip \in LocalState /\ skip.step = "pick" /\ skip.kind = "batch" /\ skip.month = old.month
      /\ skip.rows = old.rows /\ skip.assets = old.assets \ {b} /\ skip.drafts = old.drafts
  BY <1>1, <1>5 DEF LocalState
<1>7. /\ claim \in LocalState /\ claim.step = "claim" /\ claim.kind = "batch" /\ claim.month = old.month
      /\ claim.rows = old.rows /\ claim.assets = old.assets /\ claim.drafts = old.drafts
      /\ claim.asset = b /\ claim.amount = amount
  BY <1>1, <1>3, <1>5 DEF LocalState, Steps
<1> HIDE DEF claim, skip
<1>8. Sound(skip)
  BY <1>1, <1>5, <1>6 DEF Sound, StepsOf
<1>9. amount > 0 => Sound(claim)
  BY <1>1, <1>3, <1>5, <1>7 DEF Sound, StepsOf
<1>10. Set(r, claim) => request'[r] = claim
  BY DEF Set, TypeInv, TypeOK
<1>11. Set(r, skip) => request'[r] = skip
  BY DEF Set, TypeInv, TypeOK
<1>12. RequestsKept
  BY <1>4, <1>6, <1>7, <1>8, <1>9, Kept DEF RequestsKept
<1> QED BY <1>1, <1>4, <1>5, <1>6, <1>7, <1>10, <1>11, <1>12 DEF old

LEMMA DraftType ==
    ASSUME NEW drafts \in [Assets -> Amounts], NEW a \in Assets, NEW m \in Months, NEW n \in Nat
    PROVE  /\ [drafts EXCEPT ![a][m] = n] \in [Assets -> Amounts]
           /\ \A b \in Assets, k \in Months :
                 [drafts EXCEPT ![a][m] = n][b][k] = IF b = a /\ k = m THEN n ELSE drafts[b][k]
<1> DEFINE row == [drafts[a] EXCEPT ![m] = n]
<1>1. row \in Amounts /\ \A k \in Months : row[k] = IF k = m THEN n ELSE drafts[a][k]
  BY DEF Amounts
<1> DEFINE new == [drafts EXCEPT ![a][m] = n]
<1>2. new = [drafts EXCEPT ![a] = row]
  OBVIOUS
<1> HIDE DEF row, new
<1>3. new \in [Assets -> Amounts] /\ new[a] = row /\ \A b \in Assets \ {a} : new[b] = drafts[b]
  BY <1>1, <1>2
<1>4. \A b \in Assets, k \in Months : new[b][k] = IF b = a /\ k = m THEN n ELSE drafts[b][k]
  BY <1>1, <1>3
<1> QED BY <1>3, <1>4 DEF new

\* What a claim of a batch does.
LEMMA BatchClaims ==
    ASSUME TypeInv, NEW r \in Requests, BatchClaim(r), ~Lost(r)
    PROVE  /\ RequestsKept /\ request[r].kind = "batch" /\ request[r].step = "claim"
           /\ request'[r].kind = "batch" /\ request'[r].step = "set" /\ request'[r].asset = request[r].asset
           /\ request'[r].month = request[r].month /\ request'[r].rows = request[r].rows
           /\ request[r].asset \in Assets /\ request[r].month \in Months
           /\ request[r].rows[request[r].asset].status = "active"
           /\ \A b \in Assets, k \in Months :
                 request'[r].drafts[b][k] = IF b = request[r].asset /\ k = request[r].month THEN request[r].amount
                                            ELSE request[r].drafts[b][k]
<1> DEFINE old == request[r]
           new == [old EXCEPT !.step = "set", !.drafts[old.asset][old.month] = old.amount]
           drafts == [old.drafts EXCEPT ![old.asset][old.month] = old.amount]
<1>1. /\ old \in LocalState /\ Sound(old) /\ old.step = "claim" /\ old.kind = "batch" /\ Set(r, new)
      /\ old.asset \in Assets /\ old.month \in Months /\ old.amount \in Nat
      /\ old.drafts \in [Assets -> Amounts]
  BY LocalFields DEF BatchClaim, At, Is
<1>2. drafts \in [Assets -> Amounts]
      /\ \A b \in Assets, k \in Months :
            drafts[b][k] = IF b = old.asset /\ k = old.month THEN old.amount ELSE old.drafts[b][k]
  <2> HIDE DEF old
  <2> QED BY <1>1, DraftType
<1> HIDE DEF old
<1>3. /\ new \in LocalState /\ new.step = "set" /\ new.kind = "batch" /\ new.month = old.month
      /\ new.rows = old.rows /\ new.assets = old.assets /\ new.drafts = drafts /\ new.asset = old.asset
  <2>1. new = [old EXCEPT !.step = "set", !.drafts = drafts]
    BY <1>1 DEF LocalState
  <2> HIDE DEF drafts, new
  <2> QED BY <1>1, <1>2, <2>1 DEF LocalState, Steps
<1> HIDE DEF new, drafts
<1>4. Sound(new)
  <2>1. old.asset \in old.assets /\ old.rows[old.asset].acc + old.amount <= Depreciable
        /\ old.rows[old.asset].status = "active"
    BY <1>1 DEF Sound
  <2> QED BY <1>1, <1>2, <1>3, <2>1 DEF Sound, StepsOf
<1>5. request'[r] = new
  BY <1>1 DEF Set, TypeInv, TypeOK
<1>6. old.rows[old.asset].status = "active"
  BY <1>1 DEF Sound
<1> QED BY <1>1, <1>2, <1>3, <1>4, <1>5, <1>6, Kept DEF RequestsKept, old

LEMMA BatchSetKeeps ==
    ASSUME TypeInv, NEW r \in Requests, BatchSet(r)
    PROVE  /\ RequestsKept /\ request[r].kind = "batch" /\ request[r].step = "set"
           /\ request'[r].kind = "batch" /\ request'[r].step = "pick"
           /\ request'[r].month = request[r].month /\ request'[r].drafts = request[r].drafts
           /\ request'[r].rows = request[r].rows
<1> DEFINE old == request[r]
           new == [old EXCEPT !.step = "pick", !.assets = @ \ {old.asset}]
<1>1. old \in LocalState /\ Sound(old) /\ old.step = "set" /\ old.kind = "batch" /\ Set(r, new)
  BY LocalFields DEF BatchSet, At, Is
<1> HIDE DEF old
<1>2. /\ new \in LocalState /\ new.step = "pick" /\ new.kind = "batch" /\ new.month = old.month
      /\ new.rows = old.rows /\ new.assets = old.assets \ {old.asset} /\ new.drafts = old.drafts
  BY <1>1 DEF LocalState, Steps
<1> HIDE DEF new
<1>3. Sound(new)
  BY <1>1, <1>2 DEF Sound, StepsOf
<1>4. request'[r] = new
  BY <1>1 DEF Set, TypeInv, TypeOK
<1> QED BY <1>1, <1>2, <1>3, <1>4, Kept DEF RequestsKept, old

\* What a disposal does that has found its asset active.
LEMMA LockRowKeeps ==
    ASSUME TypeInv, NEW r \in Requests, LockRow(r), ~End(r)
    PROVE  /\ RequestsKept /\ request[r].kind = "dispose" /\ request[r].step = "lockRow"
           /\ request[r].asset \in Assets /\ asset[request[r].asset].status = "active"
           /\ request'[r].kind = "dispose" /\ request'[r].step \in {"catchUp", "dispose"}
           /\ request'[r].asset = request[r].asset /\ request'[r].month = request[r].month
           /\ request'[r].months = {m \in 1..(request[r].month - 1) : schedule[request[r].asset][m] = 0}
           /\ request'[r].rows[request[r].asset] = asset[request[r].asset]
           /\ \A b \in Assets, m \in Months : request[r].drafts[b][m] = 0 /\ request'[r].drafts[b][m] = 0
<1> DEFINE old == request[r]
           a == old.asset
           months == {m \in 1..(old.month - 1) : schedule[a][m] = 0}
           new == [old EXCEPT !.step = NextMonth(months), !.months = months, !.rows[a] = asset[a]]
<1>1. /\ old \in LocalState /\ Sound(old) /\ old.step = "lockRow" /\ Set(r, new)
      /\ a \in Assets /\ asset[a].status = "active" /\ old.month \in Months /\ asset[a] \in Row
  BY LocalFields DEF LockRow, At, TypeInv, TypeOK
<1>2. old.kind = "dispose" /\ \A b \in Assets, m \in Months : old.drafts[b][m] = 0
  BY <1>1, LocalFields DEF Sound, StepsOf, Kinds
<1>3. months \subseteq Months /\ months \subseteq 1..(old.month - 1)
  BY <1>1 DEF Months
<1> HIDE DEF old, months
<1>4. /\ new \in LocalState /\ new.step = NextMonth(months) /\ new.kind = "dispose" /\ new.asset = old.asset
      /\ new.month = old.month /\ new.months = months /\ new.drafts = old.drafts
      /\ new.rows = [old.rows EXCEPT ![a] = asset[a]]
  <2>1. NextMonth(months) \in Steps
    BY DEF NextMonth, Steps
  <2> HIDE DEF a
  <2>2. old.rows \in [Assets -> Row]
    BY <1>1 DEF LocalState
  <2>3. new = [old EXCEPT !.step = NextMonth(months), !.months = months, !.rows = [old.rows EXCEPT ![a] = asset[a]]]
    BY <1>1 DEF LocalState
  <2>4. [old.rows EXCEPT ![a] = asset[a]] \in [Assets -> Row]
    BY <1>1, <2>2
  <2> HIDE DEF new
  <2> QED BY <1>1, <1>2, <1>3, <2>1, <2>3, <2>4 DEF LocalState
<1>5. new.rows[a] = asset[a]
  BY <1>1, <1>4 DEF LocalState
<1> HIDE DEF new
<1>6. Sound(new)
  BY <1>2, <1>3, <1>4 DEF Sound, StepsOf, NextMonth
<1>7. request'[r] = new
  BY <1>1 DEF Set, TypeInv, TypeOK
<1>8. NextMonth(months) \in {"catchUp", "dispose"}
  BY DEF NextMonth
<1>9. RequestsKept
  BY <1>1, <1>4, <1>6, Kept DEF RequestsKept
<1>10. months = {m \in 1..(request[r].month - 1) : schedule[request[r].asset][m] = 0}
  BY DEF months, old
<1>11. request'[r].months = {m \in 1..(request[r].month - 1) : schedule[request[r].asset][m] = 0}
  BY <1>4, <1>7, <1>10
<1>12. /\ request[r].kind = "dispose" /\ request[r].step = "lockRow"
       /\ request[r].asset \in Assets /\ asset[request[r].asset].status = "active"
       /\ request'[r].kind = "dispose" /\ request'[r].step \in {"catchUp", "dispose"}
       /\ request'[r].asset = request[r].asset /\ request'[r].month = request[r].month
       /\ request'[r].rows[request[r].asset] = asset[request[r].asset]
       /\ \A b \in Assets, m \in Months : request[r].drafts[b][m] = 0 /\ request'[r].drafts[b][m] = 0
  <2>1. /\ new.kind = "dispose" /\ new.step \in {"catchUp", "dispose"} /\ new.asset = old.asset /\ new.month = old.month
        /\ new.drafts = old.drafts
    BY <1>4, <1>8
  <2>2. request[r] = old
    BY DEF old
  <2>3. /\ old.kind = "dispose" /\ old.step = "lockRow" /\ old.asset \in Assets /\ asset[old.asset].status = "active"
        /\ new.rows[old.asset] = asset[old.asset]
        /\ \A b \in Assets, m \in Months : old.drafts[b][m] = 0 /\ new.drafts[b][m] = 0
    BY <1>1, <1>2, <1>5, <2>1
  <2> QED BY <1>7, <2>1, <2>2, <2>3
<1> QED BY <1>9, <1>11, <1>12

LEMMA MonthsOf ==
    ASSUME TypeInv, NEW r \in Requests, request[r].step \in {"catchUp", "book"}
    PROVE  /\ request[r].kind = "dispose" /\ request[r].asset \in Assets
           /\ Min(request[r].months) \in request[r].months /\ Min(request[r].months) \in Months
           /\ Min(request[r].months) \in 1..(request[r].month - 1)
<1>1. request[r].kind = "dispose" /\ request[r].asset \in Assets
  BY LocalFields DEF Sound, StepsOf, Kinds
<1>2. /\ request[r].months # {} /\ request[r].months \subseteq 1..(request[r].month - 1)
      /\ request[r].months \subseteq Months
  BY <1>1, LocalFields DEF Sound
<1>3. IsFiniteSet(Months) /\ Months \subseteq Int
  BY FS_Interval DEF Months
<1>4. IsFiniteSet(request[r].months) /\ request[r].months \subseteq Int
  BY <1>2, <1>3, FS_Subset
<1> QED BY <1>1, <1>2, <1>4, MinOfFinite

LEMMA CatchUpKeeps ==
    ASSUME TypeInv, NEW r \in Requests, CatchUp(r), ~End(r)
    PROVE  /\ RequestsKept /\ request[r].kind = "dispose" /\ request[r].step = "catchUp"
           /\ request'[r].kind = "dispose" /\ request'[r].step \in {"book", "catchUp", "dispose"}
           /\ request'[r].asset = request[r].asset /\ request'[r].month = request[r].month
           /\ request'[r].rows = request[r].rows /\ request'[r].drafts = request[r].drafts
           /\ request'[r].months \subseteq request[r].months
           /\ request'[r].step = "book" => request'[r].months = request[r].months
           /\ Min(request[r].months) \notin locked
<1> DEFINE old == request[r]
           a == old.asset
           m == Min(old.months)
           amount == Charge(old.rows[a], m, BookedBefore(r, a, m))
           months == old.months \ {m}
           book == [old EXCEPT !.step = "book", !.amount = amount]
           skip == [old EXCEPT !.step = NextMonth(months), !.months = months]
<1>1. /\ old \in LocalState /\ Sound(old) /\ old.step = "catchUp" /\ old.kind = "dispose"
      /\ a \in Assets /\ m \in Months /\ old.rows[a] \in Row /\ m \in old.months
  BY LocalFields, MonthsOf DEF CatchUp, At
<1>2. BookedBefore(r, a, m) \in Nat
  BY <1>1, BookedBeforeType
<1>3. amount \in Nat /\ old.rows[a].acc + amount <= Depreciable
  <2> HIDE DEF m, old, a
  <2> QED BY <1>1, <1>2, ChargeFits
<1>4. m \notin locked /\ ((amount > 0 /\ Set(r, book)) \/ Set(r, skip))
  BY DEF CatchUp, MonthChecked
<1> HIDE DEF amount, old, m
<1>5. /\ book \in LocalState /\ book.step = "book" /\ book.kind = "dispose" /\ book.asset = old.asset
      /\ book.month = old.month /\ book.months = old.months /\ book.drafts = old.drafts
      /\ book.rows = old.rows /\ book.amount = amount
  BY <1>1, <1>3 DEF LocalState, Steps
<1>6. /\ skip \in LocalState /\ skip.step = NextMonth(months) /\ skip.kind = "dispose"
      /\ skip.asset = old.asset /\ skip.month = old.month /\ skip.months = months
      /\ skip.drafts = old.drafts /\ skip.rows = old.rows
  <2>1. NextMonth(months) \in Steps
    BY DEF NextMonth, Steps
  <2>2. months \subseteq Months
    BY <1>1 DEF LocalState
  <2> HIDE DEF months
  <2> QED BY <1>1, <2>1, <2>2 DEF LocalState
<1>7. NextMonth(months) \in {"catchUp", "dispose"} /\ (NextMonth(months) = "catchUp" => months # {})
      /\ months \subseteq old.months
  BY DEF NextMonth
<1> HIDE DEF book, skip, months
<1>8. amount > 0 => Sound(book)
  BY <1>1, <1>3, <1>5 DEF Sound, StepsOf
<1>9. Sound(skip)
  <2>1. old.months \subseteq 1..(old.month - 1)
    BY <1>1 DEF Sound
  <2> QED BY <1>1, <1>6, <1>7, <2>1 DEF Sound, StepsOf
<1>10. Set(r, book) => request'[r] = book
  BY DEF Set, TypeInv, TypeOK
<1>11. Set(r, skip) => request'[r] = skip
  BY DEF Set, TypeInv, TypeOK
<1>12. RequestsKept
  BY <1>4, <1>5, <1>6, <1>8, <1>9, Kept DEF RequestsKept
<1> QED BY <1>1, <1>4, <1>5, <1>6, <1>7, <1>10, <1>11, <1>12 DEF old, m

LEMMA BookKeeps ==
    ASSUME TypeInv, NEW r \in Requests, Book(r)
    PROVE  /\ RequestsKept /\ request[r].kind = "dispose" /\ request[r].step = "book"
           /\ request'[r].kind = "dispose" /\ request'[r].step \in {"catchUp", "dispose"}
           /\ request'[r].asset = request[r].asset /\ request'[r].month = request[r].month
           /\ request'[r].months \subseteq request[r].months
           /\ request'[r].rows[request[r].asset].acc = request[r].rows[request[r].asset].acc + request[r].amount
           /\ request[r].drafts[request[r].asset][Min(request[r].months)] = 0
           /\ \A b \in Assets, k \in Months :
                 request'[r].drafts[b][k] = IF b = request[r].asset /\ k = Min(request[r].months)
                                            THEN request[r].amount ELSE request[r].drafts[b][k]
<1> DEFINE old == request[r]
           a == old.asset
           m == Min(old.months)
           months == old.months \ {m}
           drafts == [old.drafts EXCEPT ![a][m] = old.amount]
           row == [old.rows[a] EXCEPT !.acc = @ + old.amount]
           new == [old EXCEPT !.step = NextMonth(months), !.months = months,
                      !.drafts[a][m] = old.amount, !.rows[a].acc = @ + old.amount]
<1>1. /\ old \in LocalState /\ Sound(old) /\ old.step = "book" /\ old.kind = "dispose" /\ Set(r, new)
      /\ a \in Assets /\ m \in Months /\ m \in old.months /\ old.rows[a] \in Row /\ old.amount \in Nat
      /\ old.drafts \in [Assets -> Amounts] /\ old.rows \in [Assets -> Row]
  BY LocalFields, MonthsOf DEF Book, At
<1>2. drafts \in [Assets -> Amounts]
      /\ \A b \in Assets, k \in Months :
            drafts[b][k] = IF b = a /\ k = m THEN old.amount ELSE old.drafts[b][k]
  <2> HIDE DEF old, m, a
  <2> QED BY <1>1, DraftType
<1>3. old.rows[a].acc + old.amount <= Depreciable /\ old.drafts[a][m] = 0
  <2> HIDE DEF m
  <2> QED BY <1>1 DEF Sound
<1> HIDE DEF old, m
<1>4. row \in Row /\ row.acc = old.rows[a].acc + old.amount
  BY <1>1, <1>3 DEF Row
<1>5. /\ new \in LocalState /\ new.step = NextMonth(months) /\ new.kind = "dispose"
      /\ new.asset = old.asset /\ new.month = old.month /\ new.months = months
      /\ new.drafts = drafts /\ new.rows = [old.rows EXCEPT ![a] = row]
  <2>1. NextMonth(months) \in Steps
    BY DEF NextMonth, Steps
  <2>2. months \subseteq Months
    BY <1>1 DEF LocalState
  <2>3. new = [old EXCEPT !.step = NextMonth(months), !.months = months, !.drafts = drafts,
                          !.rows = [old.rows EXCEPT ![a] = row]]
    BY <1>1 DEF LocalState
  <2>4. [old.rows EXCEPT ![a] = row] \in [Assets -> Row]
    BY <1>1, <1>4
  <2> HIDE DEF months, new, row, drafts
  <2> QED BY <1>1, <1>2, <2>1, <2>2, <2>3, <2>4 DEF LocalState
<1>6. new.rows[a] = row
  BY <1>1, <1>5
<1>7. NextMonth(months) \in {"catchUp", "dispose"} /\ (NextMonth(months) = "catchUp" => months # {})
      /\ months \subseteq old.months /\ m \notin months
  BY DEF NextMonth
<1> HIDE DEF new, months, row, drafts
<1>8. Sound(new)
  <2>1. old.months \subseteq 1..(old.month - 1)
    BY <1>1 DEF Sound
  <2>2. \A b \in Assets, n \in Months : drafts[b][n] # 0 => b = old.asset /\ n \notin months
    <3>1. \A b \in Assets, n \in Months : old.drafts[b][n] # 0 => b = old.asset /\ n \notin old.months
      BY <1>1 DEF Sound
    <3> QED BY <1>2, <1>7, <3>1
  <2> QED BY <1>1, <1>5, <1>7, <2>1, <2>2 DEF Sound, StepsOf
<1>9. request'[r] = new
  BY <1>1 DEF Set, TypeInv, TypeOK
<1>10. RequestsKept
  BY <1>1, <1>5, <1>8, Kept DEF RequestsKept
<1> QED BY <1>1, <1>2, <1>3, <1>4, <1>5, <1>6, <1>7, <1>9, <1>10 DEF old, m

LEMMA FailKeeps ==
    ASSUME TypeInv, NEW r \in Requests, Fail(r) PROVE RequestsKept
<1>1. CASE Claimed(r) /\ Goto(r, "undo")
  <2>1. request[r].kind = "single" /\ request[r].step \in {"claim", "post", "set", "undo"}
    BY <1>1 DEF Claimed, Is
  <2>2. "undo" \in Steps /\ "undo" \in StepsOf[request[r].kind] \ {"idle", "check"}
    BY <2>1 DEF Steps, StepsOf
  <2> QED BY <1>1, <2>1, <2>2, GotoSound DEF RequestsKept
<1> QED BY <1>1, EndKeeps DEF Fail

\* Every step of a handler keeps what handlers carry sound.
LEMMA RequestsStep ==
    ASSUME TypeInv, NEW r \in Requests, Begin(r) \/ Step(r) \/ Fail(r) \/ Die(r) PROVE RequestsKept
<1>1. CASE LockRow(r)
  BY <1>1, LockRowKeeps, EndKeeps
<1>2. CASE CatchUp(r)
  BY <1>2, CatchUpKeeps, EndKeeps
<1>3. CASE BatchClaim(r)
  <2>1. Lost(r) => End(r)
    BY <1>3 DEF BatchClaim
  <2> QED BY <1>3, <2>1, BatchClaims, EndKeeps
<1>4. CASE CommitBatch(r) \/ Dispose(r)
  BY <1>4, EndKeeps DEF CommitBatch, Dispose
<1>5. CASE Timeout(r) \/ Fail(r) \/ Die(r)
  BY <1>5, EndKeeps, FailKeeps DEF Timeout, Die
<1> QED BY <1>1, <1>2, <1>3, <1>4, <1>5, BeginKeeps, PassLockKeeps, FindKeeps, SingleKeeps, ConnectKeeps, LockDateKeeps,
           BatchSetKeeps, PickKeeps, BookKeeps, CountKeeps DEF Step

-----------------------------------------------------------------------------
(* The tables keep their types.                                              *)
TablesOK ==
    /\ asset \in [Assets -> Row]
    /\ schedule \in [Assets -> Amounts] /\ ledger \in [Assets -> Amounts]
    /\ cleared \in [Assets -> Seq([month : Months, amount : 0..Depreciable])]

LEMMA PublishType ==
    ASSUME TypeInv, NEW r \in Requests, Publish(request[r].drafts)
    PROVE  /\ schedule' \in [Assets -> Amounts] /\ ledger' \in [Assets -> Amounts]
           /\ \A a \in Assets, m \in Months :
                 /\ schedule'[a][m] = schedule[a][m] + request[r].drafts[a][m]
                 /\ ledger'[a][m] = ledger[a][m] + request[r].drafts[a][m]
<1>1. \A a \in Assets, m \in Months :
         schedule[a][m] \in Nat /\ ledger[a][m] \in Nat /\ request[r].drafts[a][m] \in Nat
  <2>1. schedule \in [Assets -> Amounts] /\ ledger \in [Assets -> Amounts]
    BY DEF TypeInv, TypeOK
  <2>2. \A a \in Assets, m \in Months : schedule[a][m] \in Nat /\ ledger[a][m] \in Nat
    BY <2>1 DEF Amounts
  <2> QED BY <2>2, LocalFields
<1> QED BY <1>1 DEF Publish, Amounts

LEMMA WritesType ==
    ASSUME TypeInv, NEW r \in Requests,
           Claim(r) \/ Post(r) \/ SetAsset(r) \/ Undo(r) \/ CommitBatch(r) \/ Dispose(r) \/ WriteEdit(r)
    PROVE  TablesOK'
<1> DEFINE q == request[r]
           a == q.asset
           m == q.month
<1>1. /\ asset \in [Assets -> Row] /\ schedule \in [Assets -> Amounts] /\ ledger \in [Assets -> Amounts]
      /\ cleared \in [Assets -> Seq([month : Months, amount : 0..Depreciable])]
  BY DEF TypeInv, TypeOK
<1>2. /\ q \in LocalState /\ Sound(q) /\ a \in Assets /\ m \in Months /\ q.amount \in Nat
      /\ q.rows \in [Assets -> Row] /\ q.drafts \in [Assets -> Amounts]
      /\ q.kind \in Kinds /\ \A b \in Assets, n \in Months : q.drafts[b][n] \in Nat
  BY LocalFields
<1>3. ASSUME NEW n \in Nat, NEW table \in [Assets -> Amounts]
      PROVE  [table EXCEPT ![a][m] = n] \in [Assets -> Amounts]
  <2> HIDE DEF a, m
  <2> QED BY <1>2, DraftType
<1>4. CASE Claim(r)
  <2>1. schedule' = schedule \/ schedule' = [schedule EXCEPT ![a][m] = q.amount]
    BY <1>4 DEF Claim
  <2>2. schedule' \in [Assets -> Amounts]
    <3>1. [schedule EXCEPT ![a][m] = q.amount] \in [Assets -> Amounts]
      <4> HIDE DEF a, m, q
      <4> QED BY <1>1, <1>2, <1>3
    <3> QED BY <1>1, <2>1, <3>1
  <2> QED BY <1>1, <1>4, <2>2 DEF Claim, TablesOK
<1>5. CASE Post(r)
  <2>1. ledger[a][m] + q.amount \in Nat
    <3> HIDE DEF a, m, q
    <3>1. ledger[a] \in Amounts
      BY <1>1, <1>2
    <3>2. ledger[a][m] \in Nat
      BY <1>2, <3>1 DEF Amounts
    <3> QED BY <1>2, <3>2
  <2>2. ledger' = [ledger EXCEPT ![a][m] = ledger[a][m] + q.amount]
    BY <1>5, <1>1 DEF Post, Amounts
  <2> HIDE DEF a, m, q
  <2>3. ledger' \in [Assets -> Amounts]
    BY <1>1, <1>3, <2>1, <2>2
  <2> QED BY <1>1, <1>5, <2>3 DEF Post, TablesOK
<1>6. CASE SetAsset(r)
  <2>1. q.rows[a].acc + q.amount \in 0..Depreciable
    BY <1>2, <1>6 DEF SetAsset, At, Is, Sound, Row
  <2>2. asset' \in [Assets -> Row]
    BY <1>1, <1>2, <1>6, <2>1 DEF SetAsset, Row
  <2> QED BY <1>1, <1>6, <2>2 DEF SetAsset, TablesOK
<1>7. CASE Undo(r)
  BY <1>1, <1>3, <1>7 DEF Undo, TablesOK
<1>8. CASE CommitBatch(r)
  <2>1. \A b \in Assets : q.rows[b].acc + q.drafts[b][m] \in 0..Depreciable
    <3>1. \A b \in Assets : q.rows[b].acc + q.drafts[b][m] <= Depreciable
      BY <1>2, <1>8, LocalFields DEF CommitBatch, At, Sound, StepsOf, Kinds
    <3> QED BY <1>2, <3>1 DEF Row
  <2>2. asset' \in [Assets -> Row]
    BY <1>1, <2>1, <1>8 DEF CommitBatch, Row
  <2> QED BY <1>1, <1>8, <2>2, PublishType DEF CommitBatch, TablesOK
<1>9. CASE Dispose(r)
  <2>1. q.rows[a].acc \in 0..Depreciable
    BY <1>2 DEF Row
  <2>2. asset' \in [Assets -> Row]
    BY <1>1, <1>2, <1>9, <2>1 DEF Dispose, Row
  <2>3. cleared' \in [Assets -> Seq([month : Months, amount : 0..Depreciable])]
    <3>1. [month |-> m, amount |-> q.rows[a].acc] \in [month : Months, amount : 0..Depreciable]
      BY <1>2, <2>1
    <3>2. Append(cleared[a], [month |-> m, amount |-> q.rows[a].acc])
          \in Seq([month : Months, amount : 0..Depreciable])
      BY <1>1, <1>2, <3>1, AppendProperties
    <3>3. cleared' = [cleared EXCEPT ![a] = Append(cleared[a], [month |-> m, amount |-> q.rows[a].acc])]
      BY <1>9 DEF Dispose
    <3> QED BY <1>1, <1>2, <3>2, <3>3
  <2> QED BY <1>9, <2>2, <2>3, PublishType DEF Dispose, TablesOK
<1>10. CASE WriteEdit(r)
  <2> DEFINE row == q.rows[a]
             life == [asset[a] EXCEPT !.life = row.life]
             status == [asset[a] EXCEPT !.status = row.status]
  <2>2. row \in Row /\ asset[a] \in Row
    BY <1>1, <1>2
  <2>3. life \in Row /\ status \in Row
    <3> HIDE DEF row
    <3> QED BY <2>2 DEF Row
  <2>4. asset' = asset \/ asset' = [asset EXCEPT ![a] = life] \/ asset' = [asset EXCEPT ![a] = status]
    BY <1>1, <1>10 DEF WriteEdit
  <2>1. asset' \in [Assets -> Row]
    <3> HIDE DEF life, status, a, q
    <3> QED BY <1>1, <1>2, <2>3, <2>4
  <2> QED BY <1>1, <1>10, <2>1 DEF WriteEdit, TablesOK
<1> QED BY <1>4, <1>5, <1>6, <1>7, <1>8, <1>9, <1>10

LEMMA TablesStep == TypeInv /\ [Next]_vars => TablesOK'
<1> SUFFICES ASSUME TypeInv, [Next]_vars PROVE TablesOK'
  OBVIOUS
<1>1. TablesOK
  BY DEF TypeInv, TypeOK, TablesOK
<1>2. UNCHANGED <<asset, schedule, ledger, cleared>> => TablesOK'
  BY <1>1 DEF TablesOK
<1>3. ASSUME NEW a \in Assets, Delete(a) PROVE TablesOK'
  <2>1. asset[a] \in Row
    BY <1>1 DEF TablesOK
  <2>2. [asset[a] EXCEPT !.status = "deleted"] \in Row
    BY <2>1 DEF Row
  <2>3. asset' = [asset EXCEPT ![a] = [asset[a] EXCEPT !.status = "deleted"]]
    BY <1>3 DEF Delete
  <2>4. asset' \in [Assets -> Row]
    BY <1>1, <2>2, <2>3 DEF TablesOK
  <2> QED BY <1>1, <1>3, <2>4, NothingType DEF Delete, TablesOK
<1>4. ASSUME NEW r \in Requests, Begin(r) PROVE UNCHANGED books
  BY <1>4 DEF Begin, Depreciate, BeginDispose, RunBatch, Edits, Edit
<1>5. ASSUME NEW r \in Requests, Step(r) \/ Fail(r) \/ Die(r)
      PROVE  \/ UNCHANGED books
             \/ Claim(r) \/ Post(r) \/ SetAsset(r) \/ Undo(r) \/ CommitBatch(r) \/ Dispose(r) \/ WriteEdit(r)
  BY <1>5 DEF Step, PassLock, Find, Connect, LockDate, BatchClaim, BatchSet, Pick, LockRow, CatchUp,
              Book, Count, Timeout, Fail, Die
<1>6. UNCHANGED books => UNCHANGED <<asset, schedule, ledger, cleared>>
  BY DEF books
<1>7. ASSUME NEW m \in Lockable, LockPeriod(m) \/ UnlockPeriod(m) PROVE UNCHANGED books
  BY <1>7 DEF LockPeriod, UnlockPeriod
<1>8. UNCHANGED vars => UNCHANGED books
  BY DEF vars, books
<1> QED BY <1>2, <1>3, <1>4, <1>5, <1>6, <1>7, <1>8, WritesType DEF Next

LEMMA InitTypeInv == Init => TypeInv
<1> SUFFICES ASSUME Init PROVE TypeInv
  OBVIOUS
<1>1. asset \in [Assets -> Row]
  BY NewType DEF Init, Unread
<1>2. schedule \in [Assets -> Amounts] /\ ledger \in [Assets -> Amounts]
  BY NothingType DEF Init
<1>3. cleared \in [Assets -> Seq([month : Months, amount : 0..Depreciable])]
  BY EmptySeq DEF Init
<1>4. request \in [Requests -> LocalState] /\ \A r \in Requests : Sound(request[r])
  BY RestingSound DEF Init
<1> QED BY <1>1, <1>2, <1>3, <1>4 DEF Init, TypeInv, TypeOK

LEMMA StepTypeInv == TypeInv /\ [Next]_vars => TypeInv'
<1> SUFFICES ASSUME TypeInv, [Next]_vars PROVE TypeInv'
  OBVIOUS
<1>1. TablesOK'
  BY TablesStep
<1>2. RequestsKept
  <2>1. ASSUME request' = request PROVE RequestsKept
    BY <2>1 DEF RequestsKept, TypeInv, TypeOK
  <2> QED BY <2>1, RequestsStep DEF Next, Delete, LockPeriod, UnlockPeriod, vars
<1>3. locked' \subseteq Months /\ sealed' \subseteq locked' /\ crossed' \cup torn' \cup patched' \subseteq Assets
  <2>1. /\ locked \subseteq Months /\ sealed \subseteq locked /\ crossed \cup torn \cup patched \subseteq Assets
        /\ \A r \in Requests : request[r].asset \in Assets
    BY LocalFields DEF TypeInv, TypeOK
  <2>2. Lockable \subseteq Months
    BY DEF Months
  <2>3. ASSUME NEW m \in Lockable, LockPeriod(m) \/ UnlockPeriod(m)
        PROVE  locked' \subseteq Months /\ sealed' \subseteq locked' /\ UNCHANGED <<crossed, torn, patched>>
    BY <2>1, <2>2, <2>3 DEF LockPeriod, UnlockPeriod, books
  <2>4. ASSUME NEW r \in Requests, End(r) PROVE sealed' = sealed \/ sealed' = locked
    BY <2>4 DEF End
  <2>5. ASSUME NEW r \in Requests, Begin(r) \/ Step(r) \/ Fail(r) \/ Die(r)
        PROVE  /\ locked' = locked /\ (sealed' = sealed \/ sealed' = locked)
               /\ crossed' \cup torn' \cup patched' \subseteq Assets
    <3>1. CASE Begin(r)
      BY <2>1, <3>1 DEF Begin, Depreciate, BeginDispose, RunBatch, Edits, Edit, Meets, books
    <3>2. CASE PassLock(r) \/ Find(r) \/ Connect(r) \/ LockDate(r) \/ BatchClaim(r) \/ BatchSet(r)
               \/ (\E a \in Assets : Pick(r, a))
      BY <2>1, <2>4, <3>2 DEF PassLock, Find, Connect, LockDate, BatchClaim, BatchSet, Pick, Meets, books
    <3>3. CASE LockRow(r) \/ CatchUp(r) \/ Book(r) \/ Count(r) \/ WriteEdit(r)
      <4>1. CatchUp(r) => sealed' = sealed \/ End(r)
        BY DEF CatchUp, MonthChecked
      <4> QED BY <2>1, <2>4, <3>3, <4>1 DEF LockRow, CatchUp, Book, Count, WriteEdit, Meets, books
    <3>4. CASE Claim(r) \/ Post(r) \/ SetAsset(r) \/ Undo(r) \/ CommitBatch(r) \/ Dispose(r)
      BY <2>1, <2>4, <3>4 DEF Claim, Post, SetAsset, Undo, CommitBatch, Dispose
    <3>5. CASE Fail(r) \/ Die(r) \/ Timeout(r)
      BY <2>1, <2>4, <3>5 DEF Fail, Die, Timeout, books
    <3> QED BY <2>5, <3>1, <3>2, <3>3, <3>4, <3>5 DEF Step
  <2>6. ASSUME NEW a \in Assets, Delete(a) PROVE UNCHANGED <<locked, sealed, crossed, torn, patched>>
    BY <2>6 DEF Delete
  <2>7. UNCHANGED vars => UNCHANGED <<locked, sealed, crossed, torn, patched>>
    BY DEF vars
  <2> QED BY <2>1, <2>3, <2>5, <2>6, <2>7 DEF Next
<1> QED BY <1>1, <1>2, <1>3 DEF TypeInv, TypeOK, TablesOK, RequestsKept

(* Assets, schedules, entries and handlers keep their types: accumulated     *)
(* depreciation never exceeds what can be depreciated, whatever handlers     *)
(* interleave, for every charge was made of a row read with room for it.     *)
THEOREM RegisterTypes == Spec => []TypeOK
<1>1. TypeInv => TypeOK
  BY DEF TypeInv
<1> QED BY InitTypeInv, StepTypeInv, <1>1, PTL DEF Spec

-----------------------------------------------------------------------------
(* Months that are closed.                                                   *)

\* Past its checks a handler carries no month that is sealed.
Unsealed(r) ==
    /\ request[r].step \notin {"idle", "check"} => request[r].month \notin sealed
    /\ request[r].step = "book" => Min(request[r].months) \notin sealed
    /\ \A a \in Assets, m \in Months : request[r].drafts[a][m] # 0 => m \notin sealed

SealInv == \A r \in Requests : Unsealed(r)

LEMMA GotoFields ==
    ASSUME TypeInv, NEW r \in Requests, NEW to, Goto(r, to)
    PROVE  /\ request'[r].step = to /\ request'[r].kind = request[r].kind
           /\ request'[r].asset = request[r].asset /\ request'[r].month = request[r].month
           /\ request'[r].rows = request[r].rows /\ request'[r].amount = request[r].amount
           /\ request'[r].months = request[r].months /\ request'[r].drafts = request[r].drafts
<1>1. request[r] \in LocalState /\ request \in [Requests -> LocalState]
  BY DEF TypeInv, TypeOK
<1>2. request'[r] = [request[r] EXCEPT !.step = to]
  BY <1>1 DEF Goto
<1> QED BY <1>1, <1>2 DEF LocalState

LEMMA FindFields ==
    ASSUME TypeInv, NEW r \in Requests, Find(r), ~End(r)
    PROVE  /\ request[r].kind = "single" /\ request[r].step = "find" /\ request'[r].step = "claim"
           /\ request'[r].kind = request[r].kind
           /\ request'[r].asset = request[r].asset /\ request'[r].month = request[r].month
           /\ request'[r].rows = request[r].rows
           /\ request'[r].months = request[r].months /\ request'[r].drafts = request[r].drafts
<1>1. request[r] \in LocalState /\ request \in [Requests -> LocalState] /\ request[r].step = "find"
      /\ Sound(request[r]) /\ request[r].kind \in Kinds
  BY LocalFields DEF TypeInv, TypeOK, Find, At
<1>2. request[r].kind = "single"
  BY <1>1 DEF Sound, StepsOf, Kinds
<1> DEFINE amount == Charge(request[r].rows[request[r].asset], request[r].month,
                            BookedBefore(r, request[r].asset, request[r].month))
<1>3. Set(r, [request[r] EXCEPT !.step = "claim", !.amount = amount])
  BY DEF Find
<1> HIDE DEF amount
<1>4. request'[r] = [request[r] EXCEPT !.step = "claim", !.amount = amount]
  BY <1>1, <1>3 DEF Set
<1> QED BY <1>1, <1>2, <1>4 DEF LocalState

\* What begins carries no drafts.
LEMMA BeginFields ==
    ASSUME TypeInv, NEW r \in Requests, Begin(r)
    PROVE  /\ request[r].step = "idle" /\ request'[r].step = "check"
           /\ \A a \in Assets, m \in Months : request'[r].drafts[a][m] = 0
           /\ UNCHANGED <<asset, schedule, ledger, cleared, patched, locked, sealed, torn>>
<1>1. request[r].step = "idle" /\ \E kind, a, m, rows : Set(r, Local(kind, "check", a, m, rows))
  BY DEF Begin, Depreciate, BeginDispose, RunBatch, Edits, Edit, Idle
<1>2. \E kind, a, m, rows : request'[r] = Local(kind, "check", a, m, rows)
  BY <1>1 DEF Set, TypeInv, TypeOK
<1>3. request'[r].step = "check" /\ \A a \in Assets, m \in Months : request'[r].drafts[a][m] = 0
  BY <1>2, NothingType DEF Local
<1>4. UNCHANGED <<asset, schedule, ledger, cleared, patched, locked, sealed, torn>>
  BY DEF Begin, Depreciate, BeginDispose, RunBatch, Edits, Edit, books
<1> QED BY <1>1, <1>3, <1>4

Acts(r) == Begin(r) \/ Step(r) \/ Fail(r) \/ Die(r)

LEMMA OthersWait ==
    ASSUME TypeInv, NEW r \in Requests, Acts(r)
    PROVE  \A q \in Requests \ {r} : request'[q] = request[q]
<1>1. ASSUME NEW x, Set(r, x) PROVE \A q \in Requests \ {r} : request'[q] = request[q]
  BY <1>1 DEF Set, TypeInv, TypeOK
<1>2. ASSUME NEW to, Goto(r, to) PROVE \A q \in Requests \ {r} : request'[q] = request[q]
  BY <1>2 DEF Goto, TypeInv, TypeOK
<1>3. End(r) => \A q \in Requests \ {r} : request'[q] = request[q]
  BY <1>1 DEF End
<1>4. CASE Begin(r)
  BY <1>1, <1>4 DEF Begin, Depreciate, BeginDispose, RunBatch, Edits, Edit
<1>5. CASE PassLock(r) \/ Find(r) \/ Connect(r) \/ LockDate(r) \/ BatchClaim(r) \/ BatchSet(r)
           \/ (\E a \in Assets : Pick(r, a))
  BY <1>1, <1>2, <1>3, <1>5 DEF PassLock, Find, Connect, LockDate, BatchClaim, BatchSet, Pick
<1>6. CASE LockRow(r) \/ CatchUp(r) \/ Book(r) \/ Count(r) \/ WriteEdit(r)
  BY <1>1, <1>2, <1>3, <1>6 DEF LockRow, CatchUp, MonthChecked, Book, Count, WriteEdit
<1>7. CASE Claim(r) \/ Post(r) \/ SetAsset(r) \/ Undo(r) \/ CommitBatch(r) \/ Dispose(r)
  BY <1>2, <1>3, <1>7 DEF Claim, Post, SetAsset, Undo, CommitBatch, Dispose
<1>8. CASE Fail(r) \/ Die(r) \/ Timeout(r)
  BY <1>2, <1>3, <1>8 DEF Fail, Die, Timeout
<1> QED BY <1>4, <1>5, <1>6, <1>7, <1>8 DEF Acts, Step

\* A handler that goes on has its month checked, and the months of its drafts.
GoesOn(r) ==
    /\ sealed' = sealed /\ locked' = locked
    /\ request[r].step # "idle" /\ request'[r].month = request[r].month
    /\ request[r].step = "check" => request[r].month \notin locked
    /\ request'[r].step = "book" => Min(request'[r].months) \notin locked
    /\ \A a \in Assets, m \in Months : request'[r].drafts[a][m] # 0 =>
          \/ request[r].drafts[a][m] # 0
          \/ request[r].step = "claim" /\ m = request[r].month
          \/ request[r].step = "book" /\ m = Min(request[r].months)

LEMMA Proceeds ==
    ASSUME TypeInv, NEW r \in Requests, Step(r) \/ Fail(r) \/ Die(r), ~End(r)
    PROVE  GoesOn(r)
<1>1. CASE PassLock(r)
  <2>1. Goto(r, After(request[r].kind)) /\ request[r].step = "check" /\ request[r].month \notin locked
        /\ UNCHANGED <<sealed, locked>>
    BY <1>1 DEF PassLock, At
  <2>2. After(request[r].kind) # "book"
    BY DEF After
  <2> QED BY <2>1, <2>2, GotoFields DEF GoesOn
<1>2. CASE Find(r)
  BY <1>2, FindFields DEF Find, GoesOn
<1>3. ASSUME NEW to, Goto(r, to), to # "book", request[r].step \notin {"idle", "check"}, UNCHANGED <<sealed, locked>>
      PROVE  GoesOn(r)
  BY <1>3, GotoFields DEF GoesOn
<1>4. CASE Claim(r) \/ Post(r) \/ SetAsset(r) \/ Undo(r) \/ Connect(r) \/ Count(r) \/ WriteEdit(r)
  <2>1. Connect(r) => /\ request[r].step = "connect" /\ UNCHANGED <<sealed, locked>>
                      /\ Goto(r, "lockDate") \/ Goto(r, "lockRow")
    BY DEF Connect, At
  <2> QED BY <1>3, <1>4, <2>1 DEF Claim, Post, SetAsset, Undo, Count, WriteEdit, At
<1>5. CASE Timeout(r) \/ Fail(r) \/ Die(r)
  <2>1. Claimed(r) => request[r].step \notin {"idle", "check"}
    BY DEF Claimed
  <2> QED BY <1>3, <1>5, <2>1 DEF Timeout, Fail, Die
<1>6. CASE LockDate(r)
  BY <1>6, LockDateKeeps DEF LockDate, GoesOn
<1>7. ASSUME NEW a \in Assets, Pick(r, a) PROVE GoesOn(r)
  BY <1>7, PickKeeps DEF Pick, GoesOn
<1>8. CASE BatchClaim(r)
  <2>1. ~Lost(r) /\ UNCHANGED <<sealed, locked>>
    BY <1>8 DEF BatchClaim
  <2> QED BY <1>8, <2>1, BatchClaims DEF GoesOn
<1>9. CASE BatchSet(r)
  BY <1>9, BatchSetKeeps DEF BatchSet, GoesOn
<1>10. CASE LockRow(r)
  BY <1>10, LockRowKeeps DEF LockRow, GoesOn
<1>11. CASE CatchUp(r)
  <2>1. UNCHANGED <<sealed, locked>>
    BY <1>11 DEF CatchUp, MonthChecked
  <2> QED BY <1>11, <2>1, CatchUpKeeps DEF GoesOn
<1>12. CASE Book(r)
  <2>1. UNCHANGED <<sealed, locked>>
    BY <1>12 DEF Book
  <2> QED BY <1>12, <2>1, BookKeeps DEF GoesOn
<1>13. ~CommitBatch(r) /\ ~Dispose(r)
  BY DEF CommitBatch, Dispose
<1> QED BY <1>1, <1>2, <1>4, <1>5, <1>6, <1>7, <1>8, <1>9, <1>10, <1>11, <1>12, <1>13 DEF Step

LEMMA StepSealInv == TypeInv /\ TypeInv' /\ SealInv /\ [Next]_vars => SealInv'
<1> SUFFICES ASSUME TypeInv, TypeInv', SealInv, [Next]_vars PROVE SealInv'
  OBVIOUS
<1>1. sealed \subseteq locked
  BY DEF TypeInv, TypeOK
<1>2. ASSUME \A r \in Requests : request'[r].step = "idle" PROVE SealInv'
  <2> SUFFICES ASSUME NEW r \in Requests PROVE Unsealed(r)'
    BY DEF SealInv
  <2>1. Sound(request'[r]) /\ request'[r].step = "idle" /\ request'[r].kind \in Kinds
    BY <1>2 DEF TypeInv, TypeOK, LocalState
  <2>2. request'[r].drafts = [a \in Assets |-> Nothing]
    BY <2>1 DEF Sound, StepsOf, Kinds
  <2>3. \A a \in Assets, m \in Months : request'[r].drafts[a][m] = 0
    BY <2>2, NothingType
  <2> QED BY <2>1, <2>3 DEF Unsealed
<1>3. ASSUME NEW q \in Requests, request'[q] = request[q], sealed' \subseteq sealed PROVE Unsealed(q)'
  BY <1>3 DEF Unsealed, SealInv
<1>4. ASSUME request' = request, sealed' \subseteq sealed PROVE SealInv'
  BY <1>3, <1>4 DEF SealInv
<1>5. ASSUME NEW m \in Lockable, LockPeriod(m) \/ UnlockPeriod(m) PROVE SealInv'
  BY <1>2, <1>4, <1>5 DEF LockPeriod, UnlockPeriod, Idle
<1>6. ASSUME NEW a \in Assets, Delete(a) PROVE SealInv'
  BY <1>4, <1>6 DEF Delete
<1>7. ASSUME NEW r \in Requests, Acts(r) PROVE SealInv'
  <2>1. \A q \in Requests \ {r} : request'[q] = request[q]
    BY <1>7, OthersWait
  <2>2. CASE End(r)
    <3>1. request'[r] = Resting
      BY <2>2, EndKeeps
    <3>2. CASE \A q \in Requests \ {r} : Idle(q)
      BY <1>2, <2>1, <3>1, <3>2, RestingSound DEF Idle
    <3>3. CASE sealed' = sealed
      <4>1. Unsealed(r)'
        BY <3>1, RestingSound DEF Unsealed
      <4> QED BY <1>3, <2>1, <3>3, <4>1 DEF SealInv
    <3> QED BY <2>2, <3>2, <3>3 DEF End
  <2>3. CASE Begin(r)
    <3>1. Unsealed(r)' /\ sealed' = sealed
      BY <2>3, BeginFields DEF Unsealed
    <3> QED BY <1>3, <2>1, <3>1 DEF SealInv
  <2>4. CASE GoesOn(r)
    <3>1. Unsealed(r) /\ sealed' = sealed
      BY <2>4 DEF SealInv, GoesOn
    <3>2. Unsealed(r)'
      BY <1>1, <2>4, <3>1 DEF Unsealed, GoesOn
    <3> QED BY <1>3, <2>1, <3>1, <3>2 DEF SealInv
  <2> QED BY <1>7, <2>2, <2>3, <2>4, Proceeds DEF Acts
<1> QED BY <1>4, <1>5, <1>6, <1>7 DEF Next, Acts, vars

LEMMA SealedTakeNothing ==
    TypeInv /\ SealInv /\ [Next]_vars =>
       [\A m \in sealed, a \in Assets :
          /\ ledger'[a][m] = ledger[a][m]
          /\ cleared'[a] # cleared[a] => Last(cleared'[a]).month # m]_vars
<1> SUFFICES ASSUME TypeInv, SealInv, [Next]_vars, NEW m \in sealed, NEW a \in Assets
             PROVE  /\ ledger'[a][m] = ledger[a][m]
                    /\ cleared'[a] # cleared[a] => Last(cleared'[a]).month # m
  OBVIOUS
<1>1. m \in Months
  BY DEF TypeInv, TypeOK
<1>2. ASSUME NEW r \in Requests, Post(r)
      PROVE  ledger'[a][m] = ledger[a][m] /\ cleared' = cleared
  <2>1. request[r].month # m /\ request[r].month \in Months /\ request[r].asset \in Assets
    BY <1>2, LocalFields DEF SealInv, Unsealed, Post, At
  <2>2. ledger[a] \in Amounts /\ ledger \in [Assets -> Amounts]
    BY DEF TypeInv, TypeOK
  <2> QED BY <1>1, <1>2, <2>1, <2>2 DEF Post, Amounts
<1>3. ASSUME NEW r \in Requests, CommitBatch(r) \/ Dispose(r) PROVE ledger'[a][m] = ledger[a][m]
  <2>1. request[r].drafts[a][m] = 0
    BY <1>1 DEF SealInv, Unsealed
  <2>2. ledger'[a][m] = ledger[a][m] + request[r].drafts[a][m]
    BY <1>1, <1>3, PublishType DEF CommitBatch, Dispose
  <2>3. ledger[a][m] \in Nat
    <3>1. ledger[a] \in Amounts
      BY DEF TypeInv, TypeOK
    <3> QED BY <1>1, <3>1 DEF Amounts
  <2> QED BY <2>1, <2>2, <2>3
<1>4. ASSUME NEW r \in Requests, Dispose(r), cleared'[a] # cleared[a] PROVE Last(cleared'[a]).month # m
  <2> DEFINE entry == [month |-> request[r].month, amount |-> request[r].rows[request[r].asset].acc]
  <2>1. request[r].month # m
    BY <1>4 DEF SealInv, Unsealed, Dispose, At
  <2>2. cleared \in [Assets -> Seq([month : Months, amount : 0..Depreciable])]
    BY DEF TypeInv, TypeOK
  <2>3. cleared' = [cleared EXCEPT ![request[r].asset] = Append(cleared[request[r].asset], entry)]
    BY <1>4 DEF Dispose
  <2>4. cleared'[a] = Append(cleared[a], entry) /\ cleared[a] \in Seq([month : Months, amount : 0..Depreciable])
    BY <1>4, <2>2, <2>3
  <2>5. request[r].month \in Months /\ request[r].rows[request[r].asset].acc \in 0..Depreciable
    BY LocalFields DEF Row
  <2>6. entry \in [month : Months, amount : 0..Depreciable] /\ entry.month = request[r].month
    BY <2>5
  <2>7. Last(cleared'[a]) = entry
    <3> HIDE DEF entry
    <3> QED BY <2>4, <2>6, AppendProperties DEF Last
  <2> QED BY <2>1, <2>6, <2>7
<1>5. CASE UNCHANGED <<ledger, cleared>>
  BY <1>5
<1>6. ASSUME NEW r \in Requests, Acts(r), ~Post(r), ~CommitBatch(r), ~Dispose(r) PROVE UNCHANGED <<ledger, cleared>>
  <2>1. CASE Begin(r)
    BY <2>1, BeginFields
  <2> QED BY <1>6, <2>1 DEF Acts, Step, PassLock, Find, Claim, SetAsset, Undo, Connect, LockDate, BatchClaim, BatchSet,
             Pick, LockRow, CatchUp, Book, Count, WriteEdit, Timeout, Fail, Die, books
<1>7. ASSUME NEW r \in Requests, CommitBatch(r) PROVE cleared' = cleared
  BY <1>7 DEF CommitBatch
<1>8. ASSUME ~\E r \in Requests : Acts(r) PROVE UNCHANGED <<ledger, cleared>>
  BY <1>8 DEF Next, Acts, Delete, LockPeriod, UnlockPeriod, books, vars
<1> QED BY <1>2, <1>3, <1>4, <1>5, <1>6, <1>7, <1>8

(* From the first moment of rest after its lock a month takes no             *)
(* depreciation and no disposal, from any number of handlers that overlap,   *)
(* fail and die: whatever a handler is about to book has been checked, the   *)
(* months a disposal catches up on one by one (fixed-assets.routes.ts).      *)
THEOREM ClosedMonthsUndepreciated == Spec => ClosedMonthsTakeNoDepreciation
<1>1. Init => SealInv
  BY DEF Init, SealInv, Unsealed
<1> QED BY InitTypeInv, StepTypeInv, StepSealInv, SealedTakeNothing, <1>1, PTL
      DEF Spec, ClosedMonthsTakeNoDepreciation

-----------------------------------------------------------------------------
(* The ledger ties to the schedules.                                         *)
Alive(a) == asset[a].status # "deleted"

\* r has claimed month m of a and not posted it, or is taking it back.
Holding(r, a, m) ==
    Is(r, "single") /\ request[r].step \in {"post", "undo"} /\ request[r].asset = a /\ request[r].month = m

\* What is claimed and not posted has one claimant.
Slot(r, a, m) ==
    Holding(r, a, m) /\ a \notin torn /\ Alive(a) =>
        /\ schedule[a][m] = request[r].amount /\ ledger[a][m] = 0
        /\ \A q \in Requests \ {r} : ~Holding(q, a, m)

\* What a transaction is about to publish nobody else has claimed.
Draft(r, a, m) ==
    request[r].drafts[a][m] # 0 =>
        /\ Alive(a) /\ schedule[a][m] = 0
        /\ \A q \in Requests \ {r} : request[q].drafts[a][m] = 0

\* A disposal is alone on its asset, with what it found unbooked.
Lock(r, a) ==
    ForUpdate(r, a) =>
        /\ asset[a].status = "active"
        /\ \A m \in request[r].months : schedule[a][m] = 0
        /\ \A q \in Requests \ {r} : ~ForUpdate(q, a) /\ \A m \in Months : request[q].drafts[a][m] = 0

\* No edit deletes.
Revives(r) == request[r].kind = "status" => request[r].rows[request[r].asset].status # "deleted"

Ties(a, m) ==
    \/ a \in torn \/ ~Alive(a)
    \/ ledger[a][m] = schedule[a][m]
    \/ \E r \in Requests : Holding(r, a, m)

LedgerInv ==
    /\ \A a \in Assets, m \in Months : Ties(a, m)
    /\ \A r \in Requests, a \in Assets, m \in Months : Slot(r, a, m) /\ Draft(r, a, m)
    /\ \A r \in Requests, a \in Assets : Lock(r, a)
    /\ \A r \in Requests : Revives(r)

LEMMA InitLedgerInv == Init => LedgerInv
<1> SUFFICES ASSUME Init PROVE LedgerInv
  OBVIOUS
<1>1. \A r \in Requests : request[r] = Resting
  BY DEF Init
<1>2. \A a \in Assets, m \in Months : schedule[a][m] = 0 /\ ledger[a][m] = 0
  BY NothingType DEF Init
<1> QED BY <1>1, <1>2, RestingSound DEF LedgerInv, Ties, Slot, Draft, Lock, Revives, Holding, ForUpdate, Is

\* A step that neither claims nor books nor publishes.
Calm(r) ==
    /\ UNCHANGED <<schedule, ledger>> /\ torn \subseteq torn'
    /\ \A q \in Requests \ {r} : request'[q] = request[q]
    /\ \A a \in Assets : \/ asset'[a].status = asset[a].status
                         \/ Alive(a) /\ Alive(a)' /\ \A q \in Requests : ~ForUpdate(q, a)'
    /\ \A a \in Assets, m \in Months : Holding(r, a, m)' =>
          a \in torn' \/ (Holding(r, a, m) /\ request'[r].amount = request[r].amount)
    /\ \A a \in Assets, m \in Months : Holding(r, a, m) => Holding(r, a, m)' \/ a \in torn'
    /\ \A a \in Assets, m \in Months : request'[r].drafts[a][m] # 0 => request[r].drafts[a][m] # 0
    /\ \A a \in Assets : ForUpdate(r, a)' => ForUpdate(r, a) /\ request'[r].months \subseteq request[r].months
    /\ Revives(r)'

LEMMA CalmStep == ASSUME LedgerInv, NEW r \in Requests, Calm(r) PROVE LedgerInv'
<1> USE DEF Calm
<1>1. \A q \in Requests, a \in Assets, m \in Months : Holding(q, a, m)' =>
         a \in torn' \/ (Holding(q, a, m) /\ request'[q].amount = request[q].amount)
  BY DEF Holding, Is
<1>2. \A a \in Assets : Alive(a)' <=> Alive(a)
  BY DEF Alive
<1>3. \A q \in Requests, a \in Assets, m \in Months : request'[q].drafts[a][m] # 0 => request[q].drafts[a][m] # 0
  OBVIOUS
<1>4. \A q \in Requests, a \in Assets :
         ForUpdate(q, a)' => ForUpdate(q, a) /\ request'[q].months \subseteq request[q].months
  BY DEF ForUpdate
<1>5. ASSUME NEW a \in Assets, NEW m \in Months PROVE Ties(a, m)'
  <2>1. CASE \E q \in Requests : Holding(q, a, m)
    <3>1. PICK q \in Requests : Holding(q, a, m)
      BY <2>1
    <3>2. Holding(q, a, m)' \/ a \in torn'
      <4>1. CASE q = r
        BY <3>1, <4>1
      <4>2. CASE q # r
        BY <3>1, <4>2 DEF Holding, Is
      <4> QED BY <4>1, <4>2
    <3> QED BY <3>2 DEF Ties
  <2>2. CASE ~\E q \in Requests : Holding(q, a, m)
    BY <1>2, <2>2 DEF LedgerInv, Ties
  <2> QED BY <2>1, <2>2
<1>6. ASSUME NEW q \in Requests, NEW a \in Assets, NEW m \in Months PROVE Slot(q, a, m)'
  BY <1>1, <1>2 DEF LedgerInv, Slot
<1>7. ASSUME NEW q \in Requests, NEW a \in Assets, NEW m \in Months PROVE Draft(q, a, m)'
  BY <1>2, <1>3 DEF LedgerInv, Draft
<1>8. ASSUME NEW q \in Requests, NEW a \in Assets PROVE Lock(q, a)'
  <2> SUFFICES ASSUME ForUpdate(q, a)' PROVE Lock(q, a)'
    BY DEF Lock
  <2>1. ForUpdate(q, a) /\ request'[q].months \subseteq request[q].months /\ asset'[a].status = asset[a].status
    BY <1>4
  <2>2. Lock(q, a)
    BY DEF LedgerInv
  <2> QED BY <1>3, <1>4, <2>1, <2>2 DEF Lock
<1>9. ASSUME NEW q \in Requests PROVE Revives(q)'
  BY DEF LedgerInv, Revives
<1> QED BY <1>5, <1>6, <1>7, <1>8, <1>9 DEF LedgerInv

LEMMA CalmEnd ==
    ASSUME TypeInv, NEW r \in Requests, End(r), UNCHANGED <<schedule, ledger>>, torn \subseteq torn',
           \A a \in Assets : \/ asset'[a].status = asset[a].status
                             \/ Alive(a) /\ Alive(a)' /\ \A q \in Requests : ~ForUpdate(q, a)',
           \A a \in Assets, m \in Months : Holding(r, a, m) => a \in torn'
    PROVE  Calm(r)
<1>1. request'[r] = Resting /\ \A q \in Requests \ {r} : request'[q] = request[q]
  BY EndKeeps
<1>2. Resting.step = "idle" /\ Resting.kind = "single" /\ \A a \in Assets, m \in Months : Resting.drafts[a][m] = 0
  BY RestingSound
<1>3. /\ \A a \in Assets, m \in Months : ~Holding(r, a, m)' /\ request'[r].drafts[a][m] = 0
      /\ \A a \in Assets : ~ForUpdate(r, a)'
  BY <1>1, <1>2 DEF Holding, ForUpdate
<1>4. Revives(r)'
  BY <1>1, <1>2 DEF Revives
<1> QED BY <1>1, <1>3, <1>4 DEF Calm

\* Steps that go on and touch no table.
LEMMA CalmOn ==
    ASSUME TypeInv, LedgerInv, NEW r \in Requests, Acts(r),
           UNCHANGED <<asset, schedule, ledger>>, torn \subseteq torn',
           request'[r].kind = request[r].kind, request[r].kind # "batch" => request'[r].asset = request[r].asset,
           request'[r].month = request[r].month,
           request[r].kind = "status" => request'[r].rows = request[r].rows,
           \A a \in Assets, m \in Months : request'[r].drafts[a][m] # 0 => request[r].drafts[a][m] # 0,
           request[r].kind = "single" =>
               /\ request[r].step \in {"post", "undo"} => request'[r].step \in {"post", "undo"}
               /\ request'[r].step \in {"post", "undo"} =>
                     \/ request[r].asset \in torn'
                     \/ request[r].step \in {"post", "undo"} /\ request'[r].amount = request[r].amount,
           request'[r].step \in {"catchUp", "book", "dispose"} =>
               request[r].step \in {"catchUp", "book", "dispose"} /\ request'[r].months \subseteq request[r].months
    PROVE  Calm(r)
<1>1. \A q \in Requests \ {r} : request'[q] = request[q]
  BY OthersWait
<1>2. Revives(r)'
  <2>1. Revives(r)
    BY DEF LedgerInv
  <2> QED BY <2>1 DEF Revives
<1>3. \A a \in Assets, m \in Months : Holding(r, a, m) => Holding(r, a, m)'
  BY DEF Holding, Is
<1>4. \A a \in Assets, m \in Months : Holding(r, a, m)' =>
         a \in torn' \/ (Holding(r, a, m) /\ request'[r].amount = request[r].amount)
  BY DEF Holding, Is
<1>5. \A a \in Assets : ForUpdate(r, a)' => ForUpdate(r, a) /\ request'[r].months \subseteq request[r].months
  <2>1. request[r].step \in {"catchUp", "book", "dispose"} => request[r].kind # "batch"
    BY LocalFields DEF Sound, StepsOf, Kinds
  <2> QED BY <2>1 DEF ForUpdate
<1> QED BY <1>1, <1>2, <1>3, <1>4, <1>5 DEF Calm

LEMMA CalmBegin == ASSUME TypeInv, LedgerInv, NEW r \in Requests, Begin(r) PROVE Calm(r)
<1>1. \A q \in Requests \ {r} : request'[q] = request[q]
  BY OthersWait DEF Acts
<1>2. /\ \A a \in Assets, m \in Months : ~Holding(r, a, m)' /\ ~Holding(r, a, m)
      /\ \A a \in Assets : ~ForUpdate(r, a)'
  BY BeginFields DEF Holding, ForUpdate
<1>3. Revives(r)'
  <2>1. ASSUME NEW kind, NEW a \in Assets, NEW m, NEW rows, Set(r, Local(kind, "check", a, m, rows)),
               kind = "status" => rows[a].status # "deleted"
        PROVE  Revives(r)'
    <3>1. request'[r] = Local(kind, "check", a, m, rows)
      BY <2>1 DEF Set, TypeInv, TypeOK
    <3> QED BY <2>1, <3>1 DEF Local, Revives
  <2>2. ASSUME NEW a \in Assets, Edits(r, a) PROVE Revives(r)'
    <3>1. PICK kind \in Kinds, row \in Row : Edit(r, a, kind, row) /\ row.status # "deleted"
      <4>1. \A life \in Lives : [New EXCEPT !.life = life] \in Row /\ [New EXCEPT !.life = life].status = "active"
        BY NewType DEF Row
      <4>2. \A status \in {"active", "disposed"} :
               [New EXCEPT !.status = status] \in Row /\ [New EXCEPT !.status = status].status = status
        BY NewType DEF Row
      <4>3. CASE \E life \in Lives : Edit(r, a, "life", [New EXCEPT !.life = life])
        <5>1. PICK life \in Lives : Edit(r, a, "life", [New EXCEPT !.life = life])
          BY <4>3
        <5>2. "life" \in Kinds
          BY DEF Kinds
        <5> QED BY <4>1, <5>1, <5>2
      <4>4. CASE \E status \in {"active", "disposed"} : Edit(r, a, "status", [New EXCEPT !.status = status])
        <5>1. PICK status \in {"active", "disposed"} : Edit(r, a, "status", [New EXCEPT !.status = status])
          BY <4>4
        <5>2. "status" \in Kinds
          BY DEF Kinds
        <5> QED BY <4>2, <5>1, <5>2
      <4> QED BY <2>2, <4>3, <4>4 DEF Edits
    <3>2. Unread \in [Assets -> Row]
      BY NewType DEF Unread
    <3>3. [Unread EXCEPT ![a] = row][a].status # "deleted"
      BY <3>1, <3>2
    <3> QED BY <2>1, <3>1, <3>3 DEF Edit
  <2>3. ASSUME NEW a \in Assets, NEW m \in Months, Depreciate(r, a, m) \/ BeginDispose(r, a, m) PROVE Revives(r)'
    BY <2>1, <2>3 DEF Depreciate, BeginDispose
  <2>4. ASSUME NEW m \in Months, RunBatch(r, m) PROVE Revives(r)'
    BY <2>1, <2>4, RestingSound DEF RunBatch
  <2> QED BY <2>2, <2>3, <2>4 DEF Begin
<1> QED BY <1>1, <1>2, <1>3, BeginFields DEF Calm

\* All but nine of the handlers' steps are calm.
LEMMA CalmActs ==
    ASSUME TypeInv, LedgerInv, NEW r \in Requests, Acts(r)
    PROVE  \/ Calm(r)
           \/ Claim(r) /\ ~Lost(r)
           \/ Post(r) \/ Undo(r)
           \/ BatchClaim(r) /\ ~Lost(r)
           \/ LockRow(r) /\ ~End(r)
           \/ Book(r) \/ CommitBatch(r) \/ Dispose(r)
<1>0. \A a \in Assets, m \in Months : request[r].step \notin {"post", "undo"} => ~Holding(r, a, m)
  BY DEF Holding
<1>1. CASE Begin(r)
  BY <1>1, CalmBegin
<1>2. ASSUME End(r), UNCHANGED <<asset, schedule, ledger>>, torn' = torn, request[r].step \notin {"post", "undo"}
      PROVE  Calm(r)
  BY <1>0, <1>2, CalmEnd
<1>3. ASSUME NEW to, Goto(r, to), UNCHANGED <<asset, schedule, ledger>>, torn \subseteq torn',
             to \notin {"catchUp", "book", "dispose"},
             request[r].step \in {"post", "undo"} => to \in {"post", "undo"},
             to \in {"post", "undo"} => request[r].asset \in torn' \/ request[r].step \in {"post", "undo"}
      PROVE  Calm(r)
  BY <1>3, GotoFields, CalmOn
<1>4. CASE PassLock(r)
  <2>1. UNCHANGED <<asset, schedule, ledger, torn>> /\ request[r].step = "check"
    BY <1>4 DEF PassLock, books, At
  <2>2. CASE Goto(r, After(request[r].kind))
    <3>1. After(request[r].kind) \in {"find", "count", "write", "connect"}
      BY DEF After
    <3> QED BY <1>3, <2>1, <2>2, <3>1
  <2> QED BY <1>2, <1>4, <2>1, <2>2 DEF PassLock
<1>5. CASE Find(r)
  <2>1. UNCHANGED <<asset, schedule, ledger, torn>> /\ request[r].step = "find"
    BY <1>5 DEF Find, books, At
  <2>2. CASE ~End(r)
    BY <1>5, <2>1, <2>2, FindFields, CalmOn
  <2> QED BY <1>2, <2>1, <2>2
<1>6. CASE Claim(r) /\ Lost(r)
  BY <1>2, <1>6 DEF Claim, At
<1>7. CASE SetAsset(r)
  <2>1. \A a \in Assets : asset'[a].status = asset[a].status
    BY <1>7 DEF SetAsset, TypeInv, TypeOK, Row
  <2>2. End(r) /\ UNCHANGED <<schedule, ledger, torn>> /\ request[r].step = "set"
    BY <1>7 DEF SetAsset, At
  <2> QED BY <1>0, <2>1, <2>2, CalmEnd
<1>8. CASE Connect(r)
  <2>1. UNCHANGED <<asset, schedule, ledger, torn>> /\ request[r].step = "connect"
        /\ (Goto(r, "lockDate") \/ Goto(r, "lockRow"))
    BY <1>8 DEF Connect, books, At
  <2> QED BY <1>3, <2>1
<1>9. CASE LockDate(r)
  <2>1. UNCHANGED <<asset, schedule, ledger, torn>>
    BY <1>9 DEF LockDate, books
  <2>2. request'[r].asset = request[r].asset
    BY <1>9 DEF LockDate, Set, TypeInv, TypeOK, LocalState
  <2> QED BY <1>9, <2>1, <2>2, LockDateKeeps, CalmOn
<1>10. ASSUME NEW a \in Assets, Pick(r, a) PROVE Calm(r)
  <2>1. UNCHANGED <<asset, schedule, ledger, torn>>
    BY <1>10 DEF Pick, books
  <2> QED BY <1>10, <2>1, PickKeeps, CalmOn DEF Acts, Step
<1>11. CASE BatchClaim(r) /\ Lost(r)
  BY <1>2, <1>11 DEF BatchClaim, At, books
<1>12. CASE BatchSet(r)
  <2>1. UNCHANGED <<asset, schedule, ledger, torn>>
    BY <1>12 DEF BatchSet, books
  <2>2. request'[r].asset = request[r].asset
    BY <1>12 DEF BatchSet, Set, TypeInv, TypeOK, LocalState
  <2> QED BY <1>12, <2>1, <2>2, BatchSetKeeps, CalmOn
<1>13. CASE LockRow(r) /\ End(r)
  BY <1>2, <1>13 DEF LockRow, At, books
<1>14. CASE CatchUp(r)
  <2>1. UNCHANGED <<asset, schedule, ledger, torn>> /\ request[r].step = "catchUp"
    BY <1>14 DEF CatchUp, books, At
  <2>2. CASE ~End(r)
    BY <1>14, <2>1, <2>2, CatchUpKeeps, CalmOn
  <2> QED BY <1>2, <2>1, <2>2
<1>15. CASE Count(r)
  <2>1. UNCHANGED <<asset, schedule, ledger, torn>> /\ request[r].step = "count"
    BY <1>15 DEF Count, books, At
  <2> QED BY <1>2, <1>3, <1>15, <2>1 DEF Count
<1>16. CASE WriteEdit(r)
  <2> PICK a \in Assets : a = request[r].asset
    BY LocalFields
  <2> DEFINE row == request[r].rows[a]
  <2>1. /\ End(r) /\ UNCHANGED <<schedule, ledger, torn>> /\ request[r].step = "write" /\ Ready(r)
        /\ a \in Assets /\ asset \in [Assets -> Row]
    BY <1>16, LocalFields DEF WriteEdit, At, TypeInv, TypeOK
  <2>2. request[r].kind \in {"life", "status"}
    BY <2>1, LocalFields DEF Sound, StepsOf, Kinds
  <2>3. \A q \in Requests \ {r} : ~ForUpdate(q, a)
    BY <2>1 DEF Ready
  <2>4. \A q \in Requests : ~ForUpdate(q, a)'
    <3>1. request'[r].step = "idle" /\ \A q \in Requests \ {r} : request'[q] = request[q]
      BY <2>1, EndKeeps, RestingSound
    <3> QED BY <2>3, <3>1 DEF ForUpdate
  <2>5. \A b \in Assets \ {a} : asset'[b].status = asset[b].status
    BY <1>16, <2>1 DEF WriteEdit
  <2>6. asset'[a].status = asset[a].status \/ (Alive(a) /\ Alive(a)')
    <3>1. CASE request[r].kind = "life"
      BY <1>16, <2>1, <3>1 DEF WriteEdit, Is, Row
    <3>2. CASE request[r].kind = "status"
      <4>1. row.status # "deleted"
        BY <3>2 DEF LedgerInv, Revives
      <4>2. asset' = asset \/ (asset[a].status # "deleted" /\ asset'[a].status = row.status)
        BY <1>16, <2>1, <3>2 DEF WriteEdit, Is, Row
      <4> QED BY <4>1, <4>2 DEF Alive
    <3> QED BY <2>2, <3>1, <3>2
  <2>7. \A b \in Assets : \/ asset'[b].status = asset[b].status
                          \/ Alive(b) /\ Alive(b)' /\ \A q \in Requests : ~ForUpdate(q, b)'
    <3> TAKE b \in Assets
    <3>1. CASE b = a
      <4>1. \A q \in Requests : ~ForUpdate(q, b)'
        BY <2>4, <3>1 DEF ForUpdate
      <4>2. asset'[b].status = asset[b].status \/ (Alive(b) /\ Alive(b)')
        BY <2>6, <3>1 DEF Alive
      <4> QED BY <4>1, <4>2
    <3> QED BY <2>5, <3>1
  <2> QED BY <1>0, <2>1, <2>7, CalmEnd
<1>17. CASE Fail(r) \/ Timeout(r)
  <2>1. Fail(r)
    BY <1>17 DEF Timeout
  <2>2. UNCHANGED <<asset, schedule, ledger>> /\ torn \subseteq torn'
    BY <2>1 DEF Fail, books
  <2>3. CASE Claimed(r) /\ request[r].step # "undo" /\ Goto(r, "undo")
    BY <1>3, <2>1, <2>2, <2>3 DEF Fail, Claimed
  <2>4. CASE (Claimed(r) => request[r].step = "undo") /\ End(r)
    <3>1. \A a \in Assets, m \in Months : Holding(r, a, m) => a \in torn'
      BY <2>1, <2>4 DEF Holding, Claimed, Fail
    <3> QED BY <2>2, <2>4, <3>1, CalmEnd
  <2> QED BY <2>1, <2>3, <2>4 DEF Fail
<1>18. CASE Die(r)
  <2>1. UNCHANGED <<asset, schedule, ledger>> /\ torn \subseteq torn' /\ End(r)
    BY <1>18 DEF Die, books
  <2>2. \A a \in Assets, m \in Months : Holding(r, a, m) => a \in torn'
    BY <1>18 DEF Holding, Claimed, Die
  <2> QED BY <2>1, <2>2, CalmEnd
<1> QED BY <1>1, <1>4, <1>5, <1>6, <1>7, <1>8, <1>9, <1>10, <1>11, <1>12, <1>13, <1>14, <1>15, <1>16, <1>17, <1>18
       DEF Acts, Step

LEMMA Figures ==
    ASSUME TypeInv
    PROVE  \A a \in Assets : asset[a] \in Row /\ \A m \in Months : schedule[a][m] \in Nat /\ ledger[a][m] \in Nat
<1>1. /\ asset \in [Assets -> Row] /\ schedule \in [Assets -> Amounts] /\ ledger \in [Assets -> Amounts]
  BY DEF TypeInv, TypeOK
<1>2. \A a \in Assets, m \in Months : schedule[a][m] \in Nat /\ ledger[a][m] \in Nat
  BY <1>1 DEF Amounts
<1> QED BY <1>1, <1>2

LEMMA HolderClaims ==
    ASSUME TypeInv, NEW q \in Requests, NEW a, NEW m, Holding(q, a, m)
    PROVE  request[q].amount > 0 /\ Claimed(q) /\ \A b \in Assets, n \in Months : request[q].drafts[b][n] = 0
<1>1. Sound(request[q]) /\ request[q].kind = "single" /\ request[q].step \in {"post", "undo"}
  BY DEF Holding, Is, TypeInv
<1>2. request[q].drafts = [b \in Assets |-> Nothing]
  BY <1>1 DEF Sound
<1> QED BY <1>1, <1>2, NothingType DEF Sound, Claimed, Is

\* A month without a row has no entry and no claimant.
LEMMA FreeSlot ==
    ASSUME TypeInv, LedgerInv, NEW a \in Assets, NEW m \in Months, a \notin torn, Alive(a), schedule[a][m] = 0
    PROVE  ledger[a][m] = 0 /\ \A q \in Requests : ~Holding(q, a, m)
<1>1. ASSUME NEW q \in Requests, Holding(q, a, m) PROVE FALSE
  <2>1. Slot(q, a, m) /\ request[q].amount > 0
    BY <1>1, HolderClaims DEF LedgerInv
  <2> QED BY <1>1, <2>1 DEF Slot
<1> QED BY <1>1 DEF LedgerInv, Ties

LEMMA ClaimLedger ==
    ASSUME TypeInv, LedgerInv, NEW r \in Requests, Claim(r), ~Lost(r) PROVE LedgerInv'
<1> PICK a \in Assets, m \in Months : a = request[r].asset /\ m = request[r].month
  BY LocalFields
<1>1. /\ request[r].kind = "single" /\ request[r].step = "claim" /\ Ready(r) /\ Goto(r, "post")
      /\ Alive(a) /\ schedule[a][m] = 0 /\ UNCHANGED <<asset, ledger, torn>>
      /\ schedule' = [schedule EXCEPT ![a][m] = request[r].amount]
  BY DEF Claim, At, Is, Lost, Alive
<1>2. request[r].amount \in Nat /\ request[r].amount > 0 /\ \A b \in Assets, k \in Months : request[r].drafts[b][k] = 0
  <2>1. Sound(request[r]) /\ request[r].amount \in Nat
    BY LocalFields
  <2>2. request[r].drafts = [b \in Assets |-> Nothing]
    BY <1>1, <2>1 DEF Sound
  <2> QED BY <1>1, <2>1, <2>2, NothingType DEF Sound
<1>3. \A b \in Assets, k \in Months : schedule'[b][k] = IF b = a /\ k = m THEN request[r].amount ELSE schedule[b][k]
  <2>1. schedule \in [Assets -> Amounts]
    BY DEF TypeInv, TypeOK
  <2> QED BY <1>1, <1>2, <2>1, DraftType
<1>4. /\ request'[r].step = "post" /\ request'[r].kind = "single" /\ request'[r].asset = a /\ request'[r].month = m
      /\ request'[r].amount = request[r].amount /\ request'[r].drafts = request[r].drafts
      /\ request'[r].rows = request[r].rows
  BY <1>1, GotoFields
<1>5. \A q \in Requests \ {r} : request'[q] = request[q] /\ ~ForUpdate(q, a) /\ request[q].drafts[a][m] = 0
  <2>1. \A q \in Requests \ {r} : request'[q] = request[q]
    BY OthersWait DEF Acts, Step
  <2> QED BY <1>1, <2>1 DEF Ready
<1>6. /\ \A b \in Assets, k \in Months : ~Holding(r, b, k) /\ (Holding(r, b, k)' <=> b = a /\ k = m)
      /\ \A b \in Assets : ~ForUpdate(r, b)' /\ ~ForUpdate(r, b)
      /\ \A q \in Requests \ {r}, b \in Assets :
            /\ ForUpdate(q, b)' <=> ForUpdate(q, b)
            /\ \A k \in Months : Holding(q, b, k)' <=> Holding(q, b, k)
  BY <1>1, <1>4, <1>5 DEF Holding, ForUpdate, Is
<1>7. \A b \in Assets : Alive(b)' <=> Alive(b)
  BY <1>1 DEF Alive
<1>8. a \notin torn => ledger[a][m] = 0 /\ \A q \in Requests : ~Holding(q, a, m)
  BY <1>1, FreeSlot
<1>9. ASSUME NEW b \in Assets, NEW k \in Months PROVE Ties(b, k)'
  <2>1. Ties(b, k)
    BY DEF LedgerInv
  <2> QED BY <1>1, <1>3, <1>6, <1>7, <2>1 DEF Ties
<1>10. ASSUME NEW q \in Requests, NEW b \in Assets, NEW k \in Months PROVE Slot(q, b, k)'
  <2>1. Slot(q, b, k)
    BY DEF LedgerInv
  <2>2. CASE b = a /\ k = m
    BY <1>1, <1>3, <1>4, <1>6, <1>7, <1>8, <2>2 DEF Slot
  <2>3. CASE ~(b = a /\ k = m)
    BY <1>1, <1>3, <1>5, <1>6, <1>7, <2>1, <2>3 DEF Slot
  <2> QED BY <2>2, <2>3
<1>11. ASSUME NEW q \in Requests, NEW b \in Assets, NEW k \in Months PROVE Draft(q, b, k)'
  <2>1. Draft(q, b, k)
    BY DEF LedgerInv
  <2> QED BY <1>2, <1>3, <1>4, <1>5, <1>7, <2>1 DEF Draft
<1>12. ASSUME NEW q \in Requests, NEW b \in Assets PROVE Lock(q, b)'
  <2>1. Lock(q, b)
    BY DEF LedgerInv
  <2>2. ForUpdate(q, b)' => q # r /\ b # a /\ ForUpdate(q, b)
    BY <1>5, <1>6
  <2>3. request[q].months \subseteq Months
    BY LocalFields
  <2> QED BY <1>1, <1>2, <1>3, <1>4, <1>5, <1>6, <2>1, <2>2, <2>3 DEF Lock
<1>13. ASSUME NEW q \in Requests PROVE Revives(q)'
  BY <1>4, <1>5 DEF LedgerInv, Revives
<1> QED BY <1>9, <1>10, <1>11, <1>12, <1>13 DEF LedgerInv

\* Post and Undo: the holder lets go of its slot, and ledger and schedule agree there.
LEMMA LetGo ==
    ASSUME TypeInv, LedgerInv, NEW r \in Requests, Post(r) \/ Undo(r) PROVE LedgerInv'
<1> PICK a \in Assets, m \in Months : a = request[r].asset /\ m = request[r].month
  BY LocalFields
<1>1. request[r].step \in {"post", "undo"} /\ request[r].kind = "single" /\ Holding(r, a, m)
      /\ UNCHANGED <<asset, torn>>
  <2>1. request[r].step \in {"post", "undo"}
    BY DEF Post, Undo, At
  <2>2. request[r].kind = "single"
    BY <2>1, LocalFields DEF Sound, StepsOf, Kinds
  <2> QED BY <2>1, <2>2 DEF Holding, Is, Post, Undo
<1>2. request[r].amount \in Nat /\ \A b \in Assets, k \in Months : request[r].drafts[b][k] = 0
  BY <1>1, HolderClaims, LocalFields
<1>3. \A q \in Requests \ {r} : request'[q] = request[q]
  BY OthersWait DEF Acts, Step
<1>4. /\ request'[r].step \in {"set", "idle"} /\ request'[r].kind = "single"
      /\ \A b \in Assets, k \in Months : request'[r].drafts[b][k] = 0
  <2>1. CASE Post(r)
    BY <1>1, <1>2, <2>1, GotoFields DEF Post
  <2>2. CASE Undo(r)
    BY <2>2, EndKeeps, RestingSound DEF Undo
  <2> QED BY <2>1, <2>2
<1>5. /\ \A b \in Assets, k \in Months : (Holding(r, b, k) <=> b = a /\ k = m) /\ ~Holding(r, b, k)'
      /\ \A b \in Assets : ~ForUpdate(r, b)'
      /\ \A q \in Requests \ {r}, b \in Assets :
            /\ ForUpdate(q, b)' <=> ForUpdate(q, b)
            /\ \A k \in Months : Holding(q, b, k)' <=> Holding(q, b, k)
  BY <1>1, <1>3, <1>4 DEF Holding, ForUpdate, Is
<1>6. \A b \in Assets : Alive(b)' <=> Alive(b)
  BY <1>1 DEF Alive
<1>7. /\ \A b \in Assets, k \in Months : b # a \/ k # m =>
            schedule'[b][k] = schedule[b][k] /\ ledger'[b][k] = ledger[b][k]
      /\ schedule'[a][m] \in {schedule[a][m], 0}
      /\ schedule[a][m] = request[r].amount /\ ledger[a][m] = 0 => ledger'[a][m] = schedule'[a][m]
  <2>1. schedule \in [Assets -> Amounts] /\ ledger \in [Assets -> Amounts] /\ ledger[a][m] \in Nat
    BY Figures DEF TypeInv, TypeOK
  <2>2. CASE Post(r)
    <3>1. ledger' = [ledger EXCEPT ![a][m] = ledger[a][m] + request[r].amount] /\ schedule' = schedule
      BY <2>1, <2>2 DEF Post, Amounts
    <3>2. ledger[a][m] + request[r].amount \in Nat
      BY <1>2, <2>1
    <3>3. \A b \in Assets, k \in Months :
             ledger'[b][k] = IF b = a /\ k = m THEN ledger[a][m] + request[r].amount ELSE ledger[b][k]
      BY <2>1, <3>1, <3>2, DraftType
    <3> QED BY <1>2, <3>1, <3>3
  <2>3. CASE Undo(r)
    <3>1. schedule' = [schedule EXCEPT ![a][m] = 0] /\ ledger' = ledger
      BY <2>3 DEF Undo
    <3>2. \A b \in Assets, k \in Months : schedule'[b][k] = IF b = a /\ k = m THEN 0 ELSE schedule[b][k]
      BY <2>1, <3>1, DraftType
    <3> QED BY <3>1, <3>2
  <2> QED BY <2>2, <2>3
<1>8. ASSUME NEW b \in Assets, NEW k \in Months PROVE Ties(b, k)'
  <2>1. Ties(b, k) /\ Slot(r, a, m)
    BY DEF LedgerInv
  <2>2. CASE b = a /\ k = m
    BY <1>1, <1>6, <1>7, <2>1, <2>2 DEF Ties, Slot
  <2>3. CASE ~(b = a /\ k = m)
    BY <1>1, <1>5, <1>6, <1>7, <2>1, <2>3 DEF Ties
  <2> QED BY <2>2, <2>3
<1>9. ASSUME NEW q \in Requests, NEW b \in Assets, NEW k \in Months PROVE Slot(q, b, k)'
  <2>1. Slot(q, b, k) /\ Slot(r, a, m)
    BY DEF LedgerInv
  <2>2. CASE q = r
    BY <1>5, <2>2 DEF Slot
  <2>3. CASE q # r /\ b = a /\ k = m
    BY <1>1, <1>5, <1>6, <2>1, <2>3 DEF Slot
  <2>4. CASE q # r /\ ~(b = a /\ k = m)
    BY <1>1, <1>3, <1>5, <1>6, <1>7, <2>1, <2>4 DEF Slot
  <2> QED BY <2>2, <2>3, <2>4
<1>10. ASSUME NEW q \in Requests, NEW b \in Assets, NEW k \in Months PROVE Draft(q, b, k)'
  <2>1. Draft(q, b, k)
    BY DEF LedgerInv
  <2> QED BY <1>3, <1>4, <1>6, <1>7, <2>1 DEF Draft
<1>11. ASSUME NEW q \in Requests, NEW b \in Assets PROVE Lock(q, b)'
  <2>1. Lock(q, b) /\ request[q].months \subseteq Months
    BY LocalFields DEF LedgerInv
  <2>2. ForUpdate(q, b)' => q # r /\ ForUpdate(q, b)
    BY <1>5
  <2> QED BY <1>1, <1>3, <1>4, <1>5, <1>7, <2>1, <2>2 DEF Lock
<1>12. ASSUME NEW q \in Requests PROVE Revives(q)'
  BY <1>3, <1>4 DEF LedgerInv, Revives
<1> QED BY <1>8, <1>9, <1>10, <1>11, <1>12 DEF LedgerInv

\* Only who is in its transaction has drafts.
LEMMA DraftsOf ==
    ASSUME TypeInv, NEW q \in Requests, NEW a \in Assets, ~ForUpdate(q, a), ~Claims(q, a)
    PROVE  \A m \in Months : request[q].drafts[a][m] = 0
<1>1. Sound(request[q]) /\ request[q].kind \in Kinds /\ request[q].drafts[a] \in Amounts
  BY LocalFields
<1>2. CASE request[q].kind = "batch"
  BY <1>2, NothingType DEF Claims
<1>3. CASE request[q].kind = "dispose"
  BY <1>1, <1>3 DEF Sound, ForUpdate
<1>4. CASE request[q].kind \in {"single", "life", "status"}
  <2>1. request[q].drafts = [b \in Assets |-> Nothing]
    BY <1>1, <1>4 DEF Sound
  <2> QED BY <2>1, NothingType
<1> QED BY <1>1, <1>2, <1>3, <1>4 DEF Kinds

\* What a batch or a disposal adds to its drafts or locks, while the tables stay.
LEMMA DraftsGrow ==
    ASSUME TypeInv, LedgerInv, NEW r \in Requests, NEW a \in Assets, Acts(r),
           UNCHANGED <<asset, schedule, ledger, torn>>,
           request[r].kind \in {"batch", "dispose"}, request'[r].kind = request[r].kind,
           \A q \in Requests \ {r} : ~ForUpdate(q, a),
           \A b \in Assets \ {a} : ~ForUpdate(r, b)',
           \A b \in Assets, k \in Months : request'[r].drafts[b][k] # 0 =>
               \/ request[r].drafts[b][k] # 0
               \/ b = a /\ Alive(a) /\ schedule[a][k] = 0 /\ \A q \in Requests \ {r} : request[q].drafts[a][k] = 0,
           ForUpdate(r, a)' =>
               /\ asset[a].status = "active"
               /\ \A k \in request'[r].months : schedule[a][k] = 0
               /\ \A q \in Requests \ {r}, k \in Months : request[q].drafts[a][k] = 0
    PROVE  LedgerInv'
<1>1. \A q \in Requests \ {r} : request'[q] = request[q]
  BY OthersWait
<1>2. \A b \in Assets : Alive(b)' <=> Alive(b)
  BY DEF Alive
<1>3. /\ \A q \in Requests \ {r}, b \in Assets :
            /\ ForUpdate(q, b)' <=> ForUpdate(q, b)
            /\ \A k \in Months : Holding(q, b, k)' <=> Holding(q, b, k)
      /\ \A b \in Assets, k \in Months : ~Holding(r, b, k)' /\ ~Holding(r, b, k)
  BY <1>1 DEF Holding, ForUpdate, Is
<1>4. ASSUME NEW b \in Assets, NEW k \in Months PROVE Ties(b, k)'
  <2>1. Ties(b, k)
    BY DEF LedgerInv
  <2> QED BY <1>2, <1>3, <2>1 DEF Ties
<1>5. ASSUME NEW q \in Requests, NEW b \in Assets, NEW k \in Months PROVE Slot(q, b, k)'
  <2>1. Slot(q, b, k)
    BY DEF LedgerInv
  <2> QED BY <1>1, <1>2, <1>3, <2>1 DEF Slot
<1>6. ASSUME NEW q \in Requests, NEW b \in Assets, NEW k \in Months PROVE Draft(q, b, k)'
  <2>1. Draft(q, b, k) /\ Draft(r, b, k)
    BY DEF LedgerInv
  <2>2. CASE q = r
    BY <1>1, <1>2, <2>1, <2>2 DEF Draft
  <2>3. CASE q # r
    BY <1>1, <1>2, <2>1, <2>3 DEF Draft
  <2> QED BY <2>2, <2>3
<1>7. ASSUME NEW q \in Requests, NEW b \in Assets PROVE Lock(q, b)'
  <2>1. Lock(q, b)
    BY DEF LedgerInv
  <2>2. CASE q = r
    <3>1. ForUpdate(r, b)' => b = a
      OBVIOUS
    <3> QED BY <1>1, <1>3, <2>2, <3>1 DEF Lock
  <2>3. CASE q # r
    <3>1. ForUpdate(q, b)' => ForUpdate(q, b) /\ b # a
      BY <1>3, <2>3
    <3>2. b # a => \A k \in Months : request'[r].drafts[b][k] # 0 => request[r].drafts[b][k] # 0
      OBVIOUS
    <3> QED BY <1>1, <1>3, <2>1, <2>3, <3>1, <3>2 DEF Lock
  <2> QED BY <2>2, <2>3
<1>8. ASSUME NEW q \in Requests PROVE Revives(q)'
  BY <1>1 DEF LedgerInv, Revives
<1> QED BY <1>4, <1>5, <1>6, <1>7, <1>8 DEF LedgerInv

LEMMA BatchClaimLedger ==
    ASSUME TypeInv, LedgerInv, NEW r \in Requests, BatchClaim(r), ~Lost(r) PROVE LedgerInv'
<1> PICK a \in Assets, m \in Months : a = request[r].asset /\ m = request[r].month
  BY LocalFields
<1>1. /\ request[r].kind = "batch" /\ request[r].step = "claim" /\ Ready(r)
      /\ Alive(a) /\ schedule[a][m] = 0 /\ UNCHANGED <<asset, schedule, ledger, torn>>
  BY DEF BatchClaim, At, Is, Lost, Alive, books
<1>2. \A q \in Requests \ {r} : ~ForUpdate(q, a) /\ request[q].drafts[a][m] = 0
  BY <1>1 DEF Ready
<1>3. /\ request'[r].kind = "batch" /\ request'[r].step = "set"
      /\ \A b \in Assets, k \in Months : request'[r].drafts[b][k] # 0 =>
            request[r].drafts[b][k] # 0 \/ (b = a /\ k = m)
  BY BatchClaims
<1>4. \A b \in Assets : ~ForUpdate(r, b)'
  BY <1>3 DEF ForUpdate
<1> QED BY <1>1, <1>2, <1>3, <1>4, DraftsGrow DEF Acts, Step

LEMMA LockRowLedger ==
    ASSUME TypeInv, LedgerInv, NEW r \in Requests, LockRow(r), ~End(r) PROVE LedgerInv'
<1> PICK a \in Assets : a = request[r].asset
  BY LocalFields
<1>1. /\ request[r].kind = "dispose" /\ request[r].step = "lockRow" /\ Ready(r)
      /\ UNCHANGED <<asset, schedule, ledger, torn>>
  BY LockRowKeeps DEF LockRow, At, books
<1>2. \A q \in Requests \ {r} : ~ForUpdate(q, a) /\ ~Claims(q, a)
  BY <1>1 DEF Ready
<1>3. \A q \in Requests \ {r}, k \in Months : request[q].drafts[a][k] = 0
  BY <1>2, DraftsOf
<1>4. /\ request'[r].kind = "dispose" /\ request'[r].asset = a /\ asset[a].status = "active"
      /\ \A k \in request'[r].months : schedule[a][k] = 0
      /\ \A b \in Assets, k \in Months : request'[r].drafts[b][k] = 0
  BY LockRowKeeps
<1>5. \A b \in Assets \ {a} : ~ForUpdate(r, b)'
  BY <1>4 DEF ForUpdate
<1> QED BY <1>1, <1>2, <1>3, <1>4, <1>5, DraftsGrow DEF Acts, Step

LEMMA BookLedger ==
    ASSUME TypeInv, LedgerInv, NEW r \in Requests, Book(r) PROVE LedgerInv'
<1> PICK a \in Assets : a = request[r].asset
  BY LocalFields
<1> PICK m \in Months : m = Min(request[r].months) /\ m \in request[r].months
  BY BookKeeps, MonthsOf
<1>1. /\ request[r].kind = "dispose" /\ ForUpdate(r, a) /\ UNCHANGED <<asset, schedule, ledger, torn>>
  BY BookKeeps DEF Book, books, ForUpdate
<1>2. Lock(r, a)
  BY DEF LedgerInv
<1>3. /\ request'[r].kind = "dispose" /\ request'[r].asset = a /\ request'[r].months \subseteq request[r].months
      /\ \A b \in Assets, k \in Months : request'[r].drafts[b][k] # 0 =>
            request[r].drafts[b][k] # 0 \/ (b = a /\ k = m)
  BY BookKeeps
<1>4. \A b \in Assets \ {a} : ~ForUpdate(r, b)'
  BY <1>3 DEF ForUpdate
<1>5. /\ asset[a].status = "active" /\ Alive(a)
      /\ \A k \in request[r].months : schedule[a][k] = 0
      /\ \A q \in Requests \ {r} : ~ForUpdate(q, a) /\ \A k \in Months : request[q].drafts[a][k] = 0
  BY <1>1, <1>2 DEF Lock, Alive
<1> QED BY <1>1, <1>3, <1>4, <1>5, DraftsGrow DEF Acts, Step

\* A batch or a disposal commits: what it books is booked once, in both tables.
LEMMA PublishLedger ==
    ASSUME TypeInv, LedgerInv, NEW r \in Requests, CommitBatch(r) \/ Dispose(r) PROVE LedgerInv'
<1>1. /\ End(r) /\ torn' = torn /\ request[r].kind \in {"batch", "dispose"}
      /\ \A b \in Assets, k \in Months :
            /\ schedule'[b][k] = schedule[b][k] + request[r].drafts[b][k]
            /\ ledger'[b][k] = ledger[b][k] + request[r].drafts[b][k]
  <2>1. Publish(request[r].drafts) /\ End(r) /\ torn' = torn /\ request[r].step \in {"pick", "dispose"}
    BY DEF CommitBatch, Dispose, At
  <2> QED BY <2>1, PublishType, LocalFields DEF Sound, StepsOf, Kinds
<1>2. /\ request'[r] = Resting /\ \A q \in Requests \ {r} : request'[q] = request[q]
      /\ Resting.step = "idle" /\ Resting.kind = "single" /\ \A b \in Assets, k \in Months : Resting.drafts[b][k] = 0
  BY <1>1, EndKeeps, RestingSound
<1>3. /\ \A q \in Requests \ {r}, b \in Assets :
            /\ ForUpdate(q, b)' <=> ForUpdate(q, b)
            /\ \A k \in Months : Holding(q, b, k)' <=> Holding(q, b, k)
      /\ \A b \in Assets, k \in Months : ~Holding(r, b, k)' /\ ~Holding(r, b, k)
      /\ \A b \in Assets : ~ForUpdate(r, b)'
  BY <1>1, <1>2 DEF Holding, ForUpdate, Is
<1>4. \A b \in Assets, k \in Months :
         schedule[b][k] \in Nat /\ ledger[b][k] \in Nat /\ request[r].drafts[b][k] \in Nat
  BY Figures, LocalFields
<1>5. \A b \in Assets : /\ Alive(b)' <=> Alive(b)
                        /\ \A q \in Requests \ {r} : ForUpdate(q, b) => asset'[b].status = asset[b].status
  <2>1. CASE CommitBatch(r)
    <3>1. \A b \in Assets : asset'[b].status = asset[b].status
      BY <2>1, Figures DEF CommitBatch, Row
    <3> QED BY <3>1 DEF Alive
  <2>2. CASE Dispose(r)
    <3> PICK a \in Assets : a = request[r].asset
      BY LocalFields
    <3>1. ForUpdate(r, a)
      BY <2>2 DEF Dispose, At, ForUpdate
    <3>2. asset[a].status = "active" /\ \A q \in Requests \ {r} : ~ForUpdate(q, a)
      BY <3>1 DEF LedgerInv, Lock
    <3>3. (\A b \in Assets \ {a} : asset'[b] = asset[b]) /\ asset'[a].status = "disposed"
      BY <2>2, Figures DEF Dispose, Row, TypeInv, TypeOK
    <3> QED BY <3>2, <3>3 DEF Alive
  <2> QED BY <2>1, <2>2
<1>6. ASSUME NEW b \in Assets, NEW k \in Months PROVE Ties(b, k)'
  <2>1. Ties(b, k)
    BY DEF LedgerInv
  <2> QED BY <1>1, <1>3, <1>4, <1>5, <2>1 DEF Ties
<1>7. ASSUME NEW q \in Requests, NEW b \in Assets, NEW k \in Months PROVE Slot(q, b, k)'
  <2> SUFFICES ASSUME Holding(q, b, k)', b \notin torn', Alive(b)' PROVE Slot(q, b, k)'
    BY DEF Slot
  <2>1. q # r /\ Holding(q, b, k) /\ b \notin torn /\ Alive(b)
    BY <1>1, <1>3, <1>5
  <2>2. Slot(q, b, k) /\ Draft(r, b, k) /\ request[q].amount > 0
    BY <2>1, HolderClaims DEF LedgerInv
  <2>3. request[r].drafts[b][k] = 0
    BY <2>1, <2>2 DEF Slot, Draft
  <2> QED BY <1>1, <1>2, <1>3, <1>4, <2>1, <2>2, <2>3 DEF Slot
<1>8. ASSUME NEW q \in Requests, NEW b \in Assets, NEW k \in Months PROVE Draft(q, b, k)'
  <2> SUFFICES ASSUME request'[q].drafts[b][k] # 0 PROVE Draft(q, b, k)'
    BY DEF Draft
  <2>1. q # r /\ request[q].drafts[b][k] # 0
    BY <1>2
  <2>2. Draft(q, b, k)
    BY DEF LedgerInv
  <2>3. request[r].drafts[b][k] = 0
    BY <2>1, <2>2 DEF Draft
  <2> QED BY <1>1, <1>2, <1>4, <1>5, <2>1, <2>2, <2>3 DEF Draft
<1>9. ASSUME NEW q \in Requests, NEW b \in Assets PROVE Lock(q, b)'
  <2> SUFFICES ASSUME ForUpdate(q, b)' PROVE Lock(q, b)'
    BY DEF Lock
  <2>1. q # r /\ ForUpdate(q, b) /\ asset'[b].status = asset[b].status
    BY <1>3, <1>5
  <2>2. Lock(q, b) /\ request[q].months \subseteq Months
    BY LocalFields DEF LedgerInv
  <2>3. \A k \in Months : request[r].drafts[b][k] = 0
    BY <2>1, <2>2 DEF Lock
  <2>4. request'[q] = request[q]
    BY <1>2, <2>1
  <2>5. \A k \in request[q].months : schedule'[b][k] = 0
    BY <1>1, <1>4, <2>1, <2>2, <2>3 DEF Lock
  <2> QED BY <1>2, <1>3, <2>1, <2>2, <2>3, <2>4, <2>5 DEF Lock
<1>10. ASSUME NEW q \in Requests PROVE Revives(q)'
  BY <1>2 DEF LedgerInv, Revives
<1> QED BY <1>6, <1>7, <1>8, <1>9, <1>10 DEF LedgerInv

LEMMA DeleteLedger ==
    ASSUME TypeInv, LedgerInv, NEW a \in Assets, Delete(a) PROVE LedgerInv'
<1>1. /\ UNCHANGED <<ledger, request, torn>>
      /\ \A r \in Requests : ~ForUpdate(r, a) /\ ~Claims(r, a)
      /\ asset'[a].status = "deleted" /\ \A b \in Assets \ {a} : asset'[b] = asset[b] /\ schedule'[b] = schedule[b]
  BY DEF Delete, TypeInv, TypeOK, Row
<1>2. \A r \in Requests, m \in Months : request[r].drafts[a][m] = 0
  BY <1>1, DraftsOf
<1>3. ~Alive(a)' /\ \A b \in Assets \ {a} : Alive(b)' <=> Alive(b)
  BY <1>1 DEF Alive
<1>4. ASSUME NEW b \in Assets, NEW k \in Months PROVE Ties(b, k)'
  BY <1>1, <1>3 DEF LedgerInv, Ties, Holding, Is
<1>5. ASSUME NEW q \in Requests, NEW b \in Assets, NEW k \in Months PROVE Slot(q, b, k)'
  BY <1>1, <1>3 DEF LedgerInv, Slot, Holding, Is
<1>6. ASSUME NEW q \in Requests, NEW b \in Assets, NEW k \in Months PROVE Draft(q, b, k)'
  BY <1>1, <1>2, <1>3 DEF LedgerInv, Draft
<1>7. ASSUME NEW q \in Requests, NEW b \in Assets PROVE Lock(q, b)'
  BY <1>1 DEF LedgerInv, Lock, ForUpdate
<1>8. ASSUME NEW q \in Requests PROVE Revives(q)'
  BY <1>1 DEF LedgerInv, Revives
<1> QED BY <1>4, <1>5, <1>6, <1>7, <1>8 DEF LedgerInv

LEMMA StepLedgerInv == TypeInv /\ LedgerInv /\ [Next]_vars => LedgerInv'
<1> SUFFICES ASSUME TypeInv, LedgerInv, [Next]_vars PROVE LedgerInv'
  OBVIOUS
<1>1. ASSUME UNCHANGED <<asset, schedule, ledger, torn, request>> PROVE LedgerInv'
  <2>1. \A q \in Requests, b \in Assets, k \in Months : Holding(q, b, k)' <=> Holding(q, b, k)
    BY <1>1 DEF Holding, Is
  <2>2. \A b \in Assets : (Alive(b)' <=> Alive(b)) /\ \A q \in Requests : ForUpdate(q, b)' <=> ForUpdate(q, b)
    BY <1>1 DEF ForUpdate, Alive
  <2>3. ASSUME NEW b \in Assets, NEW k \in Months PROVE Ties(b, k)'
    <3>1. Ties(b, k)
      BY DEF LedgerInv
    <3> QED BY <1>1, <2>1, <2>2, <3>1 DEF Ties
  <2>4. ASSUME NEW q \in Requests, NEW b \in Assets, NEW k \in Months PROVE Slot(q, b, k)' /\ Draft(q, b, k)'
    <3>1. Slot(q, b, k) /\ Draft(q, b, k)
      BY DEF LedgerInv
    <3> QED BY <1>1, <2>1, <2>2, <3>1 DEF Slot, Draft
  <2>5. ASSUME NEW q \in Requests, NEW b \in Assets PROVE Lock(q, b)'
    <3>1. Lock(q, b)
      BY DEF LedgerInv
    <3> QED BY <1>1, <2>2, <3>1 DEF Lock
  <2>6. ASSUME NEW q \in Requests PROVE Revives(q)'
    BY <1>1 DEF LedgerInv, Revives
  <2> QED BY <2>3, <2>4, <2>5, <2>6 DEF LedgerInv
<1>2. ASSUME NEW m \in Lockable, LockPeriod(m) \/ UnlockPeriod(m) PROVE LedgerInv'
  BY <1>1, <1>2 DEF LockPeriod, UnlockPeriod, books
<1>3. ASSUME NEW r \in Requests, Acts(r) PROVE LedgerInv'
  BY <1>3, CalmActs, CalmStep, ClaimLedger, LetGo, BatchClaimLedger, LockRowLedger, BookLedger, PublishLedger
<1>4. UNCHANGED vars => LedgerInv'
  BY <1>1 DEF vars
<1> QED BY <1>2, <1>3, <1>4, DeleteLedger DEF Next, Acts

(* Every month of an asset is posted as often and as high as it is           *)
(* scheduled, however depreciations, batches, disposals and deletions of any *)
(* number of handlers interleave: the unique slot, the row lock and the lock *)
(* on the month's numbers leave a month one taker (fixed-assets.routes.ts).  *)
THEOREM LedgerFollowsSchedules == Spec => []LedgerTiesToSchedules
<1>1. LedgerInv => LedgerTiesToSchedules
  BY DEF LedgerInv, LedgerTiesToSchedules, Ties, Alive, Holding
<1> QED BY InitTypeInv, StepTypeInv, InitLedgerInv, StepLedgerInv, <1>1, PTL DEF Spec

-----------------------------------------------------------------------------
(* While its handlers wait for each other, an asset carries its schedule.     *)

\* The schedule of a adds up to this.
Booked(a) == Sum(schedule[a], Months)

\* What a handler takes the accumulated depreciation of a to be: a disposal has
\* added its drafts to what it read.
Takes(r, a) ==
    request[r].rows[a].acc - (IF Is(r, "dispose") THEN Sum(request[r].drafts[a], Months) ELSE 0)

ClaimedOn(r, a) == Claimed(r) /\ request[r].asset = a

\* Whoever works on a has read what it is, and has booked what it adds to it.
Knows(r, a) ==
    /\ asset[a].status = "active"
    /\ Takes(r, a) = asset[a].acc
    /\ Claimed(r) =>
          /\ Booked(a) = asset[a].acc + request[r].amount
          /\ schedule[a][request[r].month] = request[r].amount

Carried(a) ==
    /\ asset[a].acc = Booked(a) \/ \E r \in Requests : ClaimedOn(r, a)
    /\ IF asset[a].status = "active" THEN cleared[a] = <<>>
       ELSE Len(cleared[a]) = 1 /\ cleared[a][1].amount = asset[a].acc

\* One handler works on a at a time.
Alone(a) ==
    /\ \A q, r \in Requests : WorksOn(q, a) /\ WorksOn(r, a) => q = r
    /\ \A r \in Requests : WorksOn(r, a) => Knows(r, a)
    /\ Carried(a)

Clean(a) == a \notin crossed \cup torn \cup patched /\ Alive(a)

AssetInv == \A a \in Assets : Clean(a) => Alone(a)

LEMMA MonthsFinite == IsFiniteSet(Months)
BY FS_Interval DEF Months

LEMMA TotalOf ==
    ASSUME NEW f \in Amounts PROVE FoldFunction(+, 0, f) = Sum(f, Months)
<1>1. DOMAIN f = Months
  BY DEF Amounts
<1> QED BY <1>1 DEF FoldFunction, FoldFunctionOnSet, MapThenFoldSet, Sum

LEMMA SumNothing ==
    ASSUME NEW f, \A m \in Months : f[m] = 0 PROVE Sum(f, Months) = 0
BY MonthsFinite, SumZero

LEMMA SumOfAmounts ==
    ASSUME NEW f, \A m \in Months : f[m] \in Nat PROVE Sum(f, Months) \in Int
BY MonthsFinite, SumType

LEMMA NobodyWorks ==
    ASSUME Init, NEW r \in Requests, NEW a PROVE ~WorksOn(r, a) /\ ~Claimed(r)
BY RestingSound DEF Init, WorksOn, ForUpdate, Idle, Is, Claimed

LEMMA InitAssetInv == Init => AssetInv
<1> SUFFICES ASSUME Init, NEW a \in Assets PROVE Alone(a)
  BY DEF AssetInv
<1>1. asset[a].acc = 0 /\ asset[a].status = "active" /\ cleared[a] = <<>>
  BY NewType DEF Init, Unread
<1>2. Booked(a) = 0
  <2>1. \A m \in Months : schedule[a][m] = 0
    BY NothingType DEF Init
  <2> QED BY <2>1, SumNothing DEF Booked
<1> QED BY <1>1, <1>2, NobodyWorks DEF Alone, Carried

\* Who waits still takes and still has claimed what it did.
LEMMA WaitingKeeps ==
    ASSUME NEW q \in Requests, NEW a, request'[q] = request[q]
    PROVE  /\ WorksOn(q, a)' <=> WorksOn(q, a)
           /\ Claimed(q)' <=> Claimed(q)
           /\ ClaimedOn(q, a)' <=> ClaimedOn(q, a)
           /\ Takes(q, a)' = Takes(q, a)
<1>1. /\ WorksOn(q, a)' <=> WorksOn(q, a)
      /\ Claimed(q)' <=> Claimed(q)
      /\ ClaimedOn(q, a)' <=> ClaimedOn(q, a)
  BY DEF WorksOn, ForUpdate, Idle, Is, Claimed, ClaimedOn
<1>2. Takes(q, a)' = Takes(q, a)
  BY DEF Takes, Is, Sum, MapThenFoldSet
<1> QED BY <1>1, <1>2

\* The tables keep what they say of a.
Same(a) ==
    /\ asset'[a].acc = asset[a].acc /\ asset'[a].status = asset[a].status
    /\ schedule'[a] = schedule[a] /\ cleared'[a] = cleared[a]

\* r goes on with its work on a, if it has any, or comes to it when nobody has.
Steady(r, a) ==
    /\ ClaimedOn(r, a) => ClaimedOn(r, a)'
    /\ WorksOn(r, a)' =>
          \/ /\ WorksOn(r, a) /\ Takes(r, a)' = Takes(r, a)
             /\ Claimed(r)' => /\ Claimed(r) /\ request'[r].amount = request[r].amount
                               /\ request'[r].month = request[r].month
          \/ /\ \A q \in Requests \ {r} : ~WorksOn(q, a)
             /\ asset[a].status = "active" /\ Takes(r, a)' = asset[a].acc /\ ~Claimed(r)'

LEMMA AloneStep ==
    ASSUME NEW r \in Requests, NEW a \in Assets, Alone(a), Same(a), Steady(r, a),
           \A q \in Requests \ {r} : request'[q] = request[q]
    PROVE  Alone(a)'
<1>0. asset'[a].acc = asset[a].acc /\ asset'[a].status = asset[a].status
      /\ schedule'[a] = schedule[a] /\ cleared'[a] = cleared[a]
  BY DEF Same
<1>1. \A q \in Requests \ {r} : /\ WorksOn(q, a)' <=> WorksOn(q, a)
                                /\ Claimed(q)' <=> Claimed(q)
                                /\ ClaimedOn(q, a)' <=> ClaimedOn(q, a)
                                /\ Takes(q, a)' = Takes(q, a)
  BY WaitingKeeps
<1>2. Booked(a)' = Booked(a)
  BY <1>0 DEF Booked, Sum, MapThenFoldSet
<1>3. ASSUME NEW p \in Requests, NEW q \in Requests, WorksOn(p, a)', WorksOn(q, a)' PROVE p = q
  BY <1>1, <1>3 DEF Alone, Steady
<1>4. ASSUME NEW q \in Requests, WorksOn(q, a)' PROVE Knows(q, a)'
  <2>1. CASE q # r
    <3>1. Knows(q, a) /\ request'[q] = request[q]
      BY <1>1, <1>4, <2>1 DEF Alone
    <3> QED BY <1>0, <1>1, <1>2, <2>1, <3>1 DEF Knows
  <2>2. CASE q = r /\ WorksOn(r, a) /\ Takes(r, a)' = Takes(r, a)
             /\ (Claimed(r)' => /\ Claimed(r) /\ request'[r].amount = request[r].amount
                                /\ request'[r].month = request[r].month)
    <3>1. Knows(r, a)
      BY <2>2 DEF Alone
    <3> QED BY <1>0, <1>2, <2>2, <3>1 DEF Knows
  <2>3. CASE q = r /\ asset[a].status = "active" /\ Takes(r, a)' = asset[a].acc /\ ~Claimed(r)'
    BY <1>0, <2>3 DEF Knows
  <2> QED BY <1>4, <2>1, <2>2, <2>3 DEF Steady
<1>5. Carried(a)'
  <2>1. (\E q \in Requests : ClaimedOn(q, a)) => \E q \in Requests : ClaimedOn(q, a)'
    BY <1>1 DEF Steady
  <2> QED BY <1>0, <1>2, <2>1 DEF Alone, Carried
<1> QED BY <1>3, <1>4, <1>5 DEF Alone

LEMMA Ended ==
    ASSUME TypeInv, NEW r \in Requests, NEW a \in Assets, End(r), ~ClaimedOn(r, a) PROVE Steady(r, a)
<1>1. request'[r].step = "idle" /\ request'[r].kind = "single"
  BY EndKeeps, RestingSound
<1>2. ~WorksOn(r, a)'
  BY <1>1 DEF WorksOn, ForUpdate, Idle, Is
<1> QED BY <1>2 DEF Steady

\* A handler that goes on with its rows and its drafts.
LEMMA GoneOn ==
    ASSUME TypeInv, NEW r \in Requests, NEW a \in Assets,
           request'[r].kind = request[r].kind,
           request[r].kind # "batch" => request'[r].asset = request[r].asset,
           request'[r].rows = request[r].rows,
           request[r].kind # "batch" => request'[r].drafts = request[r].drafts,
           request[r].kind = "single" => /\ request[r].step # "idle"
                                         /\ Claimed(r) <=> Claimed(r)'
                                         /\ Claimed(r) => /\ request'[r].amount = request[r].amount
                                                          /\ request'[r].month = request[r].month,
           request[r].kind = "batch" /\ request'[r].step \in {"pick", "claim", "set"} =>
               request[r].step \in {"pick", "claim", "set"},
           request[r].kind = "dispose" /\ request'[r].step \in {"catchUp", "book", "dispose"} =>
               request[r].step \in {"catchUp", "book", "dispose"},
           request[r].kind # "dispose" => request'[r].step \notin {"catchUp", "book", "dispose"}
    PROVE  Steady(r, a)
<1>1. Takes(r, a)' = Takes(r, a)
  <2>1. CASE request[r].kind = "batch"
    BY <2>1 DEF Takes, Is
  <2>2. CASE request[r].kind # "batch"
    <3>1. Takes(r, a)' = request'[r].rows[a].acc
                         - (IF request'[r].kind = "dispose" THEN Sum(request'[r].drafts[a], Months) ELSE 0)
      BY DEF Takes, Is, Sum, MapThenFoldSet
    <3> QED BY <2>2, <3>1 DEF Takes, Is
  <2> QED BY <2>1, <2>2
<1>2. WorksOn(r, a)' => WorksOn(r, a)
  BY DEF WorksOn, ForUpdate, Idle, Is
<1>3. Claimed(r) => request[r].kind = "single"
  BY DEF Claimed, Is
<1>4. Claimed(r)' => request[r].kind = "single"
  BY DEF Claimed, Is
<1>5. ClaimedOn(r, a) => ClaimedOn(r, a)'
  BY <1>3, <1>4 DEF ClaimedOn
<1> QED BY <1>1, <1>2, <1>3, <1>4, <1>5 DEF Steady

\* Dispose apart, no step of a handler brings a deleted asset back.
LEMMA CleanBefore ==
    ASSUME TypeInv, LedgerInv, [Next]_vars, NEW a \in Assets, Clean(a)' PROVE Clean(a)
<1>1. crossed \cup torn \cup patched \subseteq crossed' \cup torn' \cup patched'
  <2>1. ASSUME NEW r \in Requests, Begin(r) PROVE crossed \subseteq crossed' /\ UNCHANGED <<torn, patched>>
    BY <2>1 DEF Begin, Depreciate, BeginDispose, RunBatch, Edits, Edit, Meets, books
  <2>2. ASSUME NEW r \in Requests,
               PassLock(r) \/ Find(r) \/ Claim(r) \/ Post(r) \/ SetAsset(r) \/ Undo(r) \/ Connect(r) \/ LockDate(r)
               \/ BatchClaim(r) \/ BatchSet(r) \/ CommitBatch(r) \/ (\E b \in Assets : Pick(r, b))
        PROVE  crossed \subseteq crossed' /\ UNCHANGED <<torn, patched>>
    BY <2>2 DEF PassLock, Find, Claim, Post, SetAsset, Undo, Connect, LockDate, BatchClaim, BatchSet, CommitBatch,
                Pick, Meets, books
  <2>3. ASSUME NEW r \in Requests, LockRow(r) \/ CatchUp(r) \/ Book(r) \/ Dispose(r) \/ Count(r) \/ WriteEdit(r)
        PROVE  crossed \subseteq crossed' /\ torn' = torn /\ patched \subseteq patched'
    BY <2>3 DEF LockRow, CatchUp, Book, Dispose, Count, WriteEdit, Meets, books
  <2>4. ASSUME NEW r \in Requests, Timeout(r) \/ Fail(r) \/ Die(r)
        PROVE  crossed' = crossed /\ torn \subseteq torn' /\ patched' = patched
    BY <2>4 DEF Timeout, Fail, Die, books
  <2>5. ASSUME NEW b \in Assets, Delete(b) PROVE UNCHANGED <<crossed, torn, patched>>
    BY <2>5 DEF Delete
  <2>6. ASSUME NEW m \in Lockable, LockPeriod(m) \/ UnlockPeriod(m) PROVE UNCHANGED <<crossed, torn, patched>>
    BY <2>6 DEF LockPeriod, UnlockPeriod, books
  <2>7. UNCHANGED vars => UNCHANGED <<crossed, torn, patched>>
    BY DEF vars
  <2> QED BY <2>1, <2>2, <2>3, <2>4, <2>5, <2>6, <2>7 DEF Next, Step
<1>2. Alive(a)
  <2>1. ASSUME asset' = asset PROVE Alive(a)
    BY <2>1 DEF Clean, Alive
  <2>2. ASSUME asset'[a].status = asset[a].status PROVE Alive(a)
    BY <2>2 DEF Clean, Alive
  <2>3. asset \in [Assets -> Row]
    BY DEF TypeInv, TypeOK
  <2>4. ASSUME NEW r \in Requests, Begin(r) PROVE asset' = asset
    BY <2>4, BeginFields
  <2>5. ASSUME NEW r \in Requests,
               PassLock(r) \/ Find(r) \/ Claim(r) \/ Post(r) \/ Undo(r) \/ Connect(r) \/ LockDate(r)
               \/ BatchClaim(r) \/ BatchSet(r) \/ (\E b \in Assets : Pick(r, b))
        PROVE  asset' = asset
    BY <2>5 DEF PassLock, Find, Claim, Post, Undo, Connect, LockDate, BatchClaim, BatchSet, Pick, books
  <2>6. ASSUME NEW r \in Requests,
               LockRow(r) \/ CatchUp(r) \/ Book(r) \/ Count(r) \/ Timeout(r) \/ Fail(r) \/ Die(r)
        PROVE  asset' = asset
    BY <2>6 DEF LockRow, CatchUp, Book, Count, Timeout, Fail, Die, books
  <2>7. ASSUME NEW r \in Requests, SetAsset(r) \/ CommitBatch(r) PROVE asset'[a].status = asset[a].status
    BY <2>3, <2>7 DEF SetAsset, CommitBatch, Row
  <2>8. ASSUME NEW r \in Requests, WriteEdit(r) PROVE Alive(a)
    <3>1. asset' = asset \/ asset[request[r].asset].status # "deleted"
      BY <2>8 DEF WriteEdit
    <3>2. request[r].asset # a => asset'[a] = asset[a]
      BY <2>3, <2>8 DEF WriteEdit
    <3> QED BY <2>1, <2>2, <3>1, <3>2 DEF Alive
  <2>9. ASSUME NEW r \in Requests, Dispose(r) PROVE Alive(a)
    <3> PICK b \in Assets : b = request[r].asset
      BY LocalFields
    <3>1. ForUpdate(r, b)
      BY <2>9 DEF Dispose, At, ForUpdate
    <3>2. asset[b].status = "active"
      BY <3>1 DEF LedgerInv, Lock
    <3>3. a # b => asset'[a] = asset[a]
      BY <2>3, <2>9 DEF Dispose
    <3> QED BY <2>2, <3>2, <3>3 DEF Alive
  <2>10. ASSUME NEW b \in Assets, Delete(b) PROVE Alive(a)
    <3>1. a # b
      BY <2>3, <2>10 DEF Delete, Clean, Alive, Row
    <3> QED BY <2>2, <2>3, <2>10, <3>1 DEF Delete
  <2>11. ASSUME NEW m \in Lockable, LockPeriod(m) \/ UnlockPeriod(m) PROVE asset' = asset
    BY <2>11 DEF LockPeriod, UnlockPeriod, books
  <2>12. UNCHANGED vars => asset' = asset
    BY DEF vars
  <2> QED BY <2>1, <2>2, <2>4, <2>5, <2>6, <2>7, <2>8, <2>9, <2>10, <2>11, <2>12 DEF Next, Step
<1> QED BY <1>1, <1>2 DEF Clean

LEMMA SteadyBegin ==
    ASSUME TypeInv, NEW r \in Requests, Begin(r), NEW a \in Assets, Clean(a)' PROVE Steady(r, a)
<1>1. ~ClaimedOn(r, a)
  BY BeginFields DEF ClaimedOn, Claimed
<1>2. ASSUME NEW kind, NEW b, NEW m, NEW rows, Set(r, Local(kind, "check", b, m, rows)), kind # "single"
      PROVE  Steady(r, a)
  <2>1. request'[r].kind = kind /\ request'[r].step = "check"
    BY <1>2 DEF Set, Local, TypeInv, TypeOK
  <2>2. ~WorksOn(r, a)'
    BY <1>2, <2>1 DEF WorksOn, ForUpdate, Is
  <2> QED BY <1>1, <2>2 DEF Steady
<1>3. ASSUME NEW b \in Assets, NEW m \in Months, Depreciate(r, b, m) PROVE Steady(r, a)
  <2> DEFINE rows == [Unread EXCEPT ![b] = asset[b]]
  <2>1. /\ Set(r, Local("single", "check", b, m, rows)) /\ asset[b].status = "active"
        /\ crossed' = crossed \cup {c \in {b} : \E q \in Requests \ {r} : WorksOn(q, c)}
    BY <1>3 DEF Depreciate, Meets
  <2>2. rows[b] = asset[b]
    BY NewType DEF Unread
  <2> HIDE DEF rows
  <2>3. /\ request'[r].kind = "single" /\ request'[r].step = "check" /\ request'[r].asset = b
        /\ request'[r].rows = rows
    BY <2>1 DEF Set, Local, TypeInv, TypeOK
  <2>4. CASE b = a
    <3>1. a \notin crossed'
      BY DEF Clean
    <3>2. \A q \in Requests \ {r} : ~WorksOn(q, a)
      BY <2>1, <2>4, <3>1
    <3>3. Takes(r, a)' = asset[a].acc
      <4>1. asset[a].acc \in Int
        BY Figures DEF Row
      <4>2. Takes(r, a)' = request'[r].rows[a].acc - 0
        BY <2>3 DEF Takes, Is
      <4> QED BY <2>2, <2>3, <2>4, <4>1, <4>2
    <3>4. ~Claimed(r)'
      BY <2>3 DEF Claimed
    <3> QED BY <1>1, <2>1, <2>4, <3>2, <3>3, <3>4 DEF Steady
  <2>5. CASE b # a
    <3>1. ~WorksOn(r, a)'
      BY <2>3, <2>5 DEF WorksOn, ForUpdate, Is
    <3> QED BY <1>1, <3>1 DEF Steady
  <2> QED BY <2>4, <2>5
<1>4. ASSUME NEW b \in Assets, NEW m \in Months, BeginDispose(r, b, m) PROVE Steady(r, a)
  BY <1>2, <1>4 DEF BeginDispose
<1>5. ASSUME NEW m \in Months, RunBatch(r, m) PROVE Steady(r, a)
  BY <1>2, <1>5 DEF RunBatch
<1>6. ASSUME NEW b \in Assets, Edits(r, b) PROVE Steady(r, a)
  BY <1>2, <1>6 DEF Edits, Edit
<1> QED BY <1>3, <1>4, <1>5, <1>6 DEF Begin

\* Batches and disposals that come to an asset.
LEMMA SteadyArrivals ==
    ASSUME TypeInv, NEW r \in Requests, LockDate(r) \/ (LockRow(r) /\ ~End(r)), NEW a \in Assets, Clean(a)'
    PROVE  Steady(r, a)
<1>0. a \notin crossed' /\ asset[a].acc \in Int
  BY Figures DEF Clean, Row
<1>1. CASE LockDate(r)
  <2>1. ~ClaimedOn(r, a) /\ ~Claimed(r)'
    BY <1>1, LockDateKeeps DEF ClaimedOn, Claimed, Is
  <2> SUFFICES ASSUME WorksOn(r, a)' PROVE Steady(r, a)
    BY <2>1 DEF Steady
  <2>2. request'[r].kind = "batch" /\ request'[r].rows[a].status = "active"
    BY <1>1, LockDateKeeps DEF WorksOn, ForUpdate, Is
  <2>3. request'[r].rows[a] = asset[a] /\ asset[a].status = "active" /\ Explored(a)
    BY <1>1, <2>2, LockDateKeeps
  <2>4. Takes(r, a)' = asset[a].acc
    <3>1. Takes(r, a)' = request'[r].rows[a].acc - 0
      BY <2>2 DEF Takes, Is
    <3> QED BY <1>0, <2>3, <3>1
  <2>5. \A q \in Requests \ {r} : ~WorksOn(q, a)
    <3>1. Meets(r, {b \in Assets : asset[b].status = "active" /\ Explored(b)})
      BY <1>1 DEF LockDate
    <3> QED BY <1>0, <2>3, <3>1 DEF Meets
  <2> QED BY <2>1, <2>3, <2>4, <2>5 DEF Steady
<1>2. CASE LockRow(r) /\ ~End(r)
  <2> PICK b \in Assets : b = request[r].asset
    BY LocalFields
  <2>1. ~ClaimedOn(r, a) /\ ~Claimed(r)'
    BY <1>2, LockRowKeeps DEF ClaimedOn, Claimed, Is
  <2> SUFFICES ASSUME WorksOn(r, a)' PROVE Steady(r, a)
    BY <2>1 DEF Steady
  <2>2. request'[r].kind = "dispose" /\ request'[r].asset = b
    BY <1>2, LockRowKeeps
  <2>3. b = a
    BY <2>2 DEF WorksOn, ForUpdate, Is
  <2>4. asset[a].status = "active" /\ request'[r].rows[a] = asset[a] /\ \A m \in Months : request'[r].drafts[a][m] = 0
    <3>1. asset[b].status = "active" /\ request'[r].rows[b] = asset[b]
      BY <1>2, LockRowKeeps
    <3>2. \A m \in Months : request'[r].drafts[a][m] = 0
      BY <1>2, LockRowKeeps
    <3> QED BY <2>3, <3>1, <3>2
  <2>5. Takes(r, a)' = asset[a].acc
    <3>1. Sum(request'[r].drafts[a], Months) = 0
      BY <2>4, SumNothing
    <3>2. Takes(r, a)' = request'[r].rows[a].acc - Sum(request'[r].drafts[a], Months)
      BY <2>2 DEF Takes, Is, Sum, MapThenFoldSet
    <3> QED BY <1>0, <2>4, <3>1, <3>2
  <2>6. \A q \in Requests \ {r} : ~WorksOn(q, a)
    <3>1. Meets(r, {b})
      BY <1>2 DEF LockRow
    <3> QED BY <1>0, <2>3, <3>1 DEF Meets
  <2> QED BY <2>1, <2>4, <2>5, <2>6 DEF Steady
<1> QED BY <1>1, <1>2

\* A disposal that books a month goes on: what it adds to its row is in its drafts.
LEMMA SteadyBook ==
    ASSUME TypeInv, NEW r \in Requests, Book(r), NEW a \in Assets PROVE Steady(r, a)
<1> PICK b \in Assets : b = request[r].asset
  BY LocalFields
<1> PICK m \in Months : m = Min(request[r].months)
  BY BookKeeps, MonthsOf
<1>1. /\ request[r].kind = "dispose" /\ request[r].step = "book" /\ request'[r].kind = "dispose"
      /\ request'[r].asset = b /\ request'[r].step \in {"catchUp", "dispose"}
  BY BookKeeps
<1>2. ~ClaimedOn(r, a) /\ ~Claimed(r)'
  BY <1>1 DEF ClaimedOn, Claimed, Is
<1> SUFFICES ASSUME WorksOn(r, a)' PROVE Steady(r, a)
  BY <1>2 DEF Steady
<1>3. a = b /\ WorksOn(r, a)
  BY <1>1 DEF WorksOn, ForUpdate, Is
<1> DEFINE old == request[r].drafts[a]
           new == request'[r].drafts[a]
<1>4. /\ old[m] = 0 /\ new[m] = request[r].amount /\ \A k \in Months \ {m} : new[k] = old[k]
      /\ request'[r].rows[a].acc = request[r].rows[a].acc + request[r].amount
  BY <1>3, BookKeeps
<1>5. request[r].amount \in Nat /\ request[r].rows[a].acc \in Int /\ \A k \in Months : old[k] \in Nat
  BY LocalFields DEF Row
<1>6. Takes(r, a) = request[r].rows[a].acc - Sum(old, Months)
      /\ Takes(r, a)' = request'[r].rows[a].acc - Sum(new, Months)
  BY <1>1 DEF Takes, Is, Sum, MapThenFoldSet
<1> HIDE DEF old, new
<1>7. \A k \in Months : old[k] \in Int /\ new[k] \in Int
  BY <1>4, <1>5
<1>8. Sum(new, Months) = Sum(old, Months) - old[m] + new[m] /\ Sum(old, Months) \in Int
  BY <1>4, <1>7, MonthsFinite, SumChange, SumType
<1>9. Takes(r, a)' = Takes(r, a)
  BY <1>4, <1>5, <1>6, <1>8
<1> QED BY <1>2, <1>3, <1>9 DEF Steady

\* Steps of a handler that write neither rows nor schedules.
LEMMA SteadyActs ==
    ASSUME TypeInv, LedgerInv, NEW r \in Requests, NEW a \in Assets, Clean(a)',
           \/ Begin(r) \/ PassLock(r) \/ Find(r) \/ (Claim(r) /\ Lost(r)) \/ Post(r) \/ Connect(r) \/ LockDate(r)
           \/ BatchClaim(r) \/ BatchSet(r) \/ (\E b \in Assets : Pick(r, b))
           \/ LockRow(r) \/ CatchUp(r) \/ Book(r) \/ Count(r) \/ Timeout(r) \/ Fail(r) \/ Die(r)
    PROVE  Steady(r, a)
<1>0. /\ request[r].kind \in Kinds /\ request[r].step \in StepsOf[request[r].kind]
  BY LocalFields DEF Sound
<1>1. ASSUME End(r), ~Claimed(r) PROVE Steady(r, a)
  BY <1>1, Ended DEF ClaimedOn
<1>2. ASSUME NEW to, Goto(r, to), request[r].step # "idle",
             to \notin {"pick", "claim", "set", "catchUp", "book", "dispose"} \/ request[r].kind = "single",
             to \notin {"catchUp", "book", "dispose"},
             request[r].kind = "single" =>
                 (request[r].step \in {"post", "set", "undo"} <=> to \in {"post", "set", "undo"})
      PROVE  Steady(r, a)
  <2>1. /\ request'[r].step = to /\ request'[r].kind = request[r].kind
        /\ request'[r].asset = request[r].asset /\ request'[r].month = request[r].month
        /\ request'[r].rows = request[r].rows /\ request'[r].amount = request[r].amount
        /\ request'[r].drafts = request[r].drafts
    BY <1>2, GotoFields
  <2>2. request[r].kind = "single" => (Claimed(r) <=> Claimed(r)')
    BY <1>2, <2>1 DEF Claimed, Is
  <2> QED BY <1>2, <2>1, <2>2, GoneOn
<1>3. CASE PassLock(r)
  <2>1. request[r].step = "check"
    BY <1>3 DEF PassLock, At
  <2>2. CASE End(r)
    BY <1>1, <2>1, <2>2 DEF Claimed
  <2>3. CASE Goto(r, After(request[r].kind))
    <3>1. After(request[r].kind) \in {"find", "count", "write", "connect"}
      BY DEF After
    <3> QED BY <1>2, <2>1, <2>3, <3>1
  <2> QED BY <1>3, <2>2, <2>3 DEF PassLock
<1>4. CASE Find(r)
  <2>1. request[r].step = "find"
    BY <1>4 DEF Find, At
  <2>2. CASE End(r)
    BY <1>1, <2>1, <2>2 DEF Claimed
  <2>3. CASE ~End(r)
    <3>1. ~Claimed(r) /\ ~Claimed(r)'
      BY <1>4, <2>1, <2>3, FindFields DEF Claimed
    <3> QED BY <1>4, <2>1, <2>3, <3>1, FindFields, GoneOn
  <2> QED BY <2>2, <2>3
<1>5. CASE Claim(r) /\ Lost(r)
  BY <1>1, <1>5 DEF Claim, At, Claimed
<1>6. CASE Post(r)
  <2>1. request[r].step = "post" /\ Goto(r, "set")
    BY <1>6 DEF Post, At
  <2>2. request[r].kind = "single"
    BY <1>0, <2>1 DEF Kinds, StepsOf
  <2> QED BY <1>2, <2>1, <2>2
<1>7. CASE Connect(r)
  <2>1. request[r].step = "connect" /\ (Goto(r, "lockDate") \/ Goto(r, "lockRow"))
    BY <1>7 DEF Connect, At
  <2>2. request[r].kind # "single"
    BY <1>0, <2>1 DEF Kinds, StepsOf
  <2> QED BY <1>2, <2>1, <2>2
<1>8. CASE BatchClaim(r)
  <2>1. request[r].step = "claim" /\ request[r].kind = "batch"
    BY <1>8 DEF BatchClaim, At, Is
  <2>2. CASE Lost(r)
    BY <1>1, <1>8, <2>1, <2>2 DEF BatchClaim, Claimed
  <2>3. CASE ~Lost(r)
    BY <1>8, <2>1, <2>3, BatchClaims, GoneOn
  <2> QED BY <2>2, <2>3
<1>9. CASE BatchSet(r)
  BY <1>9, BatchSetKeeps, GoneOn
<1>10. ASSUME NEW b \in Assets, Pick(r, b) PROVE Steady(r, a)
  BY <1>10, PickKeeps, GoneOn
<1>11. CASE LockRow(r) /\ End(r)
  BY <1>1, <1>11 DEF LockRow, At, Claimed
<1>12. CASE CatchUp(r)
  <2>1. request[r].step = "catchUp"
    BY <1>12 DEF CatchUp, At
  <2>2. CASE End(r)
    BY <1>1, <2>1, <2>2 DEF Claimed
  <2>3. CASE ~End(r)
    BY <1>12, <2>1, <2>3, CatchUpKeeps, GoneOn
  <2> QED BY <2>2, <2>3
<1>13. CASE Count(r)
  <2>1. request[r].step = "count" /\ (End(r) \/ Goto(r, "write"))
    BY <1>13 DEF Count, At
  <2>2. request[r].kind # "single"
    BY <1>0, <2>1 DEF Kinds, StepsOf
  <2> QED BY <1>1, <1>2, <2>1, <2>2 DEF Claimed
<1>14. CASE Fail(r) \/ Timeout(r)
  <2>1. Fail(r)
    BY <1>14 DEF Timeout
  <2>2. CASE Claimed(r) /\ request[r].step # "undo" /\ Goto(r, "undo")
    BY <1>2, <2>2 DEF Claimed, Is
  <2>3. CASE (Claimed(r) => request[r].step = "undo") /\ End(r)
    <3>1. ~ClaimedOn(r, a)
      BY <2>1, <2>3 DEF Fail, ClaimedOn, Clean
    <3> QED BY <2>3, <3>1, Ended
  <2> QED BY <2>1, <2>2, <2>3 DEF Fail
<1>15. CASE Die(r)
  <2>1. ~ClaimedOn(r, a) /\ End(r)
    BY <1>15 DEF Die, ClaimedOn, Clean
  <2> QED BY <2>1, Ended
<1> QED BY <1>3, <1>4, <1>5, <1>6, <1>7, <1>8, <1>9, <1>10, <1>11, <1>12, <1>13, <1>14, <1>15,
           SteadyBegin, SteadyArrivals, SteadyBook

\* Who works on an asset alone, and has not claimed, finds it booked.
LEMMA Worker ==
    ASSUME NEW r \in Requests, NEW a \in Assets, Alone(a), WorksOn(r, a)
    PROVE  /\ Knows(r, a)
           /\ \A q \in Requests \ {r} : ~WorksOn(q, a) /\ ~ClaimedOn(q, a)
           /\ ~Claimed(r) => asset[a].acc = Booked(a)
<1>1. \A q \in Requests : ClaimedOn(q, a) => WorksOn(q, a)
  BY DEF ClaimedOn, Claimed, WorksOn, Idle, Is
<1> QED BY <1>1 DEF Alone, Carried, ClaimedOn

LEMMA Left ==
    ASSUME TypeInv, NEW r \in Requests, NEW a \in Assets, Alone(a), WorksOn(r, a), End(r),
           asset'[a].acc = Sum(schedule'[a], Months),
           IF asset'[a].status = "active" THEN cleared'[a] = <<>>
           ELSE Len(cleared'[a]) = 1 /\ cleared'[a][1].amount = asset'[a].acc
    PROVE  Alone(a)'
<1>1. /\ \A q \in Requests \ {r} : request'[q] = request[q]
      /\ request'[r].step = "idle" /\ request'[r].kind = "single"
  BY EndKeeps, RestingSound
<1>2. ~WorksOn(r, a)'
  BY <1>1 DEF WorksOn, ForUpdate, Idle, Is
<1>3. \A q \in Requests \ {r} : ~WorksOn(q, a)'
  BY <1>1, Worker, WaitingKeeps
<1>4. Booked(a)' = Sum(schedule'[a], Months)
  BY DEF Booked, Sum, MapThenFoldSet
<1>5. Carried(a)'
  BY <1>4 DEF Carried
<1> QED BY <1>2, <1>3, <1>5 DEF Alone

LEMMA ClaimAlone ==
    ASSUME TypeInv, NEW r \in Requests, Claim(r), ~Lost(r), NEW a \in Assets, Alone(a) PROVE Alone(a)'
<1> PICK b \in Assets, m \in Months : b = request[r].asset /\ m = request[r].month
  BY LocalFields
<1>1. /\ request[r].kind = "single" /\ request[r].step = "claim" /\ Goto(r, "post")
      /\ schedule[b][m] = 0 /\ UNCHANGED <<asset, cleared>>
      /\ schedule' = [schedule EXCEPT ![b][m] = request[r].amount]
  BY DEF Claim, At, Is, Lost
<1>2. request[r].amount \in Nat /\ schedule \in [Assets -> Amounts] /\ request[r].rows[a].acc \in Int
  <2>1. request[r].amount \in Nat /\ request[r].rows[a].acc \in Int
    BY LocalFields DEF Row
  <2> QED BY <2>1 DEF TypeInv, TypeOK
<1>3. /\ request'[r].step = "post" /\ request'[r].kind = "single" /\ request'[r].asset = b /\ request'[r].month = m
      /\ request'[r].amount = request[r].amount /\ request'[r].rows = request[r].rows
  BY <1>1, GotoFields
<1>4. \A q \in Requests \ {r} : request'[q] = request[q]
  BY OthersWait DEF Acts, Step
<1>5. CASE a # b
  <2>1. Same(a)
    BY <1>1, <1>2, <1>5 DEF Same
  <2>2. Steady(r, a)
    <3>1. ~ClaimedOn(r, a) /\ ~WorksOn(r, a)'
      BY <1>1, <1>3, <1>5 DEF ClaimedOn, WorksOn, ForUpdate, Is
    <3> QED BY <3>1 DEF Steady
  <2> QED BY <1>4, <2>1, <2>2, AloneStep
<1>6. CASE a = b
  <2>1. WorksOn(r, a) /\ ~Claimed(r) /\ ClaimedOn(r, a)'
    BY <1>1, <1>3, <1>6 DEF WorksOn, Idle, Is, Claimed, ClaimedOn
  <2>2. /\ Knows(r, a) /\ asset[a].acc = Booked(a)
        /\ \A q \in Requests \ {r} : ~WorksOn(q, a)
    BY <2>1, Worker
  <2>3. \A q \in Requests \ {r} : ~WorksOn(q, a)'
    BY <1>4, <2>2, WaitingKeeps
  <2>4. Booked(a)' = asset[a].acc + request[r].amount
    <3>1. \A k \in Months : schedule[a][k] \in Nat
      BY Figures
    <3>2. \A k \in Months : schedule'[a][k] = IF k = m THEN request[r].amount ELSE schedule[a][k]
      BY <1>1, <1>2, <1>6, DraftType
    <3>3. Sum(schedule'[a], Months) = Sum(schedule[a], Months) - schedule[a][m] + schedule'[a][m]
      <4>1. \A k \in Months : schedule[a][k] \in Int /\ schedule'[a][k] \in Int
        BY <1>2, <3>1, <3>2
      <4>2. \A k \in Months \ {m} : schedule[a][k] = schedule'[a][k]
        BY <3>2
      <4> QED BY <4>1, <4>2, MonthsFinite, SumChange
    <3>4. Sum(schedule[a], Months) \in Int /\ schedule[a][m] = 0 /\ schedule'[a][m] = request[r].amount
      BY <1>1, <1>6, <3>1, <3>2, SumOfAmounts
    <3>5. Booked(a) = Sum(schedule[a], Months) /\ Booked(a)' = Sum(schedule'[a], Months)
      BY DEF Booked, Sum, MapThenFoldSet
    <3> QED BY <1>2, <2>2, <3>3, <3>4, <3>5
  <2>5. schedule'[a][m] = request[r].amount
    BY <1>1, <1>2, <1>6, DraftType
  <2>6. Takes(r, a)' = Takes(r, a)
    BY <1>1, <1>3 DEF Takes, Is
  <2>7. Knows(r, a)'
    BY <1>1, <1>3, <2>2, <2>4, <2>5, <2>6 DEF Knows
  <2>8. Carried(a)'
    BY <1>1, <2>1 DEF Alone, Carried
  <2> QED BY <2>3, <2>7, <2>8 DEF Alone
<1> QED BY <1>5, <1>6

\* The depreciation of one asset ends: its claim is carried over, or taken back.
LEMMA SingleAlone ==
    ASSUME TypeInv, NEW r \in Requests, SetAsset(r) \/ Undo(r), NEW a \in Assets, Alone(a), Clean(a)'
    PROVE  Alone(a)'
<1> PICK b \in Assets, m \in Months : b = request[r].asset /\ m = request[r].month
  BY LocalFields
<1>1. request[r].step \in {"set", "undo"} /\ End(r) /\ cleared' = cleared
  BY DEF SetAsset, Undo, At
<1>2. request[r].kind = "single"
  <2>1. CASE SetAsset(r)
    BY <2>1 DEF SetAsset, Is
  <2>2. CASE Undo(r)
    <3>1. request[r].step = "undo"
      BY <2>2 DEF Undo, At
    <3> QED BY <3>1, LocalFields DEF Sound, StepsOf, Kinds
  <2> QED BY <2>1, <2>2
<1>3. /\ request[r].amount \in Nat /\ schedule \in [Assets -> Amounts] /\ asset \in [Assets -> Row]
      /\ asset[a].acc \in Int /\ request[r].rows[a].acc \in Int
  <2>1. request[r].amount \in Nat /\ request[r].rows[a].acc \in Int
    BY LocalFields DEF Row
  <2>2. asset[a].acc \in Int
    BY Figures DEF Row
  <2> QED BY <2>1, <2>2 DEF TypeInv, TypeOK
<1>4. \A q \in Requests \ {r} : request'[q] = request[q]
  BY <1>1, EndKeeps
<1>5. CASE a # b
  <2>1. asset'[a] = asset[a] /\ schedule'[a] = schedule[a]
    BY <1>3, <1>5 DEF SetAsset, Undo
  <2>2. Same(a)
    BY <1>1, <2>1 DEF Same
  <2>3. Steady(r, a)
    BY <1>1, <1>5, Ended DEF ClaimedOn
  <2> QED BY <1>4, <2>2, <2>3, AloneStep
<1>6. CASE a = b
  <2>1. WorksOn(r, a) /\ Claimed(r)
    BY <1>1, <1>2, <1>6 DEF WorksOn, Idle, Is, Claimed
  <2>2. Knows(r, a)
    BY <2>1, Worker
  <2>3. /\ asset[a].status = "active" /\ request[r].rows[a].acc = asset[a].acc
        /\ Booked(a) = asset[a].acc + request[r].amount /\ schedule[a][m] = request[r].amount
    <3>1. Takes(r, a) = request[r].rows[a].acc
      BY <1>2, <1>3 DEF Takes, Is
    <3> QED BY <1>6, <2>1, <2>2, <3>1 DEF Knows
  <2>4. cleared'[a] = <<>>
    BY <1>1, <2>3 DEF Alone, Carried
  <2>5. CASE SetAsset(r)
    <3>1. asset'[a].acc = asset[a].acc + request[r].amount /\ asset'[a].status = "active" /\ schedule' = schedule
      BY <1>3, <1>6, <2>3, <2>5 DEF SetAsset, Row
    <3>2. asset'[a].acc = Sum(schedule'[a], Months)
      BY <2>3, <3>1 DEF Booked
    <3> QED BY <1>1, <2>1, <2>4, <3>1, <3>2, Left
  <2>6. CASE Undo(r)
    <3>1. asset' = asset /\ schedule' = [schedule EXCEPT ![a][m] = 0]
      BY <1>6, <2>6 DEF Undo
    <3>2. \A k \in Months : schedule[a][k] \in Nat
      BY Figures
    <3>3. \A k \in Months : schedule'[a][k] = IF k = m THEN 0 ELSE schedule[a][k]
      BY <1>3, <3>1, DraftType
    <3>4. Sum(schedule'[a], Months) = Sum(schedule[a], Months) - schedule[a][m] + schedule'[a][m]
      <4>1. \A k \in Months : schedule[a][k] \in Int /\ schedule'[a][k] \in Int
        BY <3>2, <3>3
      <4>2. \A k \in Months \ {m} : schedule[a][k] = schedule'[a][k]
        BY <3>3
      <4> QED BY <4>1, <4>2, MonthsFinite, SumChange
    <3>5. Sum(schedule[a], Months) = asset[a].acc + request[r].amount /\ schedule'[a][m] = 0
      BY <2>3, <3>3 DEF Booked
    <3>6. asset'[a].acc = Sum(schedule'[a], Months)
      BY <1>3, <2>3, <3>1, <3>4, <3>5
    <3> QED BY <1>1, <2>1, <2>3, <2>4, <3>1, <3>6, Left
  <2> QED BY <2>5, <2>6
<1> QED BY <1>5, <1>6

\* What a transaction publishes of an asset it has drafts of, and of the others.
LEMMA Published ==
    ASSUME TypeInv, NEW r \in Requests, Publish(request[r].drafts), NEW a \in Assets
    PROVE  /\ (\A k \in Months : request[r].drafts[a][k] = 0) => schedule'[a] = schedule[a]
           /\ Sum(schedule'[a], Months) = Booked(a) + Sum(request[r].drafts[a], Months)
<1> DEFINE drafts == request[r].drafts[a]
<1>1. /\ schedule[a] \in Amounts /\ schedule'[a] \in Amounts
      /\ \A k \in Months : schedule'[a][k] = schedule[a][k] + request[r].drafts[a][k]
  BY PublishType DEF TypeInv, TypeOK
<1>2. \A k \in Months : request[r].drafts[a][k] \in Nat /\ schedule[a][k] \in Nat
  BY LocalFields, Figures
<1>3. ASSUME \A k \in Months : request[r].drafts[a][k] = 0 PROVE schedule'[a] = schedule[a]
  <2>1. \A k \in Months : schedule'[a][k] = schedule[a][k]
    BY <1>1, <1>2, <1>3
  <2> QED BY <1>1, <2>1 DEF Amounts
<1>4. Sum(schedule'[a], Months) = Sum(schedule[a], Months) + Sum(drafts, Months)
  <2>1. \A k \in Months : /\ schedule[a][k] \in Int /\ drafts[k] \in Int
                          /\ schedule'[a][k] = schedule[a][k] + drafts[k]
    BY <1>1, <1>2
  <2> HIDE DEF drafts
  <2> QED BY <2>1, MonthsFinite, SumPlus
<1> QED BY <1>3, <1>4 DEF Booked

LEMMA CommitAlone ==
    ASSUME TypeInv, NEW r \in Requests, CommitBatch(r), NEW a \in Assets, Alone(a) PROVE Alone(a)'
<1> PICK m \in Months : m = request[r].month
  BY LocalFields
<1>1. /\ request[r].step = "pick" /\ Publish(request[r].drafts) /\ End(r) /\ cleared' = cleared
      /\ asset'[a] = IF request[r].drafts[a] = Nothing THEN asset[a]
                     ELSE [asset[a] EXCEPT !.acc = request[r].rows[a].acc + request[r].drafts[a][m]]
  BY DEF CommitBatch, At
<1>2. request[r].kind = "batch" /\ Sound(request[r])
  BY <1>1, LocalFields DEF Sound, StepsOf, Kinds
<1>3. \A q \in Requests \ {r} : request'[q] = request[q]
  BY <1>1, EndKeeps
<1>4. CASE request[r].drafts[a] = Nothing
  <2>1. schedule'[a] = schedule[a]
    BY <1>1, <1>4, Published, NothingType
  <2>2. Same(a)
    BY <1>1, <1>4, <2>1 DEF Same
  <2>3. Steady(r, a)
    BY <1>1, <1>2, Ended DEF ClaimedOn, Claimed, Is
  <2> QED BY <1>3, <2>2, <2>3, AloneStep
<1>5. CASE request[r].drafts[a] # Nothing
  <2>1. request[r].drafts[a] \in Amounts
    BY LocalFields
  <2>2. \E k \in Months : request[r].drafts[a][k] # 0
    BY <1>5, <2>1 DEF Amounts, Nothing
  <2>3. request[r].rows[a].status = "active" /\ \A k \in Months \ {m} : request[r].drafts[a][k] = 0
    BY <1>2, <2>2 DEF Sound
  <2>4. WorksOn(r, a) /\ ~Claimed(r)
    BY <1>1, <1>2, <2>3 DEF WorksOn, Is, Claimed
  <2>5. Knows(r, a) /\ asset[a].acc = Booked(a)
    BY <2>4, Worker
  <2>6. request[r].rows[a].acc \in Int /\ asset[a] \in Row
    <3>1. request[r].rows[a].acc \in Int
      BY LocalFields DEF Row
    <3> QED BY <3>1, Figures
  <2>7. asset[a].status = "active" /\ request[r].rows[a].acc = Booked(a)
    <3>1. Takes(r, a) = request[r].rows[a].acc
      BY <1>2, <2>6 DEF Takes, Is
    <3> QED BY <2>5, <3>1 DEF Knows
  <2>8. Sum(request[r].drafts[a], Months) = request[r].drafts[a][m]
    <3> DEFINE drafts == request[r].drafts[a]
    <3>1. \A k \in Months : drafts[k] \in Int /\ Nothing[k] \in Int
      BY LocalFields, NothingType
    <3>2. \A k \in Months \ {m} : Nothing[k] = drafts[k]
      BY <2>3, NothingType
    <3>3. Nothing[m] = 0 /\ Sum(Nothing, Months) = 0 /\ drafts[m] \in Int
      BY <3>1, NothingType, SumNothing
    <3> HIDE DEF drafts
    <3>4. Sum(drafts, Months) = Sum(Nothing, Months) - Nothing[m] + drafts[m]
      BY <3>1, <3>2, MonthsFinite, SumChange
    <3>5. Sum(drafts, Months) = drafts[m]
      BY <3>3, <3>4
    <3> QED BY <3>5 DEF drafts
  <2>9. asset'[a].acc = request[r].rows[a].acc + request[r].drafts[a][m] /\ asset'[a].status = "active"
    BY <1>1, <1>5, <2>6, <2>7 DEF Row
  <2>10. asset'[a].acc = Sum(schedule'[a], Months)
    BY <1>1, <2>7, <2>8, <2>9, Published
  <2>11. cleared'[a] = <<>>
    BY <1>1, <2>7 DEF Alone, Carried
  <2> QED BY <1>1, <2>4, <2>9, <2>10, <2>11, Left
<1> QED BY <1>4, <1>5

LEMMA DisposeAlone ==
    ASSUME TypeInv, NEW r \in Requests, Dispose(r), NEW a \in Assets, Alone(a) PROVE Alone(a)'
<1> PICK b \in Assets : b = request[r].asset
  BY LocalFields
<1> DEFINE acc == request[r].rows[b].acc
<1>1. /\ request[r].step = "dispose" /\ Publish(request[r].drafts) /\ End(r)
      /\ asset' = [asset EXCEPT ![b].acc = acc, ![b].status = "disposed"]
      /\ cleared' = [cleared EXCEPT ![b] = Append(@, [month |-> request[r].month, amount |-> acc])]
  BY DEF Dispose, At
<1>2. request[r].kind = "dispose" /\ Sound(request[r])
  BY <1>1, LocalFields DEF Sound, StepsOf, Kinds
<1>3. \A q \in Requests \ {r} : request'[q] = request[q]
  BY <1>1, EndKeeps
<1>4. asset \in [Assets -> Row] /\ DOMAIN cleared = Assets
  BY DEF TypeInv, TypeOK
<1>5. CASE a # b
  <2>1. \A k \in Months : request[r].drafts[a][k] = 0
    BY <1>2, <1>5 DEF Sound
  <2>2. schedule'[a] = schedule[a]
    BY <1>1, <2>1, Published
  <2>3. Same(a)
    BY <1>1, <1>4, <1>5, <2>2 DEF Same
  <2>4. Steady(r, a)
    BY <1>1, <1>2, Ended DEF ClaimedOn, Claimed, Is
  <2> QED BY <1>3, <2>3, <2>4, AloneStep
<1>6. CASE a = b
  <2>1. WorksOn(r, a) /\ ~Claimed(r)
    BY <1>1, <1>2, <1>6 DEF WorksOn, ForUpdate, Is, Claimed
  <2>2. Knows(r, a) /\ asset[a].acc = Booked(a)
    BY <2>1, Worker
  <2>3. acc \in Int /\ Sum(request[r].drafts[a], Months) \in Int
    <3>1. acc \in Int
      BY LocalFields DEF Row
    <3>2. \A k \in Months : request[r].drafts[a][k] \in Nat
      BY LocalFields
    <3> QED BY <3>1, <3>2, SumOfAmounts
  <2>4. acc - Sum(request[r].drafts[a], Months) = Booked(a) /\ asset[a].status = "active"
    <3>1. Takes(r, a) = acc - Sum(request[r].drafts[a], Months)
      BY <1>2, <1>6 DEF Takes, Is
    <3> QED BY <2>2, <3>1 DEF Knows
  <2>5. Booked(a) \in Int
    <3>1. \A k \in Months : schedule[a][k] \in Nat
      BY Figures
    <3> QED BY <3>1, SumOfAmounts DEF Booked
  <2>6. asset'[a].acc = acc /\ asset'[a].status = "disposed"
    BY <1>1, <1>4, <1>6 DEF Row
  <2>7. asset'[a].acc = Sum(schedule'[a], Months)
    <3>1. Sum(schedule'[a], Months) = Booked(a) + Sum(request[r].drafts[a], Months)
      BY <1>1, Published
    <3> HIDE DEF acc
    <3> QED BY <2>3, <2>4, <2>5, <2>6, <3>1
  <2>8. cleared'[a] = <<[month |-> request[r].month, amount |-> acc]>>
    <3>1. cleared[a] = <<>>
      BY <2>4 DEF Alone, Carried
    <3> QED BY <1>1, <1>4, <1>6, <3>1
  <2>9. Len(cleared'[a]) = 1 /\ cleared'[a][1].amount = acc
    BY <2>8
  <2> QED BY <1>1, <2>1, <2>6, <2>7, <2>9, Left
<1> QED BY <1>5, <1>6

\* An edit writes neither what an asset carries nor, of a clean one, its status.
LEMMA EditAlone ==
    ASSUME TypeInv, NEW r \in Requests, WriteEdit(r), NEW a \in Assets, Alone(a), Clean(a)' PROVE Alone(a)'
<1>1. request[r].step = "write" /\ End(r) /\ UNCHANGED <<schedule, cleared>> /\ asset \in [Assets -> Row]
  BY DEF WriteEdit, At, TypeInv, TypeOK
<1>2. request[r].kind \in {"life", "status"}
  BY <1>1, LocalFields DEF Sound, StepsOf, Kinds
<1>3. asset'[a].acc = asset[a].acc /\ asset'[a].status = asset[a].status
  <2>1. CASE request[r].asset # a
    BY <1>1, <2>1 DEF WriteEdit
  <2>2. CASE request[r].asset = a
    <3>1. request[r].kind # "status"
      BY <2>2 DEF WriteEdit, Is, Clean
    <3> QED BY <1>1, <1>2, <2>2, <3>1 DEF WriteEdit, Is, Row
  <2> QED BY <2>1, <2>2
<1>4. Same(a)
  BY <1>1, <1>3 DEF Same
<1>5. Steady(r, a)
  BY <1>1, <1>2, Ended DEF ClaimedOn, Claimed, Is
<1> QED BY <1>1, <1>4, <1>5, EndKeeps, AloneStep

LEMMA StepAssetInv == TypeInv /\ LedgerInv /\ AssetInv /\ [Next]_vars => AssetInv'
<1> SUFFICES ASSUME TypeInv, LedgerInv, AssetInv, [Next]_vars, NEW a \in Assets, Clean(a)' PROVE Alone(a)'
  BY DEF AssetInv
<1>0. Alone(a)
  BY CleanBefore DEF AssetInv
<1>1. ASSUME NEW r \in Requests, Acts(r) PROVE Alone(a)'
  <2>1. CASE \/ Begin(r) \/ PassLock(r) \/ Find(r) \/ (Claim(r) /\ Lost(r)) \/ Post(r) \/ Connect(r) \/ LockDate(r)
             \/ BatchClaim(r) \/ BatchSet(r) \/ (\E b \in Assets : Pick(r, b))
             \/ LockRow(r) \/ CatchUp(r) \/ Book(r) \/ Count(r) \/ Timeout(r) \/ Fail(r) \/ Die(r)
    <3>1. Steady(r, a)
      BY <2>1, SteadyActs
    <3>2. \A q \in Requests \ {r} : request'[q] = request[q]
      BY <1>1, OthersWait
    <3>3. UNCHANGED <<asset, schedule, cleared>>
      <4>1. Begin(r) => UNCHANGED <<asset, schedule, cleared>>
        BY BeginFields
      <4>2. PassLock(r) \/ Find(r) \/ Post(r) \/ Connect(r) \/ LockDate(r) => UNCHANGED <<asset, schedule, cleared>>
        BY DEF PassLock, Find, Post, Connect, LockDate, books
      <4>3. Claim(r) /\ Lost(r) => UNCHANGED <<asset, schedule, cleared>>
        BY DEF Claim
      <4>4. BatchClaim(r) \/ BatchSet(r) \/ (\E b \in Assets : Pick(r, b)) \/ LockRow(r) \/ CatchUp(r)
            => UNCHANGED <<asset, schedule, cleared>>
        BY DEF BatchClaim, BatchSet, Pick, LockRow, CatchUp, books
      <4>5. Book(r) \/ Count(r) \/ Timeout(r) \/ Fail(r) \/ Die(r) => UNCHANGED <<asset, schedule, cleared>>
        BY DEF Book, Count, Timeout, Fail, Die, books
      <4> QED BY <2>1, <4>1, <4>2, <4>3, <4>4, <4>5
    <3>4. Same(a)
      BY <3>3 DEF Same
    <3> QED BY <1>0, <3>1, <3>2, <3>4, AloneStep
  <2>2. CASE (Claim(r) /\ ~Lost(r)) \/ SetAsset(r) \/ Undo(r) \/ CommitBatch(r) \/ Dispose(r) \/ WriteEdit(r)
    BY <1>0, <2>2, ClaimAlone, SingleAlone, CommitAlone, DisposeAlone, EditAlone
  <2> QED BY <1>1, <2>1, <2>2 DEF Acts, Step
<1>2. ASSUME Same(a), request' = request PROVE Alone(a)'
  <2>1. /\ asset'[a].acc = asset[a].acc /\ asset'[a].status = asset[a].status
        /\ schedule'[a] = schedule[a] /\ cleared'[a] = cleared[a]
    BY <1>2 DEF Same
  <2>2. \A q \in Requests : /\ WorksOn(q, a)' <=> WorksOn(q, a)
                            /\ Claimed(q)' <=> Claimed(q)
                            /\ ClaimedOn(q, a)' <=> ClaimedOn(q, a)
                            /\ Takes(q, a)' = Takes(q, a)
    BY <1>2, WaitingKeeps
  <2>3. Booked(a)' = Booked(a)
    BY <2>1 DEF Booked, Sum, MapThenFoldSet
  <2>4. ASSUME NEW q \in Requests, WorksOn(q, a)' PROVE Knows(q, a)'
    <3>1. Knows(q, a)
      BY <1>0, <2>2, <2>4 DEF Alone
    <3> QED BY <1>2, <2>1, <2>2, <2>3, <3>1 DEF Knows
  <2>5. Carried(a)'
    BY <1>0, <2>1, <2>2, <2>3 DEF Alone, Carried
  <2> QED BY <1>0, <2>2, <2>4, <2>5 DEF Alone
<1>3. ASSUME NEW b \in Assets, Delete(b) PROVE Alone(a)'
  <2>1. a # b
    BY <1>3 DEF Delete, Clean, Alive, TypeInv, TypeOK, Row
  <2>2. Same(a) /\ request' = request
    BY <1>3, <2>1 DEF Delete, Same, TypeInv, TypeOK
  <2> QED BY <1>2, <2>2
<1>4. ASSUME NEW m \in Lockable, LockPeriod(m) \/ UnlockPeriod(m) PROVE Alone(a)'
  BY <1>2, <1>4 DEF LockPeriod, UnlockPeriod, books, Same
<1>5. UNCHANGED vars => Alone(a)'
  BY <1>2 DEF vars, Same
<1> QED BY <1>1, <1>3, <1>4, <1>5 DEF Next, Acts

(* An asset whose handlers wait for each other carries what was scheduled    *)
(* for it, and its disposal clears exactly that, once: every depreciation,   *)
(* batch and disposal writes the accumulated depreciation it read plus what  *)
(* it booked itself (fixed-assets.routes.ts), and that is right as long as   *)
(* nobody else came to the asset in between.                                 *)
THEOREM AssetsFollowSchedules == Spec => []AssetTiesToSchedules
<1>1. TypeInv /\ AssetInv => AssetTiesToSchedules
  <2> SUFFICES ASSUME TypeInv, AssetInv, NEW a \in Assets \ (crossed \cup torn \cup patched),
                      Alive(a), ~\E r \in Requests : ClaimedOn(r, a)
               PROVE  /\ asset[a].acc = FoldFunction(+, 0, schedule[a])
                      /\ IF asset[a].status = "active" THEN cleared[a] = <<>>
                         ELSE Len(cleared[a]) = 1 /\ cleared[a][1].amount = asset[a].acc
    BY DEF AssetTiesToSchedules, Alive, ClaimedOn
  <2>1. Carried(a)
    BY DEF AssetInv, Alone, Clean
  <2>2. schedule[a] \in Amounts
    BY DEF TypeInv, TypeOK
  <2>3. FoldFunction(+, 0, schedule[a]) = Booked(a)
    BY <2>2, TotalOf DEF Booked
  <2> QED BY <2>1, <2>3 DEF Carried
<1> QED BY InitTypeInv, StepTypeInv, InitLedgerInv, StepLedgerInv, InitAssetInv, StepAssetInv, <1>1, PTL DEF Spec
=============================================================================
