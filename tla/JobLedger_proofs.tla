--------------------------- MODULE JobLedger_proofs ---------------------------
(***************************************************************************)
(* Theorems about the ledger of detached jobs, for any commands, report     *)
(* files, bounds and failures but those of two reads: a snapshot of the     *)
(* reports and the reading of the claims, both of which the code takes for  *)
(* an empty answer when they fail.                                          *)
(***************************************************************************)
EXTENDS JobLedger, TLAPS

Reliable == "snapshot" \notin Failing /\ "claims" \notin Failing

-----------------------------------------------------------------------------
(* Typing. *)

\* The engine is busy with a command of the set.
TypeInv ==
    /\ TypeOK
    /\ pc \in {"poll", "kill0", "record", "book"} => current \in Command

\* What a claim may be, and a delta.
Version == Path \X Nat \X Nat
Deltas == [written : SUBSET Version, cached : SUBSET Version]

LEMMA DeltaType ==
    ASSUME written \in [Path -> Nat], NEW c \in Command, NEW from,
           NEW to \in [Path -> Nat], NEW vouched
    PROVE  Delta(c, from, to, vouched) \in Deltas
BY ScopeAssumption DEF Delta, Deltas, Version, Claim

LEMMA ReceiptType ==
    ASSUME NEW c \in Command, NEW n \in Nat, NEW delta \in Deltas,
           NEW lost \in SUBSET Path, NEW exit \in {"code", "crash"}
    PROVE  Receipt(c, n, delta, lost, exit) \in Receipts
BY DEF Receipt, Receipts, Deltas, Version

LEMMA WithoutType ==
    ASSUME NEW reports \in [Path -> Nat], NEW taken
    PROVE  Without(reports, taken) \in [Path -> Nat]
BY DEF Without

\* What is claimed is in scope and there; what is claimed as written has changed.
LEMMA DeltaIs ==
    ASSUME NEW c \in Command, NEW from, NEW to, NEW vouched,
           NEW v \in Claims(Delta(c, from, to, vouched))
    PROVE  /\ v[1] \in Path /\ v = Claim(v[1], to) /\ to[v[1]] # 0
           /\ v \in Delta(c, from, to, vouched).written => to[v[1]] # from[v[1]]
BY ScopeAssumption DEF Delta, Claims, Claim

\* A report that is there and changed is claimed.
LEMMA DeltaHas ==
    ASSUME NEW c \in Command, NEW from, NEW to, NEW vouched,
           NEW p \in Scope[c], to[p] \notin {0, from[p]}
    PROVE  Claim(p, to) \in Claims(Delta(c, from, to, vouched))
BY DEF Delta, Claims

\* The delta of what is left of the reports is the part of the delta that is left.
LEMMA DeltaWithout ==
    ASSUME NEW c \in Command, NEW from, NEW to, NEW vouched, NEW taken,
           NEW v \in Claims(Delta(c, from, Without(to, taken), vouched))
    PROVE  /\ v \in Claims(Delta(c, from, to, vouched)) /\ v[1] \notin taken
           /\ v \in Delta(c, from, Without(to, taken), vouched).written =>
                 v \in Delta(c, from, to, vouched).written
<1> DEFINE rest == Without(to, taken)
<1>1. v[1] \in Path /\ v = Claim(v[1], rest) /\ rest[v[1]] # 0
  BY DeltaIs
<1>2. v[1] \notin taken /\ rest[v[1]] = to[v[1]] /\ v = Claim(v[1], to)
  BY <1>1 DEF Without, Claim
<1>3. /\ v \in Delta(c, from, rest, vouched).written => v \in Delta(c, from, to, vouched).written
      /\ v \in Delta(c, from, rest, vouched).cached => v \in Delta(c, from, to, vouched).cached
  <2> HIDE DEF rest
  <2>1. CASE v \in Delta(c, from, rest, vouched).written
    <3>1. PICK p \in Scope[c] : v = Claim(p, rest) /\ rest[p] # 0 /\ rest[p] # from[p]
      BY <2>1 DEF Delta
    <3>2. p = v[1]
      BY <3>1 DEF Claim
    <3> QED
      BY <1>2, <3>1, <3>2 DEF Delta, Claim
  <2>2. CASE v \in Delta(c, from, rest, vouched).cached
    <3>1. PICK p \in Scope[c] \cap vouched : v = Claim(p, rest) /\ rest[p] # 0 /\ rest[p] = from[p]
      BY <2>2 DEF Delta
    <3>2. p = v[1]
      BY <3>1 DEF Claim
    <3>3. v \in Delta(c, from, to, vouched).cached
      BY <1>2, <3>1, <3>2 DEF Delta, Claim
    <3>4. v \notin Delta(c, from, rest, vouched).written
      BY <1>2, <3>1, <3>2 DEF Delta, Claim
    <3> QED
      BY <3>3, <3>4
  <2> QED
    BY <2>1, <2>2
<1> QED
  BY <1>2, <1>3 DEF Claims

LEMMA FiledType ==
    ASSUME receipts \subseteq Receipts, NEW r \in Receipts
    PROVE  Filed(r) \subseteq Receipts
BY DEF Filed

LEMMA ClaimedType ==
    ASSUME NEW files \in SUBSET Receipts
    PROVE  Claimed(files) \subseteq [sequence : Nat, paths : SUBSET Path]
BY DEF Claimed, Receipts, Paths, Claims

LEMMA NothingType == Nothing \in [Path -> Nat]
BY DEF Nothing

LEMMA NoObligationType == NoObligation \in Obligations
BY NothingType DEF NoObligation, Obligations

LEMMA SettledType ==
    ASSUME NEW o \in Obligations, NEW n \in Nat
    PROVE  [o EXCEPT !.state = "settled", !.receipt = n] \in Obligations
BY DEF Obligations

LEMMA EmptyBooks ==
    ASSUME NEW books, books = [c \in Command |-> NoObligation]
    PROVE  books \in [Command -> Obligations]
BY NoObligationType

\* The receipt of a call that saw its command end claims what is on disk, nothing if the
\* reports could not be listed.
LEMMA RecordFiles ==
    ASSUME TypeInv, Record
    PROVE  \/ UNCHANGED receipts
           \/ \E r \in Receipts :
                /\ r.id = NextSequence /\ r.command = current /\ r.excluded = {}
                /\ receipts' = Filed(r)
                /\ \A v \in Claims(r) :
                      v[1] \in Path /\ v = Claim(v[1], disk) /\ disk[v[1]] # 0
                /\ \A v \in r.written : disk[v[1]] # before[v[1]]
<1>1. PICK after \in {disk, Nothing}, vouched \in SUBSET Vouchable[current] :
        LET exit == IF crashed THEN "crash" ELSE "code"
            delta == Delta(current, before, after, vouched)
            r == Receipt(current, NextSequence, delta, {}, exit)
        IN receipts' = Filed(r) \/ UNCHANGED receipts
  BY DEF Record
<1> DEFINE exit == IF crashed THEN "crash" ELSE "code"
           delta == Delta(current, before, after, vouched)
           r == Receipt(current, NextSequence, delta, {}, exit)
<1>2. current \in Command /\ NextSequence \in Nat /\ after \in [Path -> Nat]
  BY NothingType DEF Record, TypeInv, TypeOK, NextSequence
<1>3. delta \in Deltas
  BY <1>2, DeltaType DEF TypeInv, TypeOK
<1>4. \A v \in Claims(delta) :
        /\ v[1] \in Path /\ v = Claim(v[1], after) /\ after[v[1]] # 0
        /\ v \in delta.written => after[v[1]] # before[v[1]]
  BY <1>2, DeltaIs
<1>5. \A v \in Claims(delta) :
        /\ v[1] \in Path /\ v = Claim(v[1], disk) /\ disk[v[1]] # 0
        /\ v \in delta.written => disk[v[1]] # before[v[1]]
  <2>1. CASE after = disk
    BY <1>4, <2>1
  <2>2. CASE after = Nothing
    BY <1>4, <2>2 DEF Nothing
  <2> QED
    BY <2>1, <2>2
<1> HIDE DEF delta
<1>6. r \in Receipts
  BY <1>2, <1>3, ReceiptType
<1>7. /\ r.id = NextSequence /\ r.command = current /\ r.excluded = {}
      /\ r.written = delta.written /\ r.cached = delta.cached
  BY DEF Receipt
<1>8. receipts' = Filed(r) \/ UNCHANGED receipts
  BY <1>1 DEF delta
<1> HIDE DEF r
<1> QED
  BY <1>5, <1>6, <1>7, <1>8 DEF Claims

\* The receipt of a settlement claims what is on disk and was not taken, and it claims or
\* excludes whatever has changed, if the reports could be listed.
LEMMA SettleFiles ==
    ASSUME TypeInv, NEW c \in Command, Settle(c)
    PROVE  \/ UNCHANGED <<receipts, claims, current, pc>> /\ pending' = pending \ {c}
           \/ \E r \in Receipts :
                /\ r.id = NextSequence /\ r.command = c
                /\ receipts' = Filed(r) /\ claims' = Folded(r)
                /\ current' = c /\ pc' = "book" /\ UNCHANGED pending
                /\ r.excluded \subseteq Intervening(claims, records[c].sequence)
                /\ \A v \in Claims(r) :
                      /\ v[1] \in Path /\ v = Claim(v[1], disk) /\ disk[v[1]] # 0
                      /\ v[1] \notin Intervening(claims, records[c].sequence)
                /\ \A v \in r.written : disk[v[1]] # records[c].before[v[1]]
                /\ "snapshot" \notin Failing =>
                      \A p \in Scope[c] : disk[p] \notin {0, records[c].before[p]} =>
                          Claim(p, disk) \in Claims(r) \/ p \in r.excluded
<1> DEFINE taken == Intervening(claims, records[c].sequence)
<1>1. PICK after \in {disk, Nothing}, vouched \in SUBSET Vouchable[c] :
        LET window == Delta(c, records[c].before, after, vouched)
            lost == Paths(window) \cap taken
            mine == Delta(c, records[c].before, Without(after, lost), vouched)
            r == Receipt(c, NextSequence, mine, lost, "code")
        IN /\ \/ receipts' = Filed(r) /\ claims' = Folded(r) /\ current' = c
                 /\ pc' = "book" /\ UNCHANGED pending
              \/ pending' = pending \ {c} /\ UNCHANGED <<receipts, claims, current, pc>>
           /\ after = disk \/ "snapshot" \in Failing
  BY DEF Settle, Fails
<1> DEFINE from == records[c].before
           window == Delta(c, from, after, vouched)
           lost == Paths(window) \cap taken
           mine == Delta(c, from, Without(after, lost), vouched)
           r == Receipt(c, NextSequence, mine, lost, "code")
<1>2. NextSequence \in Nat /\ after \in [Path -> Nat]
  BY NothingType DEF TypeInv, TypeOK, NextSequence
<1>3. Without(after, lost) \in [Path -> Nat]
  BY <1>2, WithoutType
<1>4. mine \in Deltas
  BY <1>3, DeltaType DEF TypeInv, TypeOK
<1>5. \A v \in Claims(window) :
        /\ v[1] \in Path /\ v = Claim(v[1], after) /\ after[v[1]] # 0
        /\ v \in window.written => after[v[1]] # from[v[1]]
  BY DeltaIs
<1>6. \A v \in Claims(mine) :
        v \in Claims(window) /\ v[1] \notin lost /\ (v \in mine.written => v \in window.written)
  <2> HIDE DEF lost
  <2> QED
    BY DeltaWithout
<1>7. lost \in SUBSET Path
  BY <1>5 DEF Paths
<1>8. after = disk => \A p \in Scope[c] : disk[p] \notin {0, from[p]} =>
                        Claim(p, disk) \in Claims(mine) \/ p \in lost
  <2> SUFFICES ASSUME after = disk, NEW p \in Scope[c], disk[p] \notin {0, from[p]}, p \notin lost
               PROVE  Claim(p, disk) \in Claims(mine)
    OBVIOUS
  <2> DEFINE rest == Without(after, lost)
  <2>1. p \in Path
    BY ScopeAssumption
  <2> HIDE DEF lost
  <2>2. rest[p] = disk[p]
    BY <2>1 DEF Without
  <2> HIDE DEF rest
  <2>3. Claim(p, rest) \in Claims(Delta(c, from, rest, vouched))
    BY <2>2, DeltaHas
  <2> QED
    BY <2>2, <2>3 DEF Claim, rest
<1>9. \A v \in Claims(mine) : v[1] \notin taken
  BY <1>6 DEF Paths
<1>10. \A v \in Claims(mine) :
         /\ v[1] \in Path /\ v = Claim(v[1], disk) /\ disk[v[1]] # 0
         /\ v \in mine.written => disk[v[1]] # from[v[1]]
  <2>1. CASE after = disk
    BY <1>5, <1>6, <2>1
  <2>2. CASE after = Nothing
    BY <1>5, <1>6, <2>2 DEF Nothing
  <2> QED
    BY <2>1, <2>2
<1>11. /\ \/ receipts' = Filed(r) /\ claims' = Folded(r) /\ current' = c
             /\ pc' = "book" /\ UNCHANGED pending
          \/ pending' = pending \ {c} /\ UNCHANGED <<receipts, claims, current, pc>>
       /\ after = disk \/ "snapshot" \in Failing
  BY <1>1
<1>12. lost \subseteq taken
  OBVIOUS
<1> HIDE DEF mine, lost, window, from, taken
<1>13. r \in Receipts
  BY <1>2, <1>4, <1>7, ReceiptType
<1>14. /\ r.id = NextSequence /\ r.command = c /\ r.excluded = lost
       /\ Claims(r) = Claims(mine) /\ r.written = mine.written
  BY DEF Receipt, Claims
<1>15. mine.written \subseteq Claims(mine)
  BY DEF Claims
<1> HIDE DEF r
<1> QED
  BY <1>8, <1>9, <1>10, <1>11, <1>12, <1>13, <1>14, <1>15 DEF from, taken

LEMMA TypeInit == Init => TypeInv
<1> SUFFICES ASSUME Init PROVE TypeInv
  OBVIOUS
<1>1. ledger \in [Command -> Obligations] /\ records \in [Command -> Obligations]
  BY EmptyBooks DEF Init
<1>2. disk \in [Path -> Nat] /\ written \in [Path -> Nat] /\ before \in [Path -> Nat]
  BY NothingType DEF Init
<1>3. /\ writer \in [Path -> Command \cup {NoCommand}]
      /\ proc \in [Command -> {"none", "running", "exited", "vanished"}]
  BY DEF Init
<1> QED
  BY <1>1, <1>2, <1>3 DEF Init, TypeInv, TypeOK

LEMMA TypeStep ==
    ASSUME TypeInv, [Next]_vars
    PROVE  TypeInv'
<1> USE DEF TypeInv, TypeOK, environment, hold, settlement, process, bounds
<1>1. ASSUME NEW c \in Command, Dispatch(c) PROVE TypeInv'
  <2>1. before' \in [Path -> Nat] /\ failures' \in Nat
    BY <1>1, NothingType DEF Dispatch, Snapshot, Fails
  <2> QED
    BY <1>1, <2>1 DEF Dispatch
<1>2. ASSUME NEW c \in Command, DispatchFails(c) PROVE TypeInv'
  BY <1>2 DEF DispatchFails, Fails
<1>3. ASSUME PollExitFile \/ PollProcess PROVE TypeInv'
  BY <1>3 DEF PollExitFile, PollProcess
<1>4. ASSUME HandOff PROVE TypeInv'
  <2>1. current \in Command
    BY <1>4 DEF HandOff
  <2> DEFINE owed == [state |-> "open", before |-> before, sequence |-> NextSequence,
                      receipt |-> 0]
  <2>2. owed \in Obligations /\ NextSequence \in Nat
    BY DEF Obligations, NextSequence
  <2>3. ledger' \in [Command -> Obligations] /\ failures' \in Nat
    BY <1>4, <2>1, <2>2 DEF HandOff, Fails
  <2> QED
    BY <1>4, <2>2, <2>3, NothingType DEF HandOff
<1>5. ASSUME Record PROVE TypeInv'
  <2>1. current \in Command /\ NextSequence \in Nat
    BY <1>5 DEF Record, NextSequence
  <2>2. receipts' \subseteq Receipts
    BY <1>5, RecordFiles, FiledType
  <2>3. failures' \in Nat
    BY <1>5 DEF Record, Fails
  <2> QED
    BY <1>5, <2>1, <2>2, <2>3, NothingType DEF Record
<1>6. ASSUME Batch \/ LedgerUnreadable PROVE TypeInv'
  BY <1>6 DEF Batch, LedgerUnreadable, Fails
<1>7. ASSUME Sweep \/ Gate PROVE TypeInv'
  <2>1. PICK who \in {"sweep", "gate"} : BeginSettlement(who)
    BY <1>7 DEF Sweep, Gate
  <2>2. claims' \subseteq [sequence : Nat, paths : SUBSET Path] /\ failures' \in Nat
    BY <2>1, ClaimedType DEF BeginSettlement, Fails
  <2> QED
    BY <2>1, <2>2 DEF BeginSettlement, Open
<1>8. ASSUME NEW c \in Command, SkipUnended(c) PROVE TypeInv'
  BY <1>8 DEF SkipUnended, Fails
<1>9. ASSUME NEW c \in Command, Settle(c) PROVE TypeInv'
  <2>1. NextSequence \in Nat
    BY DEF NextSequence
  <2>2. \/ UNCHANGED <<receipts, claims, current, pc>> /\ pending' = pending \ {c}
        \/ \E r \in Receipts : /\ receipts' = Filed(r) /\ claims' = Folded(r)
                              /\ current' = c /\ pc' = "book" /\ UNCHANGED pending
    BY <1>9, SettleFiles
  <2>3. receipts' \subseteq Receipts
    BY <2>2, FiledType
  <2>4. claims' \subseteq [sequence : Nat, paths : SUBSET Path]
    <3>1. \A r \in Receipts : Claimed({r}) \subseteq [sequence : Nat, paths : SUBSET Path]
      BY ClaimedType
    <3> QED
      BY <2>2, <3>1 DEF Folded
  <2>5. failures' \in Nat
    BY <1>9 DEF Settle, Fails
  <2> QED
    BY <1>9, <2>1, <2>2, <2>3, <2>4, <2>5 DEF Settle
<1>10. ASSUME Book PROVE TypeInv'
  <2>1. current \in Command
    BY <1>10 DEF Book
  <2>2. failures' \in Nat
    BY <1>10 DEF Book, Fails
  <2>3. ledger' \in [Command -> Obligations]
    <3>1. CASE UNCHANGED ledger
      BY <3>1
    <3>2. CASE ledger' = [ledger EXCEPT ![current] =
                            [@ EXCEPT !.state = "settled", !.receipt = sequence]]
      <4>1. [ledger[current] EXCEPT !.state = "settled", !.receipt = sequence] \in Obligations
        BY <2>1, SettledType
      <4> QED
        BY <2>1, <3>2, <4>1
    <3> QED
      BY <1>10, <3>1, <3>2 DEF Book
  <2> QED
    BY <1>10, <2>1, <2>2, <2>3 DEF Book
<1>11. ASSUME EndSettlement PROVE TypeInv'
  <2>1. announced' \subseteq Command \X Nat
    BY <1>11 DEF EndSettlement, Announcements, Obligations
  <2>2. records' \in [Command -> Obligations]
    BY <1>11, NoObligationType DEF EndSettlement
  <2>3. failures' \in Nat
    BY <1>11 DEF EndSettlement, Fails
  <2> QED
    BY <1>11, <2>1, <2>2, <2>3 DEF EndSettlement
<1>12. ASSUME NEW c \in Command, Writes(c) PROVE TypeInv'
  BY <1>12, ScopeAssumption DEF Writes
<1>13. ASSUME NEW c \in Command, Ends(c) PROVE TypeInv'
  BY <1>13 DEF Ends
<1>14. ASSUME Restart PROVE TypeInv'
  <2>1. records' \in [Command -> Obligations]
    BY <1>14, EmptyBooks DEF Restart
  <2>2. /\ before' \in [Path -> Nat] /\ pending' \subseteq Command
        /\ claims' \subseteq [sequence : Nat, paths : SUBSET Path]
    BY <1>14, NothingType DEF Restart
  <2>3. settled' \subseteq Command \X Nat /\ announced' \subseteq Command \X Nat
    BY <1>14 DEF Restart
  <2>4. pc' = "idle" /\ current' = NoCommand /\ settler' = "none"
    BY <1>14 DEF Restart
  <2>6. sequence' \in Nat /\ failures' \in Nat
    BY <1>14 DEF Restart, Fails
  <2>7. crashed' \in BOOLEAN /\ alone' \in BOOLEAN
    BY <1>14 DEF Restart
  <2>5. UNCHANGED <<disk, written, writer, proc, receipts, ledger>>
    BY <1>14 DEF Restart
  <2> QED
    BY <2>1, <2>2, <2>3, <2>4, <2>5, <2>6, <2>7
<1>15. CASE UNCHANGED vars
  BY <1>15 DEF vars
<1> QED
  BY <1>1, <1>2, <1>3, <1>4, <1>5, <1>6, <1>7, <1>8, <1>9, <1>10, <1>11, <1>12, <1>13,
     <1>14, <1>15 DEF Next, Engine, Hold, Settlement

\* Every variable of the ledger keeps its type.
THEOREM TypeCorrect == Spec => []TypeOK
<1>1. TypeInv => TypeOK
  BY DEF TypeInv
<1> QED
  BY <1>1, TypeInit, TypeStep, PTL DEF Spec

-----------------------------------------------------------------------------
(* What is counted as written, no earlier receipt has claimed.                *)
(*                                                                           *)
(* A receipt claims what is on disk when it is filed, so the question is     *)
(* which receipts may hold a claim of what is on disk now.  For the call     *)
(* that is being held there is none but of what it found when it was         *)
(* dispatched, in the same bytes; for an open obligation those, and the ones *)
(* of receipts written since, which the settlement takes out.  Both facts    *)
(* are kept by a command's writes because each writing is another one: what  *)
(* it leaves nobody has claimed yet, whether or not the bytes are new.       *)

\* Receipts have the ordinals used so far, one each, and claim writings that were.
ReceiptsNumbered ==
    /\ \A r \in receipts : r.id <= sequence
    /\ \A r, s \in receipts : r.id = s.id => r = s
    /\ \A r \in receipts : \A v \in Claims(r) : v[2] # 0 /\ v[3] <= written[v[1]]

\* What is on disk and claimed was there when the held call was dispatched.
HeldWindowFree ==
    pc \in {"poll", "kill0", "record"} =>
        \A r \in receipts : \A p \in Path :
            Claim(p, disk) \in Claims(r) => before[p] = disk[p]

\* What is on disk and claimed was there when the job was dispatched, or its
\* receipt was written after.
OpenWindowFree ==
    \A c \in Command : ledger[c].state = "open" =>
        /\ ledger[c].sequence <= sequence
        /\ \A r \in receipts : \A p \in Path : Claim(p, disk) \in Claims(r) =>
               r.id > ledger[c].sequence \/ ledger[c].before[p] = disk[p]

\* What the settler read is still so.
SettlerKnows ==
    pc \in {"settle", "book"} =>
        /\ claims = Claimed(receipts)
        /\ \A c \in pending : records[c] = ledger[c] /\ ledger[c].state = "open"

OnceWritten == \A r, s \in receipts : r.id < s.id => Claims(r) \cap s.written = {}

ClaimInv ==
    /\ TypeInv
    /\ alone => /\ ReceiptsNumbered /\ HeldWindowFree /\ OpenWindowFree
                /\ SettlerKnows /\ OnceWritten

\* The claims of a receipt are versions.
LEMMA ClaimsType ==
    ASSUME NEW r \in Receipts
    PROVE  \A v \in Claims(r) : v[1] \in Path /\ v[2] \in Nat /\ v[3] \in Nat
BY DEF Receipts, Claims

LEMMA TakenByLater ==
    ASSUME NEW s \in receipts, NEW v \in Claims(s), NEW n \in Nat, s.id > n
    PROVE  v[1] \in Intervening(Claimed(receipts), n)
<1> DEFINE row == [sequence |-> s.id, paths |-> Paths(s)]
<1>1. row \in Claimed(receipts)
  BY DEF Claimed
<1>2. row.sequence > n /\ v[1] \in row.paths
  BY DEF Paths
<1> HIDE DEF row
<1> QED
  BY <1>1, <1>2 DEF Intervening

LEMMA FiledIsUnion ==
    ASSUME ReceiptsNumbered, receipts \subseteq Receipts, sequence \in Nat,
           NEW r, r.id = NextSequence
    PROVE  Filed(r) = receipts \cup {r}
BY DEF Filed, ReceiptsNumbered, Receipts, NextSequence

LEMMA ClaimedOfUnion ==
    ASSUME NEW A, NEW B
    PROVE  Claimed(A \cup B) = Claimed(A) \cup Claimed(B)
BY DEF Claimed

\* A receipt under the next ordinal that claims what is on disk, and counts nothing as
\* written that is claimed yet, keeps what is said of receipts and of open obligations.
LEMMA NewReceipt ==
    ASSUME TypeInv, ReceiptsNumbered, OpenWindowFree, OnceWritten,
           NEW r \in Receipts, r.id = NextSequence,
           \A v \in Claims(r) : v[1] \in Path /\ v = Claim(v[1], disk) /\ disk[v[1]] # 0,
           \A s \in receipts : Claims(s) \cap r.written = {},
           receipts' = Filed(r), sequence' = NextSequence,
           UNCHANGED <<disk, written, ledger>>
    PROVE  (ReceiptsNumbered /\ OpenWindowFree /\ OnceWritten)'
<1>1. receipts' = receipts \cup {r}
  BY FiledIsUnion DEF TypeInv, TypeOK
<1>2. /\ sequence \in Nat /\ sequence' = sequence + 1 /\ r.id = sequence + 1
      /\ \A s \in receipts : s.id \in Nat /\ s.id <= sequence
  BY DEF NextSequence, TypeInv, TypeOK, Receipts, ReceiptsNumbered
<1>3. ReceiptsNumbered'
  <2>1. \A s \in receipts' : s.id <= sequence'
    BY <1>1, <1>2
  <2>2. \A s, t \in receipts' : s.id = t.id => s = t
    BY <1>1, <1>2 DEF ReceiptsNumbered
  <2>3. \A v \in Claims(r) : v[2] # 0 /\ v[3] <= written[v[1]]
    <3> SUFFICES ASSUME NEW v \in Claims(r) PROVE v[2] # 0 /\ v[3] <= written[v[1]]
      OBVIOUS
    <3>1. v[1] \in Path /\ v[2] = disk[v[1]] /\ v[3] = written[v[1]] /\ disk[v[1]] # 0
      BY DEF Claim
    <3>2. written[v[1]] \in Nat
      BY <3>1 DEF TypeInv, TypeOK
    <3> QED
      BY <3>1, <3>2
  <2>4. \A s \in receipts' : \A v \in Claims(s) : v[2] # 0 /\ v[3] <= written'[v[1]]
    BY <1>1, <2>3 DEF ReceiptsNumbered
  <2> QED
    BY <2>1, <2>2, <2>4 DEF ReceiptsNumbered
<1>4. OpenWindowFree'
  <2> SUFFICES ASSUME NEW c \in Command, ledger[c].state = "open"
               PROVE  /\ ledger[c].sequence <= sequence'
                      /\ \A s \in receipts' : \A p \in Path : Claim(p, disk) \in Claims(s) =>
                           s.id > ledger[c].sequence \/ ledger[c].before[p] = disk[p]
    BY DEF OpenWindowFree, Claim
  <2>1. ledger[c].sequence <= sequence /\ ledger[c].sequence \in Nat
    BY DEF OpenWindowFree, TypeInv, TypeOK, Obligations
  <2> QED
    BY <1>1, <1>2, <2>1 DEF OpenWindowFree
<1>5. OnceWritten'
  <2> SUFFICES ASSUME NEW s \in receipts', NEW t \in receipts', s.id < t.id
               PROVE  Claims(s) \cap t.written = {}
    BY DEF OnceWritten
  <2>1. s \in receipts
    BY <1>1, <1>2
  <2>2. CASE t \in receipts
    BY <2>1, <2>2 DEF OnceWritten
  <2>3. CASE t = r
    BY <2>1, <2>3
  <2> QED
    BY <1>1, <2>2, <2>3
<1> QED
  BY <1>3, <1>4, <1>5

\* A write leaves another writing of one report, or no report.
LEMMA WriteEffect ==
    ASSUME TypeInv, NEW c \in Command, Writes(c)
    PROVE  \E p \in Scope[c] :
             /\ p \in Path
             /\ \A q \in Path : q # p => /\ disk'[q] = disk[q] /\ written'[q] = written[q]
                                       /\ writer'[q] = writer[q]
             /\ \/ written'[p] = written[p] + 1 /\ writer'[p] = c
                \/ written'[p] = written[p] /\ disk'[p] = 0 /\ writer'[p] = NoCommand
<1>1. PICK p \in Scope[c] :
        \/ /\ written' = [written EXCEPT ![p] = @ + 1]
           /\ \E content \in 1..written'[p] : disk' = [disk EXCEPT ![p] = content]
           /\ writer' = [writer EXCEPT ![p] = c]
        \/ /\ disk' = [disk EXCEPT ![p] = 0]
           /\ writer' = [writer EXCEPT ![p] = NoCommand]
           /\ UNCHANGED written
  BY DEF Writes
<1>2. /\ p \in Path /\ disk \in [Path -> Nat] /\ written \in [Path -> Nat]
      /\ writer \in [Path -> Command \cup {NoCommand}]
  BY ScopeAssumption DEF TypeInv, TypeOK
<1> QED
  BY <1>1, <1>2

\* What is on disk after a write and claimed, was there before it.
LEMMA WritesAreNew ==
    ASSUME TypeInv, ReceiptsNumbered, NEW c \in Command, Writes(c),
           NEW r \in receipts, NEW q \in Path, Claim(q, disk)' \in Claims(r)
    PROVE  disk'[q] = disk[q] /\ Claim(q, disk)' = Claim(q, disk)
<1>1. PICK p \in Scope[c] :
        /\ p \in Path
        /\ \A o \in Path : o # p => disk'[o] = disk[o] /\ written'[o] = written[o]
        /\ written'[p] = written[p] + 1 \/ disk'[p] = 0
  BY WriteEffect
<1>2. disk'[q] # 0 /\ written'[q] <= written[q] /\ written[q] \in Nat
  <2> DEFINE v == Claim(q, disk)'
  <2>1. v[1] = q /\ v[2] = disk'[q] /\ v[3] = written'[q]
    BY DEF Claim
  <2>2. v[2] # 0 /\ v[3] <= written[v[1]]
    BY DEF ReceiptsNumbered
  <2> HIDE DEF v
  <2> QED
    BY <2>1, <2>2 DEF TypeInv, TypeOK
<1>3. q # p
  BY <1>1, <1>2
<1> QED
  BY <1>1, <1>3 DEF Claim

LEMMA WritesStep ==
    ASSUME ClaimInv, alone, NEW c \in Command, Writes(c)
    PROVE  /\ (ReceiptsNumbered /\ HeldWindowFree)'
           /\ (OpenWindowFree /\ SettlerKnows /\ OnceWritten)'
<1>1. /\ UNCHANGED <<receipts, ledger, pc, before, records, pending, claims, sequence>>
      /\ TypeInv /\ ReceiptsNumbered /\ HeldWindowFree /\ OpenWindowFree
      /\ SettlerKnows /\ OnceWritten
  BY DEF Writes, hold, settlement, process, ClaimInv
<1>2. \A r \in receipts : \A q \in Path :
        Claim(q, disk)' \in Claims(r) => disk'[q] = disk[q] /\ Claim(q, disk) \in Claims(r)
  BY <1>1, WritesAreNew
<1>3. \A q \in Path : written[q] \in Nat /\ written'[q] \in Nat /\ written[q] <= written'[q]
  <2>1. \A q \in Path : written'[q] = written[q] \/ written'[q] = written[q] + 1
    BY <1>1, WriteEffect
  <2> QED
    BY <1>1, <2>1 DEF TypeInv, TypeOK
<1>4. ReceiptsNumbered'
  <2>1. \A r \in receipts : r \in Receipts
    BY <1>1 DEF TypeInv, TypeOK
  <2>2. \A r \in receipts : \A v \in Claims(r) : v[2] # 0 /\ v[3] <= written'[v[1]]
    <3> SUFFICES ASSUME NEW r \in receipts, NEW v \in Claims(r)
                 PROVE  v[2] # 0 /\ v[3] <= written'[v[1]]
      OBVIOUS
    <3>1. v[2] # 0 /\ v[3] <= written[v[1]]
      BY <1>1 DEF ReceiptsNumbered
    <3>2. v[1] \in Path /\ v[3] \in Nat
      BY <2>1, ClaimsType
    <3> QED
      BY <1>3, <3>1, <3>2
  <2> QED
    BY <1>1, <2>2 DEF ReceiptsNumbered
<1>5. HeldWindowFree'
  BY <1>1, <1>2 DEF HeldWindowFree
<1>6. OpenWindowFree'
  BY <1>1, <1>2 DEF OpenWindowFree
<1>7. SettlerKnows'
  <2>1. Claimed(receipts)' = Claimed(receipts)
    BY <1>1 DEF Claimed
  <2> QED
    BY <1>1, <2>1 DEF SettlerKnows
<1>8. OnceWritten'
  BY <1>1 DEF OnceWritten
<1> QED
  BY <1>4, <1>5, <1>6, <1>7, <1>8

\* The ordinals go on: what is said of receipts and open obligations stays so.
LEMMA OrdinalKept ==
    ASSUME TypeInv, ReceiptsNumbered, OpenWindowFree, OnceWritten,
           sequence' = NextSequence, UNCHANGED <<disk, written, receipts, ledger>>
    PROVE  (ReceiptsNumbered /\ OpenWindowFree /\ OnceWritten)'
<1>1. /\ sequence \in Nat /\ sequence' = sequence + 1
      /\ \A s \in receipts : s.id \in Nat
      /\ \A c \in Command : ledger[c].sequence \in Nat
  BY DEF NextSequence, TypeInv, TypeOK, Receipts, Obligations
<1>2. ReceiptsNumbered'
  BY <1>1 DEF ReceiptsNumbered
<1>3. OpenWindowFree'
  BY <1>1 DEF OpenWindowFree, Claim
<1> QED
  BY <1>2, <1>3 DEF OnceWritten

\* The receipt of a call that saw its command end.
LEMMA RecordStep ==
    ASSUME ClaimInv, alone, Record
    PROVE  /\ (ReceiptsNumbered /\ HeldWindowFree)'
           /\ (OpenWindowFree /\ SettlerKnows /\ OnceWritten)'
<1>1. /\ TypeInv /\ ReceiptsNumbered /\ HeldWindowFree /\ OpenWindowFree
      /\ SettlerKnows /\ OnceWritten
  BY DEF ClaimInv
<1>2. /\ pc = "record" /\ pc' = "batch" /\ sequence' = NextSequence
      /\ UNCHANGED <<disk, written, ledger>>
  BY DEF Record, environment
<1>3. HeldWindowFree' /\ SettlerKnows'
  BY <1>2 DEF HeldWindowFree, SettlerKnows
<1>4. CASE UNCHANGED receipts
  BY <1>1, <1>2, <1>3, <1>4, OrdinalKept
<1>5. ASSUME NEW r \in Receipts, r.id = NextSequence, receipts' = Filed(r),
             \A v \in Claims(r) : v[1] \in Path /\ v = Claim(v[1], disk) /\ disk[v[1]] # 0,
             \A v \in r.written : disk[v[1]] # before[v[1]]
      PROVE  (ReceiptsNumbered /\ OpenWindowFree /\ OnceWritten)'
  <2>1. \A s \in receipts : Claims(s) \cap r.written = {}
    <3> SUFFICES ASSUME NEW s \in receipts, NEW v \in r.written, v \in Claims(s)
                 PROVE  FALSE
      OBVIOUS
    <3>1. v[1] \in Path /\ Claim(v[1], disk) \in Claims(s)
      BY <1>5 DEF Claims
    <3>2. before[v[1]] = disk[v[1]]
      BY <1>1, <1>2, <3>1 DEF HeldWindowFree
    <3> QED
      BY <1>5, <3>2
  <2> QED
    BY <1>1, <1>2, <1>5, <2>1, NewReceipt
<1> QED
  BY <1>1, <1>3, <1>4, <1>5, RecordFiles

\* The receipt of a settlement: what was claimed since the dispatch is left out.
LEMMA SettleStep ==
    ASSUME ClaimInv, alone, NEW c \in Command, Settle(c)
    PROVE  /\ (ReceiptsNumbered /\ HeldWindowFree)'
           /\ (OpenWindowFree /\ SettlerKnows /\ OnceWritten)'
<1>1. /\ TypeInv /\ ReceiptsNumbered /\ HeldWindowFree /\ OpenWindowFree
      /\ SettlerKnows /\ OnceWritten
  BY DEF ClaimInv
<1>2. /\ pc = "settle" /\ c \in pending /\ pc' \in {"settle", "book"}
      /\ sequence' = NextSequence /\ UNCHANGED <<disk, written, ledger, records>>
  BY DEF Settle, environment
<1>3. HeldWindowFree'
  BY <1>2 DEF HeldWindowFree
<1>4. /\ records[c] = ledger[c] /\ ledger[c].state = "open" /\ claims = Claimed(receipts)
      /\ ledger[c].sequence \in Nat
  BY <1>1, <1>2 DEF SettlerKnows, TypeInv, TypeOK, Obligations
<1>5. CASE UNCHANGED <<receipts, claims, current, pc>> /\ pending' = pending \ {c}
  <2>1. Claimed(receipts)' = Claimed(receipts)
    BY <1>5 DEF Claimed
  <2>2. SettlerKnows'
    BY <1>1, <1>2, <1>5, <2>1 DEF SettlerKnows
  <2> QED
    BY <1>1, <1>2, <1>3, <1>5, <2>2, OrdinalKept
<1>6. ASSUME NEW r \in Receipts, r.id = NextSequence, receipts' = Filed(r),
             claims' = Folded(r), UNCHANGED pending,
             \A v \in Claims(r) :
               /\ v[1] \in Path /\ v = Claim(v[1], disk) /\ disk[v[1]] # 0
               /\ v[1] \notin Intervening(claims, records[c].sequence),
             \A v \in r.written : disk[v[1]] # records[c].before[v[1]]
      PROVE  (ReceiptsNumbered /\ OpenWindowFree /\ SettlerKnows /\ OnceWritten)'
  <2>1. \A s \in receipts : Claims(s) \cap r.written = {}
    <3> SUFFICES ASSUME NEW s \in receipts, NEW v \in r.written, v \in Claims(s)
                 PROVE  FALSE
      OBVIOUS
    <3>1. /\ v[1] \in Path /\ Claim(v[1], disk) \in Claims(s)
          /\ v[1] \notin Intervening(Claimed(receipts), ledger[c].sequence)
      BY <1>4, <1>6 DEF Claims
    <3>2. s.id > ledger[c].sequence \/ ledger[c].before[v[1]] = disk[v[1]]
      BY <1>1, <1>4, <3>1 DEF OpenWindowFree
    <3>3. s.id > ledger[c].sequence
      BY <1>4, <1>6, <3>2
    <3> QED
      BY <1>4, <3>1, <3>3, TakenByLater
  <2>2. (ReceiptsNumbered /\ OpenWindowFree /\ OnceWritten)'
    BY <1>1, <1>2, <1>6, <2>1, NewReceipt
  <2>3. receipts' = receipts \cup {r}
    BY <1>1, <1>6, FiledIsUnion DEF TypeInv, TypeOK
  <2>4. claims' = Claimed(receipts \cup {r})
    BY <1>4, <1>6, ClaimedOfUnion DEF Folded
  <2>5. Claimed(receipts)' = Claimed(receipts')
    BY DEF Claimed
  <2>6. SettlerKnows'
    BY <1>1, <1>2, <1>6, <2>3, <2>4, <2>5 DEF SettlerKnows
  <2> QED
    BY <2>2, <2>6
<1> QED
  BY <1>1, <1>3, <1>5, <1>6, SettleFiles

LEMMA HandOffStep ==
    ASSUME ClaimInv, alone, HandOff
    PROVE  /\ (ReceiptsNumbered /\ HeldWindowFree)'
           /\ (OpenWindowFree /\ SettlerKnows /\ OnceWritten)'
<1>1. /\ TypeInv /\ ReceiptsNumbered /\ HeldWindowFree /\ OpenWindowFree
      /\ SettlerKnows /\ OnceWritten
  BY DEF ClaimInv
<1> DEFINE owed == [state |-> "open", before |-> before, sequence |-> NextSequence,
                    receipt |-> 0]
<1>2. /\ pc \in {"poll", "kill0"} /\ pc' = "batch" /\ current \in Command
      /\ sequence' = sequence + 1 /\ NextSequence = sequence + 1
      /\ UNCHANGED <<disk, written, receipts>>
      /\ ledger' = [ledger EXCEPT ![current] = owed] \/ UNCHANGED ledger
  BY <1>1 DEF HandOff, environment, TypeInv, TypeOK, NextSequence
<1>3. sequence \in Nat /\ \A s \in receipts : s.id \in Nat
  BY <1>1 DEF TypeInv, TypeOK, Receipts
<1>4. ReceiptsNumbered'
  BY <1>1, <1>2, <1>3 DEF ReceiptsNumbered
<1>5. HeldWindowFree' /\ SettlerKnows'
  BY <1>2 DEF HeldWindowFree, SettlerKnows
<1>6. OpenWindowFree'
  <2> SUFFICES ASSUME NEW c \in Command, ledger'[c].state = "open"
               PROVE  /\ ledger'[c].sequence <= sequence'
                      /\ \A s \in receipts : \A p \in Path : Claim(p, disk) \in Claims(s) =>
                           s.id > ledger'[c].sequence \/ ledger'[c].before[p] = disk[p]
    BY <1>2 DEF OpenWindowFree, Claim
  <2>1. CASE ledger'[c] = owed
    BY <1>1, <1>2, <1>3, <2>1 DEF HeldWindowFree
  <2>2. CASE ledger'[c] = ledger[c]
    <3>1. ledger[c].sequence \in Nat
      BY <1>1 DEF TypeInv, TypeOK, Obligations
    <3> QED
      BY <1>1, <1>2, <1>3, <2>2, <3>1 DEF OpenWindowFree
  <2>3. ledger'[c] \in {owed, ledger[c]}
    BY <1>1, <1>2 DEF TypeInv, TypeOK
  <2> QED
    BY <2>1, <2>2, <2>3
<1> QED
  BY <1>1, <1>2, <1>4, <1>5, <1>6 DEF OnceWritten

LEMMA ClaimInit == Init => ClaimInv
BY TypeInit
   DEF Init, ClaimInv, ReceiptsNumbered, HeldWindowFree, OpenWindowFree,
       SettlerKnows, OnceWritten, NoObligation, Nothing

LEMMA ClaimStep ==
    ASSUME Reliable, ClaimInv, [Next]_vars
    PROVE  ClaimInv'
<1> SUFFICES ASSUME alone'
             PROVE  /\ (ReceiptsNumbered /\ HeldWindowFree)'
                    /\ (OpenWindowFree /\ SettlerKnows /\ OnceWritten)'
  BY TypeStep DEF ClaimInv
<1> USE DEF environment, hold, settlement, process, bounds
<1> DEFINE Kept == UNCHANGED <<disk, written, receipts, ledger, sequence>>
           Goal == /\ (ReceiptsNumbered /\ HeldWindowFree)'
                   /\ (OpenWindowFree /\ SettlerKnows /\ OnceWritten)'
<1>1. CASE ~alone
  BY <1>1 DEF Next, Engine, Hold, Settlement, vars, Dispatch, DispatchFails, PollExitFile,
     PollProcess, HandOff, Record, Batch, Sweep, Gate, BeginSettlement, LedgerUnreadable,
     SkipUnended, Settle, Book, EndSettlement, Writes, Ends, Restart
<1>2. CASE alone
  <2>1. /\ TypeInv /\ ReceiptsNumbered /\ HeldWindowFree /\ OpenWindowFree
        /\ SettlerKnows /\ OnceWritten
    BY <1>2 DEF ClaimInv
  <2>2. Kept => (ReceiptsNumbered /\ OpenWindowFree /\ OnceWritten)'
    BY <2>1 DEF ReceiptsNumbered, OpenWindowFree, OnceWritten, Claim
  <2>3. UNCHANGED receipts => Claimed(receipts)' = Claimed(receipts)
    BY DEF Claimed
  <2>4. ASSUME NEW c \in Command, Dispatch(c) PROVE Goal
    <3>1. Kept /\ before' = disk /\ pc' = "poll"
      BY <2>4 DEF Dispatch, Snapshot, Reliable, Fails
    <3> QED
      BY <2>2, <3>1 DEF HeldWindowFree, SettlerKnows, Claim
  <2>5. ASSUME NEW c \in Command, DispatchFails(c) PROVE Goal
    <3>1. Kept /\ before' = disk /\ pc' = "record"
      BY <2>5 DEF DispatchFails
    <3> QED
      BY <2>2, <3>1 DEF HeldWindowFree, SettlerKnows, Claim
  <2>6. CASE PollExitFile \/ PollProcess
    <3>1. /\ Kept /\ UNCHANGED before /\ pc \in {"poll", "kill0"}
          /\ pc' \in {"poll", "kill0", "record"}
      BY <2>6 DEF PollExitFile, PollProcess
    <3> QED
      BY <2>1, <2>2, <3>1 DEF HeldWindowFree, SettlerKnows, Claim
  <2>7. CASE HandOff
    BY <1>2, <2>7, HandOffStep
  <2>8. CASE Record
    BY <1>2, <2>8, RecordStep
  <2>9. CASE Batch \/ LedgerUnreadable \/ EndSettlement
    <3>1. Kept /\ pc' \in {"batch", "idle"}
      BY <2>9 DEF Batch, LedgerUnreadable, EndSettlement
    <3> QED
      BY <2>2, <3>1 DEF HeldWindowFree, SettlerKnows, Claim
  <2>10. CASE Sweep \/ Gate
    <3>1. /\ Kept /\ pc' = "settle" /\ claims' = Claimed(receipts)
          /\ records' = ledger /\ pending' = Open(ledger)
      BY <2>10 DEF Sweep, Gate, BeginSettlement, Reliable, Fails
    <3>2. SettlerKnows'
      BY <2>3, <3>1 DEF SettlerKnows, Open
    <3> QED
      BY <2>2, <3>1, <3>2 DEF HeldWindowFree, Claim
  <2>11. ASSUME NEW c \in Command, SkipUnended(c) PROVE Goal
    <3>1. /\ Kept /\ pc = "settle" /\ pc' = "settle" /\ pending' = pending \ {c}
          /\ UNCHANGED <<records, claims>>
      BY <2>11 DEF SkipUnended
    <3> QED
      BY <2>1, <2>2, <2>3, <3>1 DEF HeldWindowFree, SettlerKnows, Claim
  <2>12. ASSUME NEW c \in Command, Settle(c) PROVE Goal
    BY <1>2, <2>12, SettleStep
  <2>13. CASE Book
    <3>1. /\ pc = "book" /\ pc' = "settle" /\ pending' = pending \ {current}
          /\ current \in Command
          /\ UNCHANGED <<disk, written, receipts, sequence, records, claims>>
      BY <2>1, <2>13 DEF Book, TypeInv
    <3>2. \A c \in Command : c # current => ledger'[c] = ledger[c]
      BY <2>1, <2>13 DEF Book, TypeInv, TypeOK
    <3>3. ledger'[current] = ledger[current] \/ ledger'[current].state = "settled"
      <4>1. CASE UNCHANGED ledger
        BY <4>1
      <4>2. CASE ledger' = [ledger EXCEPT ![current] =
                               [@ EXCEPT !.state = "settled", !.receipt = sequence]]
        BY <2>1, <3>1, <4>2 DEF TypeInv, TypeOK, Obligations
      <4> QED
        BY <2>13, <4>1, <4>2 DEF Book
    <3>4. OpenWindowFree'
      BY <2>1, <3>1, <3>2, <3>3 DEF OpenWindowFree, Claim
    <3>5. SettlerKnows'
      BY <2>1, <2>3, <3>1, <3>2 DEF SettlerKnows, TypeInv, TypeOK
    <3> QED
      BY <2>1, <3>1, <3>4, <3>5 DEF ReceiptsNumbered, OnceWritten, HeldWindowFree
  <2>14. ASSUME NEW c \in Command, Writes(c) PROVE Goal
    BY <1>2, <2>14, WritesStep
  <2>15. ASSUME (\E c \in Command : Ends(c)) \/ UNCHANGED vars PROVE Goal
    <3>1. Kept /\ UNCHANGED <<pc, before, records, pending, claims>>
      BY <2>15 DEF Ends, vars
    <3> QED
      BY <2>1, <2>2, <2>3, <3>1 DEF HeldWindowFree, SettlerKnows, Claim
  <2>16. ~Restart
    BY DEF Restart
  <2> QED
    BY <2>4, <2>5, <2>6, <2>7, <2>8, <2>9, <2>10, <2>11, <2>12, <2>13, <2>14, <2>15, <2>16
       DEF Next, Engine, Hold, Settlement
<1> QED
  BY <1>1, <1>2

\* What a receipt of the first process in a container counts as written, no earlier one has
\* claimed, as written or as vouched for, for any number of commands, overlaps, reports
\* taken from caches, retries and failed writes.
THEOREM ClaimedOnce ==
    ASSUME Reliable
    PROVE  Spec => []WrittenOnce
<1>1. ClaimInv => WrittenOnce
  BY DEF ClaimInv, OnceWritten, WrittenOnce
<1>2. ClaimInv /\ [Next]_vars => ClaimInv'
  BY ClaimStep
<1> QED
  BY <1>1, <1>2, ClaimInit, PTL DEF Spec

-----------------------------------------------------------------------------
(* The ledger keeps the promise of JobPool. *)

Stages == [c \in Command |-> PoolStage(c)]
Counted == UNION {{r.command} \X r.written : r \in receipts}
Vouched == UNION {{r.command} \X r.cached : r \in receipts}

\* The engine's own place says which command is between its books.
PlaceTold ==
    /\ pc \in {"idle", "batch", "settle"} => current = NoCommand
    /\ pc \in {"poll", "kill0", "record"} =>
          proc[current] # "none" /\ ledger[current].state = "none"
    /\ pc = "book" => ledger[current].state = "open"
    /\ \A c \in Command : ledger[c].state # "none" => proc[c] # "none"

PoolInv == ClaimInv /\ (alone => PlaceTold)

LEMMA PlaceInit == Init => PlaceTold
BY DEF Init, PlaceTold, NoObligation

LEMMA PlaceStep ==
    ASSUME ClaimInv, PlaceTold, alone, alone', [Next]_vars
    PROVE  PlaceTold'
<1> USE DEF environment, hold, settlement, process, bounds
<1>1. /\ proc \in [Command -> {"none", "running", "exited", "vanished"}]
      /\ ledger \in [Command -> Obligations] /\ NoCommand \notin Command
      /\ pc \in {"poll", "kill0", "record", "book"} => current \in Command
  BY NoCommandAssumption DEF ClaimInv, TypeInv, TypeOK
<1>2. ASSUME NEW c \in Command, Dispatch(c) \/ DispatchFails(c) PROVE PlaceTold'
  <2>1. /\ proc[c] = "none" /\ current' = c /\ pc' \in {"poll", "record"}
        /\ \E p \in {"running", "vanished"} : proc' = [proc EXCEPT ![c] = p]
        /\ UNCHANGED ledger
    BY <1>2 DEF Dispatch, DispatchFails
  <2>2. ledger[c].state = "none"
    BY <2>1 DEF PlaceTold
  <2> QED
    BY <1>1, <2>1, <2>2 DEF PlaceTold
<1>3. CASE PollExitFile \/ PollProcess
  BY <1>3 DEF PollExitFile, PollProcess, PlaceTold
<1>4. CASE HandOff
  <2>1. /\ pc \in {"poll", "kill0"} /\ pc' = "batch" /\ current' = NoCommand
        /\ UNCHANGED proc
        /\ \A c \in Command : c # current => ledger'[c] = ledger[c]
    BY <1>1, <1>4 DEF HandOff
  <2> QED
    BY <1>1, <2>1 DEF PlaceTold
<1>5. CASE Record
  BY <1>5 DEF Record, PlaceTold
<1>6. CASE Batch \/ Sweep \/ Gate \/ LedgerUnreadable \/ EndSettlement
  BY <1>6 DEF Batch, Sweep, Gate, BeginSettlement, LedgerUnreadable, EndSettlement,
              PlaceTold
<1>7. ASSUME NEW c \in Command, SkipUnended(c) PROVE PlaceTold'
  BY <1>7 DEF SkipUnended, PlaceTold
<1>8. ASSUME NEW c \in Command, Settle(c) PROVE PlaceTold'
  <2>1. /\ pc = "settle" /\ c \in pending /\ UNCHANGED <<proc, ledger>>
        /\ (pc' = "book" /\ current' = c) \/ UNCHANGED <<pc, current>>
    BY <1>8 DEF Settle
  <2>2. ledger[c].state = "open"
    BY <2>1 DEF ClaimInv, SettlerKnows
  <2> QED
    BY <2>1, <2>2 DEF PlaceTold
<1>9. CASE Book
  <2>1. /\ pc = "book" /\ pc' = "settle" /\ current' = NoCommand /\ UNCHANGED proc
        /\ \A c \in Command : c # current => ledger'[c] = ledger[c]
    BY <1>1, <1>9 DEF Book
  <2> QED
    BY <1>1, <2>1 DEF PlaceTold
<1>10. ASSUME NEW c \in Command, Writes(c) \/ Ends(c) PROVE PlaceTold'
  BY <1>1, <1>10 DEF Writes, Ends, PlaceTold
<1>11. CASE UNCHANGED vars
  BY <1>11 DEF vars, PlaceTold
<1>12. ~Restart
  BY DEF Restart
<1> QED
  BY <1>2, <1>3, <1>4, <1>5, <1>6, <1>7, <1>8, <1>9, <1>10, <1>11, <1>12
     DEF Next, Engine, Hold, Settlement

LEMMA PoolInvStep ==
    ASSUME Reliable, PoolInv, [Next]_vars
    PROVE  PoolInv'
<1>1. ClaimInv'
  BY ClaimStep DEF PoolInv
<1>2. alone' => alone
  BY DEF Next, Engine, Hold, Settlement, vars, Dispatch, DispatchFails, PollExitFile,
     PollProcess, HandOff, Record, Batch, Sweep, Gate, BeginSettlement, LedgerUnreadable,
     SkipUnended, Settle, Book, EndSettlement, Writes, Ends, Restart, bounds
<1> QED
  BY <1>1, <1>2, PlaceStep DEF PoolInv

\* A receipt under the next ordinal, which counts nothing that has been claimed: an account.
LEMMA FiledIsAccount ==
    ASSUME PoolInv, alone, NEW r \in Receipts, r.id = NextSequence,
           receipts' = Filed(r), (ReceiptsNumbered /\ OnceWritten)'
    PROVE  /\ Counted \subseteq Counted' /\ Vouched \subseteq Vouched'
           /\ \A x \in Counted' \ Counted :
                /\ x[1] = r.command /\ x[2] \in Version
                /\ \A d \in Command : <<d, x[2]>> \notin Counted \cup Vouched
           /\ \A x \in Vouched' \ Vouched : x[1] = r.command /\ x[2] \in Version
<1>1. receipts' = receipts \cup {r}
  BY FiledIsUnion DEF PoolInv, ClaimInv, TypeInv, TypeOK
<1>2. /\ Counted' = Counted \cup ({r.command} \X r.written)
      /\ Vouched' = Vouched \cup ({r.command} \X r.cached)
  BY <1>1 DEF Counted, Vouched
<1>3. \A s \in receipts : s.id < r.id
  BY DEF PoolInv, ClaimInv, ReceiptsNumbered, NextSequence, TypeInv, TypeOK, Receipts
<1>4. \A s \in receipts : Claims(s) \cap r.written = {}
  BY <1>1, <1>3 DEF OnceWritten
<1>5. r.written \subseteq Version /\ r.cached \subseteq Version
  BY DEF Receipts, Version
<1>6. \A v \in r.written : \A d \in Command : <<d, v>> \notin Counted \cup Vouched
  BY <1>4 DEF Counted, Vouched, Claims
<1> QED
  BY <1>2, <1>5, <1>6

LEMMA PoolInitial == Init => Pool!Init
BY DEF Init, Pool!Init, PoolStage

LEMMA PoolStep ==
    ASSUME Reliable, PoolInv, [Next]_vars
    PROVE  [Pool!Next]_(Pool!vars)
<1> USE DEF environment, hold, settlement, process, bounds
<1>1. /\ proc \in [Command -> {"none", "running", "exited", "vanished"}]
      /\ ledger \in [Command -> Obligations] /\ NoCommand \notin Command
      /\ pc \in {"poll", "kill0", "record", "book"} => current \in Command
  BY NoCommandAssumption DEF PoolInv, ClaimInv, TypeInv, TypeOK
<1>2. CASE ~alone'
  BY <1>2 DEF Pool!Next, Pool!Joined
<1>3. CASE alone'
  <2>1. alone /\ UNCHANGED alone
    BY <1>3 DEF Next, Engine, Hold, Settlement, vars, Dispatch, DispatchFails, PollExitFile,
       PollProcess, HandOff, Record, Batch, Sweep, Gate, BeginSettlement, LedgerUnreadable,
       SkipUnended, Settle, Book, EndSettlement, Writes, Ends, Restart
  <2>2. PlaceTold /\ PlaceTold' /\ ClaimInv /\ ClaimInv'
    BY <1>3, <2>1, PoolInvStep DEF PoolInv
  <2> DEFINE Books == Counted' = Counted /\ Vouched' = Vouched
             Same == Stages' = Stages /\ Books
             Goal == [Pool!Next]_(Pool!vars)
  <2>3. Same => Goal
    BY <2>1 DEF Pool!vars, Stages, Counted, Vouched
  <2>4. ASSUME NEW c \in Command, Stages[c] = "new", Books,
               Stages' = [Stages EXCEPT ![c] = "started"]
        PROVE  Goal
    BY <2>1, <2>4 DEF Pool!Next, Pool!Start, Stages, Counted, Vouched
  <2>5. ASSUME NEW c \in Command, Stages[c] = "started", Books,
               Stages' = [Stages EXCEPT ![c] = "owed"]
        PROVE  Goal
    BY <2>1, <2>5 DEF Pool!Next, Pool!Owe, Stages, Counted, Vouched
  <2>6. ASSUME NEW c \in Command, Stages[c] \in {"started", "owed"}, Books,
               Stages' = [Stages EXCEPT ![c] = "closed"]
        PROVE  Goal
    BY <2>1, <2>6 DEF Pool!Next, Pool!Close, Stages, Counted, Vouched
  <2>7. ASSUME NEW c \in Command, Stages[c] \in {"started", "owed"},
               Stages' \in {Stages, [Stages EXCEPT ![c] = "closed"]},
               Counted \subseteq Counted', Vouched \subseteq Vouched',
               \A x \in Counted' \ Counted :
                 /\ x[1] = c /\ x[2] \in Version
                 /\ \A d \in Command : <<d, x[2]>> \notin Counted \cup Vouched,
               \A x \in Vouched' \ Vouched : x[1] = c /\ x[2] \in Version
        PROVE  Goal
    BY <2>1, <2>7 DEF Pool!Next, Pool!Account, Stages, Counted, Vouched, Version
  <2>b. UNCHANGED receipts => Books
    BY DEF Counted, Vouched
  <2> HIDE DEF Goal, Books
  <2>8. ASSUME NEW c \in Command, Dispatch(c) \/ DispatchFails(c) PROVE Goal
    <3>1. /\ pc = "idle" /\ proc[c] = "none" /\ current' = c
          /\ \E p \in {"running", "vanished"} : proc' = [proc EXCEPT ![c] = p]
          /\ UNCHANGED <<ledger, receipts>>
      BY <2>8 DEF Dispatch, DispatchFails
    <3>2. ledger[c].state = "none" /\ current = NoCommand
      BY <2>2, <3>1 DEF PlaceTold
    <3>3. Stages' = [Stages EXCEPT ![c] = "started"] /\ Stages[c] = "new"
      BY <1>1, <3>1, <3>2 DEF Stages, PoolStage
    <3> QED
      BY <2>4, <2>b, <3>1, <3>3
  <2>9. ASSUME HandOff PROVE Goal
    <3> DEFINE owed == [state |-> "open", before |-> before, sequence |-> NextSequence,
                        receipt |-> 0]
    <3>1. /\ pc \in {"poll", "kill0"} /\ current' = NoCommand /\ current \in Command
          /\ UNCHANGED <<proc, receipts>>
          /\ ledger' = [ledger EXCEPT ![current] = owed] \/ UNCHANGED ledger
      BY <1>1, <2>9 DEF HandOff
    <3>2. proc[current] # "none" /\ ledger[current].state = "none"
      BY <2>2, <3>1 DEF PlaceTold
    <3>3. Stages[current] = "started" /\ Books
      BY <1>1, <2>b, <3>1, <3>2 DEF Stages, PoolStage
    <3>4. CASE ledger' = [ledger EXCEPT ![current] = owed]
      <4>1. Stages' = [Stages EXCEPT ![current] = "owed"]
        BY <1>1, <3>1, <3>2, <3>4 DEF Stages, PoolStage
      <4> QED
        BY <2>5, <3>1, <3>3, <4>1
    <3>5. CASE UNCHANGED ledger
      <4>1. Stages' = [Stages EXCEPT ![current] = "closed"]
        BY <1>1, <3>1, <3>2, <3>5 DEF Stages, PoolStage
      <4> QED
        BY <2>6, <3>1, <3>3, <4>1
    <3> QED
      BY <3>1, <3>4, <3>5
  <2>10. ASSUME Record PROVE Goal
    <3>1. /\ pc = "record" /\ current' = NoCommand /\ current \in Command
          /\ UNCHANGED <<proc, ledger>>
      BY <1>1, <2>10 DEF Record
    <3>2. proc[current] # "none" /\ ledger[current].state = "none"
      BY <2>2, <3>1 DEF PlaceTold
    <3>3. Stages[current] = "started" /\ Stages' = [Stages EXCEPT ![current] = "closed"]
      BY <1>1, <3>1, <3>2 DEF Stages, PoolStage
    <3>4. CASE UNCHANGED receipts
      BY <2>6, <2>b, <3>1, <3>3, <3>4
    <3>5. ASSUME NEW r \in Receipts, r.id = NextSequence, r.command = current,
                 receipts' = Filed(r)
          PROVE  Goal
      <4>1. /\ Counted \subseteq Counted' /\ Vouched \subseteq Vouched'
            /\ \A x \in Counted' \ Counted :
                 /\ x[1] = current /\ x[2] \in Version
                 /\ \A d \in Command : <<d, x[2]>> \notin Counted \cup Vouched
            /\ \A x \in Vouched' \ Vouched : x[1] = current /\ x[2] \in Version
        BY <1>3, <2>1, <2>2, <3>5, FiledIsAccount DEF ClaimInv
      <4> QED
        BY <2>7, <3>1, <3>3, <4>1
    <3> QED
      BY <2>2, <2>10, <3>4, <3>5, RecordFiles DEF ClaimInv
  <2>11. ASSUME NEW c \in Command, Settle(c) PROVE Goal
    <3>1. /\ pc = "settle" /\ c \in pending /\ UNCHANGED <<proc, ledger>>
          /\ current' = c \/ UNCHANGED current
      BY <2>11 DEF Settle
    <3>2. /\ ledger[c].state = "open" /\ proc[c] # "none" /\ current = NoCommand
          /\ records[c] = ledger[c]
      BY <2>1, <2>2, <3>1 DEF PlaceTold, ClaimInv, SettlerKnows
    <3>3. Stages' = Stages /\ Stages[c] = "owed"
      BY <1>1, <3>1, <3>2 DEF Stages, PoolStage
    <3>4. CASE UNCHANGED receipts
      BY <2>3, <2>b, <3>3, <3>4
    <3>5. ASSUME NEW r \in Receipts, r.id = NextSequence, r.command = c,
                 receipts' = Filed(r)
          PROVE  Goal
      <4>1. /\ Counted \subseteq Counted' /\ Vouched \subseteq Vouched'
            /\ \A x \in Counted' \ Counted :
                 /\ x[1] = c /\ x[2] \in Version
                 /\ \A d \in Command : <<d, x[2]>> \notin Counted \cup Vouched
            /\ \A x \in Vouched' \ Vouched : x[1] = c /\ x[2] \in Version
        BY <1>3, <2>1, <2>2, <3>5, FiledIsAccount DEF ClaimInv
      <4> QED
        BY <2>7, <3>3, <4>1
    <3> QED
      BY <2>2, <2>11, <3>4, <3>5, SettleFiles DEF ClaimInv
  <2>12. ASSUME Book PROVE Goal
    <3>1. /\ pc = "book" /\ current' = NoCommand /\ current \in Command
          /\ UNCHANGED <<proc, receipts>>
          /\ \/ ledger' = [ledger EXCEPT ![current] =
                              [@ EXCEPT !.state = "settled", !.receipt = sequence]]
             \/ UNCHANGED ledger
      BY <1>1, <2>12 DEF Book
    <3>2. ledger[current].state = "open" /\ proc[current] # "none"
      BY <2>2, <3>1 DEF PlaceTold
    <3>3. Books
      BY <2>b, <3>1
    <3>4. CASE UNCHANGED ledger
      <4>1. Stages' = Stages
        BY <1>1, <3>1, <3>2, <3>4 DEF Stages, PoolStage
      <4> QED
        BY <2>3, <3>3, <4>1
    <3>5. CASE ledger' = [ledger EXCEPT ![current] =
                            [@ EXCEPT !.state = "settled", !.receipt = sequence]]
      <4>1. /\ ledger'[current].state = "settled"
            /\ \A d \in Command : d # current => ledger'[d] = ledger[d]
        BY <1>1, <3>1, <3>5 DEF Obligations
      <4>2. Stages[current] = "owed"
        BY <3>1, <3>2 DEF Stages, PoolStage
      <4>3. Stages' = [Stages EXCEPT ![current] = "closed"]
        BY <1>1, <3>1, <3>2, <4>1 DEF Stages, PoolStage
      <4> QED
        BY <2>6, <3>1, <3>3, <4>2, <4>3
    <3> QED
      BY <3>1, <3>4, <3>5
  <2>13. ASSUME \/ PollExitFile \/ PollProcess \/ Batch \/ Sweep \/ Gate
                \/ LedgerUnreadable \/ EndSettlement
                \/ \E c \in Command : SkipUnended(c)
                \/ UNCHANGED vars
         PROVE  Goal
    <3>1. UNCHANGED <<proc, ledger, current, receipts>>
      BY <2>13 DEF PollExitFile, PollProcess, Batch, Sweep, Gate, BeginSettlement,
         LedgerUnreadable, EndSettlement, SkipUnended, vars
    <3> QED
      BY <2>3, <2>b, <3>1 DEF Stages, PoolStage
  <2>14. ASSUME NEW c \in Command, Writes(c) \/ Ends(c) PROVE Goal
    <3>1. /\ UNCHANGED <<ledger, current, receipts>>
          /\ \A d \in Command : proc'[d] = "none" <=> proc[d] = "none"
      BY <1>1, <2>14 DEF Writes, Ends
    <3>2. Stages' = Stages
      BY <3>1 DEF Stages, PoolStage
    <3> QED
      BY <2>3, <2>b, <3>1, <3>2
  <2>15. ~Restart
    BY <1>3 DEF Restart
  <2>16. Goal
    BY <2>8, <2>9, <2>10, <2>11, <2>12, <2>13, <2>14, <2>15
       DEF Next, Engine, Hold, Settlement
  <2> QED
    BY <2>16 DEF Goal
<1> QED
  BY <1>2, <1>3

\* The ledger implements JobPool: every step starts, owes, accounts for or closes
\* one command, or changes nothing of the promise.
THEOREM LedgerKeepsPool ==
    ASSUME Reliable
    PROVE  Spec => PoolSpec
<1>1. PoolInv /\ [Next]_vars => PoolInv'
  BY PoolInvStep
<1>2. PoolInv /\ [Next]_vars => [Pool!Next]_(Pool!vars)
  BY PoolStep
<1>3. Init => PoolInv
  BY ClaimInit, PlaceInit DEF PoolInv
<1> QED
  BY <1>1, <1>2, <1>3, PoolInitial, PTL DEF Spec, PoolSpec, Pool!Spec

-----------------------------------------------------------------------------
(* Settlements and announcements name receipts. *)

\* A receipt is there under the ordinal and for the command of the pair a.
IsReceiptOf(a) == \E r \in receipts : r.id = a[2] /\ r.command = a[1]

\* The books that may come to name a receipt, made inductive: what the settler is about
\* to book and what it read of the ledger name one already, and a receipt once filed is
\* never replaced, because its ordinal has been used.  No read has to be reliable.
NamedInv ==
    /\ TypeInv
    /\ alone =>
        /\ \A r \in receipts : r.id <= sequence
        /\ \A a \in announced \cup settled : IsReceiptOf(a)
        /\ \A c \in Command :
            /\ ledger[c].state = "settled" => IsReceiptOf(<<c, ledger[c].receipt>>)
            /\ records[c].state = "settled" => IsReceiptOf(<<c, records[c].receipt>>)
        /\ pc = "book" => IsReceiptOf(<<current, sequence>>)

\* No step undoes a restart.
LEMMA AloneBefore ==
    ASSUME [Next]_vars, alone'
    PROVE  alone
BY DEF Next, Engine, Hold, Settlement, vars, Dispatch, DispatchFails, PollExitFile,
   PollProcess, HandOff, Record, Batch, Sweep, Gate, BeginSettlement, LedgerUnreadable,
   SkipUnended, Settle, Book, EndSettlement, Writes, Ends, Restart, bounds

\* A receipt under the next ordinal replaces none.
LEMMA FiledAdds ==
    ASSUME TypeInv, \A s \in receipts : s.id <= sequence, NEW r, r.id = NextSequence
    PROVE  Filed(r) = receipts \cup {r}
BY DEF Filed, Receipts, NextSequence, TypeInv, TypeOK

\* A step that files at most a receipt under the next ordinal, and takes it, keeps
\* every pair that names one.
LEMMA ReceiptsStay ==
    ASSUME TypeInv, \A s \in receipts : s.id <= sequence,
           \/ UNCHANGED receipts
           \/ \E r : r.id = NextSequence /\ receipts' = Filed(r),
           sequence' = NextSequence
    PROVE  /\ \A s \in receipts' : s.id <= sequence'
           /\ \A a : IsReceiptOf(a) => IsReceiptOf(a)'
<1>1. /\ sequence \in Nat /\ sequence' = sequence + 1 /\ NextSequence = sequence + 1
      /\ \A s \in receipts : s.id \in Nat
  BY DEF NextSequence, TypeInv, TypeOK, Receipts
<1>2. CASE UNCHANGED receipts
  BY <1>1, <1>2 DEF IsReceiptOf
<1>3. ASSUME NEW r, r.id = NextSequence, receipts' = Filed(r)
      PROVE  /\ \A s \in receipts' : s.id <= sequence'
             /\ \A a : IsReceiptOf(a) => IsReceiptOf(a)'
  <2>1. receipts' = receipts \cup {r}
    BY <1>3, FiledAdds
  <2> QED
    BY <1>1, <1>3, <2>1 DEF IsReceiptOf
<1> QED
  BY <1>2, <1>3

\* Booking writes the obligation of the current command only, and of it only that it is
\* settled and under which receipt.
LEMMA BookEffect ==
    ASSUME TypeInv, Book
    PROVE  /\ current \in Command
           /\ \A c \in Command : c # current => ledger'[c] = ledger[c]
           /\ \/ ledger'[current] = ledger[current]
              \/ /\ ledger'[current].state = "settled" /\ ledger'[current].receipt = sequence
                 /\ ledger'[current].sequence = ledger[current].sequence
                 /\ ledger'[current].before = ledger[current].before
<1>1. current \in Command /\ ledger \in [Command -> Obligations]
  BY DEF Book, TypeInv, TypeOK
<1>2. CASE UNCHANGED ledger
  BY <1>1, <1>2
<1>3. CASE ledger' = [ledger EXCEPT ![current] =
                        [@ EXCEPT !.state = "settled", !.receipt = sequence]]
  <2>1. \A c \in Command : c # current => ledger'[c] = ledger[c]
    BY <1>1, <1>3
  <2>2. ledger'[current] = [ledger[current] EXCEPT !.state = "settled", !.receipt = sequence]
    BY <1>1, <1>3
  <2>3. ledger[current] \in Obligations
    BY <1>1
  <2> QED
    BY <1>1, <2>1, <2>2, <2>3 DEF Obligations
<1> QED
  BY <1>2, <1>3 DEF Book

\* Every step keeps the books about receipts that are there.
LEMMA NamedStep ==
    ASSUME NamedInv, [Next]_vars
    PROVE  NamedInv'
<1> USE DEF environment, hold, settlement, process, bounds
<1>t. TypeInv /\ TypeInv'
  BY TypeStep DEF NamedInv
<1> DEFINE Goal ==
        /\ \A r \in receipts : r.id <= sequence
        /\ \A a \in announced \cup settled : IsReceiptOf(a)
        /\ \A c \in Command :
            /\ ledger[c].state = "settled" => IsReceiptOf(<<c, ledger[c].receipt>>)
            /\ records[c].state = "settled" => IsReceiptOf(<<c, records[c].receipt>>)
        /\ pc = "book" => IsReceiptOf(<<current, sequence>>)
<1> SUFFICES ASSUME alone' PROVE Goal'
  BY <1>t DEF NamedInv
<1>0. Goal
  BY AloneBefore DEF NamedInv
<1>s. UNCHANGED receipts => \A a : IsReceiptOf(a)' <=> IsReceiptOf(a)
  BY DEF IsReceiptOf
<1>n. \A c \in Command : [d \in Command |-> NoObligation][c].state # "settled"
  BY DEF NoObligation
<1> HIDE DEF IsReceiptOf
<1>1. ASSUME NEW c \in Command,
             Dispatch(c) \/ DispatchFails(c) \/ SkipUnended(c) \/ Writes(c) \/ Ends(c)
      PROVE  Goal'
  <2>1. /\ UNCHANGED <<receipts, ledger, records, announced, settled, sequence>>
        /\ pc' # "book" \/ UNCHANGED <<pc, current>>
    BY <1>1 DEF Dispatch, DispatchFails, SkipUnended, Writes, Ends
  <2> QED
    BY <1>0, <1>s, <2>1
<1>2. CASE PollExitFile \/ PollProcess \/ Batch \/ LedgerUnreadable
  <2>1. /\ UNCHANGED <<receipts, ledger, records, announced, settled, sequence>>
        /\ pc' # "book"
    BY <1>2 DEF PollExitFile, PollProcess, Batch, LedgerUnreadable
  <2> QED
    BY <1>0, <1>s, <2>1
<1>3. CASE HandOff
  <2>1. /\ UNCHANGED <<receipts, records, announced, settled>> /\ sequence' = NextSequence
        /\ pc' = "batch"
    BY <1>3 DEF HandOff
  <2>2. /\ \A r \in receipts' : r.id <= sequence'
        /\ \A a : IsReceiptOf(a) => IsReceiptOf(a)'
    BY <1>0, <1>t, <2>1, ReceiptsStay
  <2>3. \A c \in Command : ledger'[c] = ledger[c] \/ ledger'[c].state = "open"
    BY <1>3, <1>t DEF HandOff, TypeInv, TypeOK
  <2> QED
    BY <1>0, <1>s, <2>1, <2>2, <2>3
<1>4. CASE Record
  <2>1. /\ UNCHANGED <<ledger, records, announced, settled>> /\ sequence' = NextSequence
        /\ pc' = "batch"
    BY <1>4 DEF Record
  <2>2. \/ UNCHANGED receipts
        \/ \E r : r.id = NextSequence /\ receipts' = Filed(r)
    BY <1>4 DEF Record, Receipt
  <2>3. /\ \A r \in receipts' : r.id <= sequence'
        /\ \A a : IsReceiptOf(a) => IsReceiptOf(a)'
    BY <1>0, <1>t, <2>1, <2>2, ReceiptsStay
  <2> QED
    BY <1>0, <2>1, <2>3
<1>5. CASE Sweep \/ Gate
  <2>1. /\ UNCHANGED <<receipts, ledger, announced, sequence>>
        /\ records' = ledger /\ settled' = {} /\ pc' = "settle"
    BY <1>5 DEF Sweep, Gate, BeginSettlement
  <2> QED
    BY <1>0, <1>s, <2>1
<1>6. ASSUME NEW c \in Command, Settle(c) PROVE Goal'
  <2>1. /\ UNCHANGED <<ledger, records, announced, settled>> /\ sequence' = NextSequence
        /\ pc = "settle"
    BY <1>6 DEF Settle
  <2>2. \/ UNCHANGED <<receipts, pc>>
        \/ \E r : /\ r.id = NextSequence /\ r.command = c
                  /\ receipts' = Filed(r) /\ current' = c
    BY <1>6 DEF Settle, Receipt
  <2>3. /\ \A r \in receipts' : r.id <= sequence'
        /\ \A a : IsReceiptOf(a) => IsReceiptOf(a)'
    BY <1>0, <1>t, <2>1, <2>2, ReceiptsStay
  <2>4. pc' = "book" => IsReceiptOf(<<current, sequence>>)'
    <3> SUFFICES ASSUME pc' = "book" PROVE IsReceiptOf(<<current, sequence>>)'
      OBVIOUS
    <3>1. PICK r : /\ r.id = NextSequence /\ r.command = c
                   /\ receipts' = Filed(r) /\ current' = c
      BY <2>1, <2>2
    <3>2. r \in receipts'
      BY <3>1 DEF Filed
    <3> QED
      BY <2>1, <3>1, <3>2 DEF IsReceiptOf
  <2> QED
    BY <1>0, <2>1, <2>3, <2>4
<1>7. CASE Book
  <2>1. /\ pc = "book" /\ pc' = "settle" /\ current \in Command
        /\ settled' = settled \cup {<<current, sequence>>}
        /\ UNCHANGED <<receipts, records, announced, sequence>>
    BY <1>7, <1>t DEF Book, TypeInv
  <2>2. \A c \in Command : \/ ledger'[c] = ledger[c]
                           \/ c = current /\ ledger'[c].receipt = sequence
    BY <1>7, <1>t, BookEffect
  <2> QED
    BY <1>0, <1>s, <2>1, <2>2
<1>8. CASE EndSettlement
  <2>1. /\ UNCHANGED <<receipts, ledger, sequence>> /\ settled' = {}
        /\ records' = [c \in Command |-> NoObligation] /\ pc' # "book"
        /\ announced' \subseteq announced \cup Announcements
    BY <1>8 DEF EndSettlement
  <2>2. \A a \in Announcements :
            \/ a \in settled
            \/ \E c \in Command : records[c].state = "settled" /\ a = <<c, records[c].receipt>>
    BY DEF Announcements
  <2>3. \A a \in announced' : IsReceiptOf(a)
    BY <1>0, <2>1, <2>2
  <2> QED
    BY <1>0, <1>n, <1>s, <2>1, <2>3
<1>9. CASE UNCHANGED vars
  BY <1>0, <1>s, <1>9 DEF vars
<1>10. ~Restart
  BY DEF Restart
<1> QED
  BY <1>1, <1>2, <1>3, <1>4, <1>5, <1>6, <1>7, <1>8, <1>9, <1>10
     DEF Next, Engine, Hold, Settlement

\* A settled obligation and every announcement name a receipt of that very job, for any
\* order of failures: the receipt is filed before the obligation is booked, and the
\* ordinal that both carry is used once.
THEOREM SettlementsAreReceipted == Spec => []SettledByOwnReceipt
<1>1. Init => NamedInv
  BY TypeInit DEF Init, NamedInv, NoObligation
<1>2. NamedInv => SettledByOwnReceipt
  BY DEF NamedInv, SettledByOwnReceipt, IsReceiptOf
<1>3. NamedInv /\ [Next]_vars => NamedInv'
  BY NamedStep
<1> QED
  BY <1>1, <1>2, <1>3, PTL DEF Spec

-----------------------------------------------------------------------------
(* What a settlement leaves out. *)

\* What the settler works from, also if it could not read the receipts: the claims it
\* knows are of receipts that are there, and the obligations it has still to look at are
\* open and as it read them.
HandsTold ==
    /\ claims \subseteq Claimed(receipts)
    /\ \A c \in pending : records[c] = ledger[c] /\ ledger[c].state = "open"
    /\ pc = "book" => current \in pending
    /\ pc \in {"poll", "kill0"} => ledger[current].state = "none" /\ proc[current] # "none"
    /\ \A c \in Command : ledger[c].state # "none" => proc[c] # "none"

\* The obligation of a command that was excluded from something stays where it is, so
\* what justified the exclusion goes on doing so.
JustInv ==
    /\ NamedInv
    /\ ExclusionJustified
    /\ alone => HandsTold
    /\ alone => \A r \in receipts : r.excluded # {} => ledger[r.command].state # "none"

\* The claims of the receipts that stay are claims still.
LEMMA ClaimedStay ==
    ASSUME receipts \subseteq receipts'
    PROVE  Claimed(receipts) \subseteq Claimed(receipts')
BY DEF Claimed

\* A receipt under the next ordinal is one more.
LEMMA NextIsUnion ==
    ASSUME NamedInv, alone, NEW r, r.id = NextSequence
    PROVE  Filed(r) = receipts \cup {r} /\ r \notin receipts
<1>1. /\ TypeInv /\ sequence \in Nat /\ NextSequence = sequence + 1
      /\ \A s \in receipts : s.id <= sequence
  BY DEF NamedInv, TypeInv, TypeOK, NextSequence
<1> QED
  BY <1>1, FiledAdds

\* Every step keeps what the settler works from.
LEMMA HandsStep ==
    ASSUME NamedInv, HandsTold, alone, [Next]_vars, alone'
    PROVE  HandsTold'
<1> USE DEF environment, hold, settlement, process, bounds
<1>t. /\ TypeInv /\ pending \subseteq Command /\ ledger \in [Command -> Obligations]
      /\ proc \in [Command -> {"none", "running", "exited", "vanished"}]
      /\ pc \in {"poll", "kill0", "record", "book"} => current \in Command
  BY DEF NamedInv, TypeInv, TypeOK
<1>s. UNCHANGED <<receipts, claims>> => claims' \subseteq Claimed(receipts')
  BY DEF HandsTold
<1>1. ASSUME NEW c \in Command, Dispatch(c) \/ DispatchFails(c) PROVE HandsTold'
  <2>1. /\ UNCHANGED <<receipts, claims, pending, records, ledger>> /\ pc' \in {"poll", "record"}
        /\ proc[c] = "none" /\ proc'[c] # "none" /\ current' = c
        /\ \A d \in Command : proc[d] # "none" => proc'[d] # "none"
    BY <1>1, <1>t DEF Dispatch, DispatchFails
  <2> QED
    BY <1>s, <2>1 DEF HandsTold
<1>2. ASSUME NEW c \in Command, SkipUnended(c) \/ Writes(c) \/ Ends(c) PROVE HandsTold'
  <2>1. /\ UNCHANGED <<receipts, claims, records, ledger, pc, current>> /\ pending' \subseteq pending
        /\ pending' = pending \/ pc # "book"
        /\ \A d \in Command : proc[d] # "none" => proc'[d] # "none"
    BY <1>2, <1>t DEF SkipUnended, Writes, Ends
  <2> QED
    BY <1>s, <1>t, <2>1 DEF HandsTold
<1>3. CASE PollExitFile \/ PollProcess \/ Batch \/ LedgerUnreadable
  <2>1. /\ UNCHANGED <<receipts, claims, records, ledger, pending, current, proc>> /\ pc' # "book"
        /\ pc' \in {"poll", "kill0"} => pc \in {"poll", "kill0"}
    BY <1>3 DEF PollExitFile, PollProcess, Batch, LedgerUnreadable
  <2> QED
    BY <1>s, <2>1 DEF HandsTold
<1>4. CASE HandOff
  <2>1. /\ UNCHANGED <<receipts, claims, records, pending, proc>> /\ pc' = "batch"
        /\ current \in Command /\ ledger[current].state = "none"
        /\ proc[current] # "none"
        /\ \A c \in Command : c # current => ledger'[c] = ledger[c]
    BY <1>4, <1>t DEF HandOff, HandsTold
  <2> QED
    BY <1>s, <1>t, <2>1 DEF HandsTold
<1>5. CASE Record
  <2>1. /\ UNCHANGED <<claims, records, pending, ledger, proc>> /\ pc' = "batch"
    BY <1>5 DEF Record
  <2>2. \/ UNCHANGED receipts
        \/ \E r : r.id = NextSequence /\ receipts' = Filed(r)
    BY <1>5 DEF Record, Receipt
  <2>3. receipts \subseteq receipts'
    BY <2>2, NextIsUnion
  <2> QED
    BY <2>1, <2>3, ClaimedStay DEF HandsTold
<1>6. CASE Sweep \/ Gate
  <2>1. /\ UNCHANGED <<receipts, ledger, proc>> /\ records' = ledger
        /\ pending' = Open(ledger) /\ pc' = "settle"
        /\ claims' = Claimed(receipts) \/ claims' = {}
    BY <1>6 DEF Sweep, Gate, BeginSettlement
  <2> QED
    BY <2>1 DEF HandsTold, Open
<1>7. ASSUME NEW c \in Command, Settle(c) PROVE HandsTold'
  <2>1. /\ UNCHANGED <<records, ledger, proc>> /\ pc = "settle" /\ c \in pending
        /\ \/ UNCHANGED <<receipts, claims, pc>> /\ pending' \subseteq pending
           \/ /\ UNCHANGED pending /\ pc' = "book" /\ current' = c
              /\ \E r : /\ r.id = NextSequence /\ receipts' = Filed(r)
                        /\ claims' = claims \cup Claimed({r})
    BY <1>7 DEF Settle, Receipt, Folded
  <2>2. CASE UNCHANGED <<receipts, claims, pc>> /\ pending' \subseteq pending
    BY <1>s, <2>1, <2>2 DEF HandsTold
  <2>3. ASSUME UNCHANGED pending, pc' = "book", current' = c, NEW r, r.id = NextSequence,
               receipts' = Filed(r), claims' = claims \cup Claimed({r})
        PROVE  HandsTold'
    <3>1. receipts' = receipts \cup {r}
      BY <2>3, NextIsUnion
    <3>2. Claimed({r}) \subseteq Claimed(receipts') /\ Claimed(receipts) \subseteq Claimed(receipts')
      BY <3>1 DEF Claimed
    <3> QED
      BY <2>1, <2>3, <3>2 DEF HandsTold
  <2> QED
    BY <2>1, <2>2, <2>3
<1>8. CASE Book
  <2>1. /\ UNCHANGED <<receipts, claims, records, proc>> /\ pc = "book" /\ pc' = "settle"
        /\ pending' = pending \ {current} /\ current \in pending
    BY <1>8 DEF Book, HandsTold
  <2>2. \A c \in Command : c # current => ledger'[c] = ledger[c]
    BY <1>8, <1>t, BookEffect
  <2> QED
    BY <1>s, <1>t, <2>1, <2>2 DEF HandsTold
<1>9. CASE EndSettlement
  <2>1. /\ UNCHANGED <<receipts, ledger, proc>> /\ pending' = {} /\ claims' = {}
        /\ pc' \in {"idle", "batch"}
    BY <1>9 DEF EndSettlement
  <2> QED
    BY <2>1 DEF HandsTold
<1>10. CASE UNCHANGED vars
  BY <1>10 DEF vars, HandsTold
<1>11. ~Restart
  BY DEF Restart
<1> QED
  BY <1>1, <1>2, <1>3, <1>4, <1>5, <1>6, <1>7, <1>8, <1>9, <1>10, <1>11
     DEF Next, Engine, Hold, Settlement

\* The paths taken out of a window are those of later receipts that claim them.
LEMMA TakenHasReceipt ==
    ASSUME NEW n, NEW p \in Intervening(Claimed(receipts), n)
    PROVE  \E s \in receipts : s.id > n /\ p \in Paths(s)
BY DEF Intervening, Claimed

\* A step that files no receipt with an exclusion, and moves the ordinal of no command
\* with an obligation, keeps every exclusion justified.
LEMMA JustKept ==
    ASSUME JustInv, alone, receipts \subseteq receipts',
           \A r \in receipts' \ receipts : r.excluded = {},
           \A c \in Command : ledger[c].state # "none" =>
                ledger'[c].sequence = ledger[c].sequence /\ ledger'[c].state # "none"
    PROVE  /\ \A r \in receipts' : \A p \in r.excluded :
                \E s \in receipts' :
                    s # r /\ p \in Paths(s) /\ s.id > ledger'[r.command].sequence
           /\ \A r \in receipts' : r.excluded # {} => ledger'[r.command].state # "none"
<1>1. \A r \in receipts : r.command \in Command
  BY DEF JustInv, NamedInv, TypeInv, TypeOK, Receipts
<1>2. ASSUME NEW r \in receipts', NEW p \in r.excluded
      PROVE  \E s \in receipts' :
                    s # r /\ p \in Paths(s) /\ s.id > ledger'[r.command].sequence
  <2>1. r \in receipts /\ ledger[r.command].state # "none"
    BY <1>2 DEF JustInv
  <2>2. ledger'[r.command].sequence = ledger[r.command].sequence
    BY <1>1, <2>1
  <2> QED
    BY <1>2, <2>1, <2>2 DEF JustInv, ExclusionJustified
<1>3. ASSUME NEW r \in receipts', r.excluded # {}
      PROVE  ledger'[r.command].state # "none"
  BY <1>1, <1>3 DEF JustInv
<1> QED
  BY <1>2, <1>3

LEMMA JustStep ==
    ASSUME JustInv, [Next]_vars
    PROVE  JustInv'
<1> USE DEF environment, hold, settlement, process, bounds
<1>p. NamedInv /\ NamedInv'
  BY NamedStep DEF JustInv
<1> DEFINE Goal ==
        /\ \A r \in receipts : \A p \in r.excluded :
             \E s \in receipts :
                 s # r /\ p \in Paths(s) /\ s.id > ledger[r.command].sequence
        /\ \A r \in receipts : r.excluded # {} => ledger[r.command].state # "none"
<1>h. alone' => alone /\ HandsTold'
  BY <1>p, AloneBefore, HandsStep DEF JustInv
<1> SUFFICES ASSUME alone' PROVE Goal'
  BY <1>h, <1>p DEF JustInv, ExclusionJustified
<1>a. alone /\ HandsTold
  BY <1>h DEF JustInv
<1>t. TypeInv /\ pending \subseteq Command /\ ledger \in [Command -> Obligations]
  BY <1>p DEF NamedInv, TypeInv, TypeOK
<1>k. UNCHANGED <<receipts, ledger>> => Goal'
  BY <1>a, JustKept
<1> HIDE DEF Goal
<1>1. ASSUME NEW c \in Command,
             Dispatch(c) \/ DispatchFails(c) \/ SkipUnended(c) \/ Writes(c) \/ Ends(c)
      PROVE  Goal'
  BY <1>1, <1>k DEF Dispatch, DispatchFails, SkipUnended, Writes, Ends
<1>2. CASE PollExitFile \/ PollProcess \/ Batch \/ LedgerUnreadable \/ Sweep \/ Gate \/ EndSettlement
  BY <1>2, <1>k DEF PollExitFile, PollProcess, Batch, LedgerUnreadable, Sweep, Gate,
     BeginSettlement, EndSettlement
<1>3. CASE HandOff
  <2>1. /\ UNCHANGED receipts /\ pc \in {"poll", "kill0"}
        /\ \A c \in Command : c # current => ledger'[c] = ledger[c]
    BY <1>3, <1>t DEF HandOff
  <2>2. ledger[current].state = "none"
    BY <1>a, <2>1 DEF HandsTold
  <2> QED
    BY <1>a, <2>1, <2>2, JustKept DEF Goal
<1>4. CASE Record
  <2>1. UNCHANGED ledger
    BY <1>4 DEF Record
  <2>2. \/ UNCHANGED receipts
        \/ \E r : r.id = NextSequence /\ r.excluded = {} /\ receipts' = Filed(r)
    BY <1>4 DEF Record, Receipt
  <2>3. \/ UNCHANGED receipts
        \/ \E r : r.excluded = {} /\ receipts' = receipts \cup {r}
    BY <1>a, <1>p, <2>2, NextIsUnion
  <2> QED
    BY <1>a, <2>1, <2>3, JustKept DEF Goal
<1>5. ASSUME NEW c \in Command, Settle(c) PROVE Goal'
  <2> DEFINE taken == Intervening(claims, records[c].sequence)
  <2>1. /\ pc = "settle" /\ c \in pending /\ UNCHANGED ledger
        /\ \/ UNCHANGED receipts
           \/ \E r : /\ receipts' = Filed(r) /\ r.id = NextSequence /\ r.command = c
                     /\ r.excluded \subseteq taken
    BY <1>5, <1>t, SettleFiles DEF Settle
  <2> HIDE DEF taken
  <2>2. CASE UNCHANGED receipts
    BY <1>k, <2>1, <2>2
  <2>3. ASSUME NEW r, receipts' = Filed(r), r.id = NextSequence, r.command = c,
               r.excluded \subseteq taken
        PROVE  Goal'
    <3>1. claims \subseteq Claimed(receipts) /\ records[c] = ledger[c] /\ ledger[c].state = "open"
      BY <1>a, <2>1 DEF HandsTold
    <3>2. taken \subseteq Intervening(Claimed(receipts), ledger[c].sequence)
      BY <3>1 DEF taken, Intervening
    <3>3. receipts' = receipts \cup {r} /\ r \notin receipts
      BY <1>a, <1>p, <2>3, NextIsUnion
    <3>4. \A p \in r.excluded : \E s \in receipts :
              p \in Paths(s) /\ s.id > ledger[c].sequence
      BY <2>3, <3>2, TakenHasReceipt
    <3>5. \A p \in r.excluded : \E s \in receipts' :
              s # r /\ p \in Paths(s) /\ s.id > ledger'[r.command].sequence
      BY <2>1, <2>3, <3>3, <3>4
    <3>6. \A s \in receipts : \A p \in s.excluded : \E t \in receipts' :
              t # s /\ p \in Paths(t) /\ t.id > ledger'[s.command].sequence
      BY <1>a, <2>1, <3>3 DEF JustInv, ExclusionJustified
    <3>7. \A s \in receipts' : s.excluded # {} => ledger'[s.command].state # "none"
      BY <1>a, <2>1, <2>3, <3>1, <3>3 DEF JustInv
    <3> QED
      BY <3>3, <3>5, <3>6, <3>7 DEF Goal
  <2> QED
    BY <2>1, <2>2, <2>3
<1>6. CASE Book
  <2>1. UNCHANGED receipts
    BY <1>6 DEF Book
  <2>2. \A c \in Command : ledger[c].state # "none" =>
           ledger'[c].sequence = ledger[c].sequence /\ ledger'[c].state # "none"
    BY <1>6, <1>t, BookEffect
  <2> QED
    BY <1>a, <2>1, <2>2, JustKept DEF Goal
<1>7. CASE UNCHANGED vars
  BY <1>7, <1>k DEF vars
<1>8. ~Restart
  BY DEF Restart
<1> QED
  BY <1>1, <1>2, <1>3, <1>4, <1>5, <1>6, <1>7, <1>8 DEF Next, Engine, Hold, Settlement

\* A path that a settlement leaves out was claimed by another receipt, written after the
\* job was dispatched, also when receipts or reports could not be read: what a settler does not
\* know takes nothing out of a window.
THEOREM ExclusionsAreJustified == Spec => []ExclusionJustified
<1>1. Init => JustInv
  BY TypeInit DEF Init, JustInv, NamedInv, HandsTold, ExclusionJustified, NoObligation
<1>2. JustInv /\ [Next]_vars => JustInv'
  BY JustStep
<1>3. JustInv => ExclusionJustified
  BY DEF JustInv
<1> QED
  BY <1>1, <1>2, <1>3, PTL DEF Spec

-----------------------------------------------------------------------------
(* What a settled job wrote. *)

\* What command c wrote last at p is there, and not in the bytes it found.
Left(c, p) == writer[p] = c /\ disk[p] \notin {0, ledger[c].before[p]}

\* A receipt claims what is at p, or counts p as excluded from what c wrote.
Covered(c, p) ==
    \E r \in receipts :
        Claim(p, disk) \in Claims(r) \/ (r.command = c /\ p \in r.excluded)

\* A job that is settled, or about to be, has ended and is covered.
Finished(c) == ledger[c].state = "settled" \/ (pc = "book" /\ c = current)

SettledCovered ==
    \A c \in Command : Finished(c) =>
        proc[c] = "exited" /\ \A p \in Scope[c] : Left(c, p) => Covered(c, p)

\* Receipts that the settler could not read matter to who claims, not to what is covered.
SeenInv ==
    /\ NamedInv
    /\ alone => HandsTold /\ SettledCovered

\* A write is of a running command, so it is of no settled one.
LEMMA WriteSeen ==
    ASSUME SeenInv, alone, NEW d \in Command, Writes(d)
    PROVE  SettledCovered'
<1>1. PICK p \in Scope[d] :
        /\ p \in Path
        /\ \A q \in Path : q # p => /\ disk'[q] = disk[q] /\ written'[q] = written[q]
                                  /\ writer'[q] = writer[q]
        /\ writer'[p] = d \/ writer'[p] = NoCommand
  BY WriteEffect DEF SeenInv, NamedInv
<1>2. proc[d] = "running" /\ UNCHANGED <<proc, receipts, ledger, pc, current>>
  BY DEF Writes, hold
<1>3. SettledCovered
  BY DEF SeenInv
<1>4. ASSUME NEW c \in Command, Finished(c)
      PROVE  proc[c] = "exited" /\ \A q \in Scope[c] : Left(c, q)' => Covered(c, q)'
  <2>1. proc[c] = "exited" /\ c # d
    BY <1>2, <1>3, <1>4 DEF SettledCovered
  <2>2. ASSUME NEW q \in Scope[c], Left(c, q)' PROVE Covered(c, q)'
    <3>1. q # p /\ q \in Path
      BY <1>1, <2>1, <2>2, NoCommandAssumption, ScopeAssumption DEF Left
    <3>2. Left(c, q) /\ Claim(q, disk)' = Claim(q, disk)
      BY <1>1, <1>2, <2>2, <3>1 DEF Left, Claim
    <3>3. Covered(c, q)
      BY <1>3, <1>4, <3>2 DEF SettledCovered
    <3> QED
      BY <1>2, <3>2, <3>3 DEF Covered
  <2> QED
    BY <2>1, <2>2
<1> QED
  BY <1>2, <1>4 DEF SettledCovered, Finished

\* A step that leaves the reports as they are, moves no snapshot of a finished command and
\* takes no receipt away, keeps what is covered.
LEMMA SeenKept ==
    ASSUME SettledCovered, UNCHANGED <<disk, written, writer>>, receipts \subseteq receipts',
           \A c \in Command : Finished(c)' =>
               /\ Finished(c) /\ ledger'[c].before = ledger[c].before
               /\ proc[c] = "exited" => proc'[c] = "exited"
    PROVE  SettledCovered'
<1>1. ASSUME NEW c \in Command, Finished(c)'
      PROVE  proc'[c] = "exited" /\ \A p \in Scope[c] : Left(c, p)' => Covered(c, p)'
  <2>1. /\ proc'[c] = "exited" /\ ledger'[c].before = ledger[c].before
        /\ \A p \in Scope[c] : Left(c, p) => Covered(c, p)
    BY <1>1 DEF SettledCovered
  <2>2. ASSUME NEW p \in Scope[c], Left(c, p)' PROVE Covered(c, p)'
    <3>1. Covered(c, p)
      BY <2>1, <2>2 DEF Left
    <3> QED
      BY <3>1 DEF Covered, Claim
  <2> QED
    BY <2>1, <2>2
<1> QED
  BY <1>1 DEF SettledCovered

\* A settlement covers what its job left: claimed by this receipt, or excluded from it.
LEMMA SettleSeen ==
    ASSUME "snapshot" \notin Failing, SeenInv, alone, NEW c \in Command, Settle(c)
    PROVE  SettledCovered'
<1>1. /\ pc = "settle" /\ c \in pending /\ proc[c] = "exited"
      /\ UNCHANGED <<disk, written, writer, proc, ledger>>
  BY DEF Settle, environment
<1>2. SettledCovered /\ HandsTold /\ NamedInv /\ TypeInv
  BY DEF SeenInv, NamedInv
<1>3. records[c] = ledger[c] /\ ledger[c].state = "open"
  BY <1>1, <1>2 DEF HandsTold
<1>4. CASE UNCHANGED <<receipts, current, pc>>
  BY <1>1, <1>2, <1>4, SeenKept DEF Finished
<1>5. ASSUME NEW r \in Receipts, r.id = NextSequence, r.command = c,
             receipts' = Filed(r), current' = c, pc' = "book",
             \A p \in Scope[c] : disk[p] \notin {0, records[c].before[p]} =>
                 Claim(p, disk) \in Claims(r) \/ p \in r.excluded
      PROVE  SettledCovered'
  <2>1. receipts' = receipts \cup {r}
    BY <1>2, <1>5, NextIsUnion
  <2>2. ASSUME NEW d \in Command, Finished(d)'
        PROVE  proc[d] = "exited" /\ \A p \in Scope[d] : Left(d, p)' => Covered(d, p)'
    <3>1. CASE d = c
      BY <1>1, <1>3, <1>5, <2>1, <3>1 DEF Left, Covered, Claim
    <3>2. CASE d # c
      <4>1. Finished(d)
        BY <1>1, <1>5, <2>2, <3>2 DEF Finished
      <4> QED
        BY <1>1, <1>2, <2>1, <4>1 DEF SettledCovered, Left, Covered, Claim
    <3> QED
      BY <3>1, <3>2
  <2> QED
    BY <1>1, <2>2 DEF SettledCovered
<1> QED
  BY <1>2, <1>4, <1>5, SettleFiles

\* Every step keeps settled jobs covered.
LEMMA SeenStep ==
    ASSUME "snapshot" \notin Failing, SeenInv, [Next]_vars
    PROVE  SeenInv'
<1> USE DEF environment, hold, settlement, process, bounds
<1>p. NamedInv /\ NamedInv'
  BY NamedStep DEF SeenInv
<1>h. alone' => alone /\ HandsTold'
  BY <1>p, AloneBefore, HandsStep DEF SeenInv
<1> SUFFICES ASSUME alone' PROVE SettledCovered'
  BY <1>h, <1>p DEF SeenInv
<1>a. alone
  BY AloneBefore
<1>t. /\ TypeInv
      /\ ledger \in [Command -> Obligations] /\ NoCommand \notin Command
      /\ proc \in [Command -> {"none", "running", "exited", "vanished"}]
  BY <1>p, NoCommandAssumption DEF NamedInv, TypeInv, TypeOK
<1>0. SettledCovered
  BY <1>a DEF SeenInv
<1>1. ASSUME NEW c \in Command, Dispatch(c) \/ DispatchFails(c) PROVE SettledCovered'
  <2>1. /\ pc' # "book" /\ proc[c] = "none"
        /\ \E how \in {"running", "vanished"} : proc' = [proc EXCEPT ![c] = how]
        /\ UNCHANGED <<disk, written, writer, receipts, ledger>>
    BY <1>1 DEF Dispatch, DispatchFails
  <2>2. \A d \in Command : proc[d] = "exited" => proc'[d] = "exited"
    BY <1>t, <2>1
  <2> QED
    BY <1>0, <2>1, <2>2, SeenKept DEF Finished
<1>2. CASE HandOff
  <2>1. /\ UNCHANGED <<disk, written, writer, proc, receipts>>
        /\ pc' = "batch" /\ current \in Command
        /\ \A d \in Command : d # current => ledger'[d] = ledger[d]
        /\ ledger'[current].state = "open" \/ ledger'[current] = ledger[current]
    BY <1>2, <1>t DEF HandOff, TypeInv
  <2>2. \A d \in Command : Finished(d)' => ledger'[d] = ledger[d] /\ Finished(d)
    BY <2>1 DEF Finished
  <2> QED
    BY <1>0, <2>1, <2>2, SeenKept
<1>3. CASE Record
  <2>1. UNCHANGED <<disk, written, writer, proc, ledger>> /\ pc' = "batch"
    BY <1>3 DEF Record
  <2>2. receipts \subseteq receipts'
    BY <1>3, <1>a, <1>p, <1>t, RecordFiles, NextIsUnion
  <2> QED
    BY <1>0, <2>1, <2>2, SeenKept DEF Finished
<1>4. ASSUME \/ PollExitFile \/ PollProcess \/ Batch \/ LedgerUnreadable \/ Sweep \/ Gate
             \/ EndSettlement \/ \E c \in Command : SkipUnended(c)
      PROVE  SettledCovered'
  <2>1. /\ UNCHANGED <<disk, written, writer, proc, receipts, ledger>>
        /\ pc' # "book"
    BY <1>4 DEF PollExitFile, PollProcess, Batch, LedgerUnreadable, Sweep, Gate,
       BeginSettlement, EndSettlement, SkipUnended
  <2> QED
    BY <1>0, <2>1, SeenKept DEF Finished
<1>5. ASSUME NEW c \in Command, Settle(c) PROVE SettledCovered'
  BY <1>5, <1>a, SettleSeen
<1>6. CASE Book
  <2>1. UNCHANGED <<disk, written, writer, proc, receipts>> /\ pc = "book" /\ pc' = "settle"
    BY <1>6 DEF Book
  <2>2. /\ current \in Command
        /\ \A d \in Command : d # current => ledger'[d] = ledger[d]
        /\ ledger'[current].before = ledger[current].before
    BY <1>6, <1>t, BookEffect
  <2>3. \A d \in Command : Finished(d)' => Finished(d) /\ ledger'[d].before = ledger[d].before
    BY <2>1, <2>2 DEF Finished
  <2> QED
    BY <1>0, <2>1, <2>3, SeenKept
<1>7. ASSUME NEW c \in Command, Writes(c) PROVE SettledCovered'
  BY <1>7, <1>a, WriteSeen
<1>8. ASSUME NEW c \in Command, Ends(c) PROVE SettledCovered'
  <2>1. /\ UNCHANGED <<disk, written, writer, receipts, ledger, pc, current>>
        /\ \A d \in Command : proc[d] = "exited" => proc'[d] = "exited"
    BY <1>8, <1>t DEF Ends
  <2> QED
    BY <1>0, <2>1, SeenKept DEF Finished
<1>9. CASE UNCHANGED vars
  <2>1. UNCHANGED <<disk, written, writer, proc, receipts, ledger, pc, current>>
    BY <1>9 DEF vars
  <2> QED
    BY <1>0, <2>1, SeenKept DEF Finished
<1>10. ~Restart
  BY DEF Restart
<1> QED
  BY <1>1, <1>2, <1>3, <1>4, <1>5, <1>6, <1>7, <1>8, <1>9, <1>10
     DEF Next, Engine, Hold, Settlement

\* Nothing that a settled job left is lost from the books: a receipt claims it, or the
\* job's own receipt counts it as excluded, whatever other commands write, end or settle
\* meanwhile and however often the settlement is repeated.  Only a listing of reports that
\* fails could hide one: it counts as an empty listing.
THEOREM NothingIsHidden ==
    ASSUME "snapshot" \notin Failing
    PROVE  Spec => []NothingHidden
<1>1. Init => SeenInv
  <2> SUFFICES ASSUME Init PROVE SeenInv
    OBVIOUS
  <2>0. NamedInv
    BY TypeInit DEF Init, NamedInv, NoObligation
  <2>3. HandsTold
    BY DEF Init, HandsTold, NoObligation
  <2>2. SettledCovered
    BY DEF Init, SettledCovered, Finished, NoObligation
  <2> QED
    BY <2>0, <2>2, <2>3 DEF SeenInv
<1>2. SeenInv /\ [Next]_vars => SeenInv'
  BY SeenStep
<1>3. SeenInv => NothingHidden
  BY DEF SeenInv, SettledCovered, Finished, Left, Covered, NothingHidden
<1> QED
  BY <1>1, <1>2, <1>3, PTL DEF Spec
=============================================================================
