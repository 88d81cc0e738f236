------------------------------ MODULE CAProofs ------------------------------
(***************************************************************************)
(* Proofs about CertAuthority, for every set of certificates and keys and  *)
(* every bound: its types, that no serial number is handed out twice, and  *)
(* that a start succeeds after an operation answered with success.         *)
(*                                                                         *)
(* The type invariant is not inductive alone: which step an operation may  *)
(* be at (OpOK) and which files, records and entries its numbers refer to  *)
(* (BoundsOK) go with it, as CAType.  On it rest the two inductive         *)
(* invariants SerialInv (the counters are ahead of every certificate       *)
(* handed out) and HeaderOK (the header is behind the record counter until *)
(* it is sealed for the records that are there).                           *)
(***************************************************************************)
EXTENDS CertAuthority, WellFoundedInduction, TLAPS

(* The maximum the code looks for exists in a bounded set of numbers. *)
LEMMA MaxOf ==
  ASSUME NEW n \in Nat, NEW S \in SUBSET (0..n), S # {}
  PROVE  Max(S) \in S /\ \A x \in S : x <= Max(S)
<1> DEFINE T == {n - x : x \in S}
           Less == OpToRel(<, Nat)
<1>1. T \subseteq Nat /\ T # {}
  <2>1. \A x \in S : n - x \in Nat
    OBVIOUS
  <2>2. PICK x \in S : TRUE
    OBVIOUS
  <2>3. n - x \in T
    OBVIOUS
  <2>4. QED
    BY <2>1, <2>3
<1>2. PICK t \in T : \A y \in T : ~(<<y, t>> \in Less)
  BY <1>1, NatLessThanWellFounded, WFMin
<1>3. \A y \in T : ~(y < t)
  BY <1>1, <1>2 DEF OpToRel
<1>4. PICK m \in S : t = n - m
  OBVIOUS
<1>5. \A x \in S : m >= x
  <2> TAKE x \in S
  <2>1. n - x \in T
    OBVIOUS
  <2>2. ~(n - x < n - m)
    BY <2>1, <1>3, <1>4
  <2>3. x \in 0..n /\ m \in 0..n
    OBVIOUS
  <2>4. QED
    BY <2>2, <2>3
<1>6. QED
  BY <1>5 DEF Max

Running == up = "run"
SaveSteps == {"create", "append", "seal", "content", "state", "write"}
UpdateSteps == {"truncate", "rewrite", "seal", "content", "state", "write"}
DeleteSteps == {"revoke", "seal", "unlink", "state", "write"}
Late == {"state", "write"}

(* Which steps an operation goes through, and when it has an item. *)
OpOK ==
  op # None =>
    /\ Running
    /\ op.kind \in Saves => op.step \in SaveSteps
    /\ op.kind \in Updates => op.step \in UpdateSteps
    /\ op.kind \in {"revoke", "gc"} => op.step \in DeleteSteps
    /\ op.item = None <=> (op.kind = "gc" /\ op.step \in Late)

(* The numbers of files and records an operation or an entry refers to. *)
BoundsOK ==
  /\ ops <= MaxOps
  /\ Running => next \in 1..ops + 1
  /\ \A k \in DOMAIN records : records[k].file \in 1..ops
  /\ \A i \in Items : index[i] # None => index[i].at \in DOMAIN records
  /\ op # None =>
       /\ op.item # None => op.file \in 1..ops
       /\ op.kind \in Saves /\ op.step \in {"seal", "content"} => Len(records) > 0
       /\ (op.kind \notin Saves /\ op.item # None /\ op.step \notin Late)
            => index[op.item] # None
       /\ op.item \notin op.todo
       /\ \A i \in op.todo : index[i] # None

CAType == CATypeOK /\ OpOK /\ BoundsOK

(* The initial state. *)
LEMMA CATypeInit == CAInit => CAType
<1> SUFFICES ASSUME CAInit PROVE CAType
  OBVIOUS
<1>1. CATypeOK
  BY CAAssumption DEF CAInit, CATypeOK, Sealed, Gone, Items
<1>2. OpOK /\ BoundsOK
  BY CAAssumption DEF CAInit, OpOK, BoundsOK
<1>3. QED
  BY <1>1, <1>2 DEF CAType

(* What the types say of the records and of the operation under way. *)
LEMMA RecordFacts ==
  ASSUME CATypeOK
  PROVE  /\ Len(records) \in Nat /\ DOMAIN records = 1..Len(records)
         /\ \A k \in DOMAIN records : records[k] \in Record
<1>1. records \in Seq(Record)
  BY DEF CATypeOK
<1>2. QED
  BY <1>1

(* A record is appended. *)
LEMMA AppendFacts ==
  ASSUME CATypeOK, Entry \in Record, records' = Append(records, Entry)
  PROVE  /\ records' \in Seq(Record)
         /\ Len(records') = Len(records) + 1 /\ DOMAIN records' = 1..Len(records) + 1
         /\ records'[Len(records) + 1] = Entry
         /\ \A k \in DOMAIN records : records'[k] = records[k]
<1>1. records \in Seq(Record)
  BY DEF CATypeOK
<1>2. QED
  BY <1>1

(* A record is rewritten. *)
LEMMA RewriteFacts ==
  ASSUME CATypeOK, NEW j \in DOMAIN records, NEW r \in Record,
         records' = [records EXCEPT ![j] = r]
  PROVE  /\ records' \in Seq(Record)
         /\ Len(records') = Len(records) /\ DOMAIN records' = DOMAIN records
         /\ records'[j] = r
         /\ \A k \in DOMAIN records \ {j} : records'[k] = records[k]
<1>1. records \in Seq(Record)
  BY DEF CATypeOK
<1>2. QED
  BY <1>1

(* What the types say of the operation under way. *)
LEMMA OpFacts ==
  ASSUME CATypeOK, op # None
  PROVE  /\ op \in Op
         /\ op.kind \in Kinds /\ op.item \in Items \cup {None} /\ op.step \in Steps
         /\ op.file \in Nat /\ op.ver \in Nat /\ op.todo \subseteq Items
         /\ op.err \in BOOLEAN
BY DEF CATypeOK, Op

(* An operation that goes on to another step stays one. *)
LEMMA GoTypes ==
  ASSUME CATypeOK, op # None, NEW s \in Steps, Go(s)
  PROVE  /\ op' \in Op /\ op' # None /\ answer' = answer
         /\ op'.kind = op.kind /\ op'.item = op.item /\ op'.step = s
         /\ op'.file = op.file /\ op'.ver = op.ver /\ op'.todo = op.todo
BY OpFacts, NoneAssumption DEF Op, Go

(* The record and the entry an operation on an item writes. *)
LEMMA EntryFacts ==
  ASSUME CAType, op # None, op.item # None
  PROVE  /\ op.file \in FileNos
         /\ Entry \in Record
         /\ Entry.item = op.item /\ Entry.file = op.file /\ Entry.ver = op.ver
         /\ Entry.count = count + 1 /\ ~Entry.revoked
         /\ \A n \in Nat : Stored(n) \in Slot
<1>1. op.file \in FileNos
  BY OpFacts, CAAssumption DEF CAType, BoundsOK, FileNos, CATypeOK
<1>2. op.item \in Items /\ op.ver \in Nat /\ count + 1 \in Nat
  <2>1. CATypeOK
    BY DEF CAType
  <2>2. op.item \in Items /\ op.ver \in Nat
    BY <2>1, OpFacts
  <2>3. count + 1 \in Nat
    BY <2>1 DEF CATypeOK
  <2>4. QED
    BY <2>2, <2>3
<1>3. Entry \in Record
  BY <1>1, <1>2 DEF Entry, Record
<1>4. \A n \in Nat : Stored(n) \in Slot
  BY <1>2 DEF Stored, Slot
<1>5. QED
  BY <1>1, <1>3, <1>4 DEF Entry

(* What a step says of the operation it is a step of. *)
LEMMA AtFacts ==
  ASSUME CAType, NEW s, At(s)
  PROVE  /\ CATypeOK /\ op # None /\ op.step = s /\ op \in Op /\ Running
         /\ s \in {"create", "append"} => op.kind \in Saves
         /\ s \in {"truncate", "rewrite"} => op.kind \in Updates
         /\ s \in {"revoke", "unlink"} => op.kind \in {"revoke", "gc"}
         /\ s \notin Late => op.item \in Items /\ op.item # None /\ op.file \in 1..ops
         /\ (s \notin Late /\ op.kind \notin Saves) =>
              index[op.item] \in Slot /\ index[op.item].at \in DOMAIN records
         /\ (s \in {"seal", "content"} /\ op.kind \in Saves) => Len(records) > 0
<1>1. CATypeOK /\ op # None /\ op.step = s /\ op \in Op /\ Running
  BY OpFacts DEF CAType, At, OpOK
<1>2. /\ s \in {"create", "append"} => op.kind \in Saves
      /\ s \in {"truncate", "rewrite"} => op.kind \in Updates
      /\ s \in {"revoke", "unlink"} => op.kind \in {"revoke", "gc"}
  BY <1>1, OpFacts DEF CAType, OpOK, Kinds, SaveSteps, UpdateSteps, DeleteSteps
<1>3. s \notin Late => op.item \in Items /\ op.item # None /\ op.file \in 1..ops
  BY <1>1, OpFacts DEF CAType, OpOK, BoundsOK
<1>4. /\ (s \notin Late /\ op.kind \notin Saves) =>
            index[op.item] \in Slot /\ index[op.item].at \in DOMAIN records
      /\ (s \in {"seal", "content"} /\ op.kind \in Saves) => Len(records) > 0
  BY <1>1, <1>3, CAAssumption DEF CAType, BoundsOK, CATypeOK, Items
<1>5. QED
  BY <1>1, <1>2, <1>3, <1>4

(* Each write, failure, end and start keeps the types: the new file. *)
LEMMA CreateFileType == CAType /\ CreateFile => CAType'
<1> SUFFICES ASSUME CAType, CreateFile PROVE CAType'
  OBVIOUS
<1> USE DEF memory, bounds, CreateFile
<1>1. At("create") /\ op.item \in Items /\ op.kind \in Saves
  BY AtFacts DEF Late
<1>2. (op' = None /\ answer' = "err") \/ Go("append")
  BY DEF Ends
<1>3. /\ \/ op' = None
         \/ /\ op' \in Op /\ op'.kind = op.kind /\ op'.item = op.item
            /\ op'.step = "append" /\ op'.file = op.file /\ op'.todo = op.todo
      /\ answer' \in {"ok", "err"}
  <2>1. CATypeOK /\ op # None /\ answer \in {"ok", "err"} /\ "append" \in Steps
    BY <1>1 DEF CAType, CATypeOK, Steps, At
  <2>2. QED
    BY <1>2, <2>1, GoTypes
<1>4. content' \in [FileNos -> Nat \cup {None, Empty}]
  BY DEF CAType, CATypeOK
<1>5. CATypeOK'
  BY <1>3, <1>4 DEF CAType, CATypeOK
<1>6. OpOK'
  BY <1>1, <1>3, AtFacts, CAAssumption DEF CAType, OpOK, Running, SaveSteps, Saves, Updates, Late, Items
<1>7. BoundsOK'
  BY <1>1, <1>3, AtFacts DEF CAType, BoundsOK, Running
<1>8. QED
  BY <1>5, <1>6, <1>7 DEF CAType

(* The new record keeps the types. *)
LEMMA AppendRecordType == CAType /\ AppendRecord => CAType'
<1> SUFFICES ASSUME CAType, AppendRecord PROVE CAType'
  OBVIOUS
<1> USE DEF bounds, AppendRecord
<1>1. At("append") /\ CATypeOK /\ op # None /\ op.item \in Items /\ op.kind \in Saves
  BY AtFacts DEF Late
<1>2. /\ op' \in Op /\ answer' = answer /\ op'.kind = op.kind /\ op'.item = op.item
      /\ op'.step = "seal" /\ op'.file = op.file /\ op'.todo = op.todo
  BY <1>1, GoTypes DEF Steps
<1>3. Entry \in Record /\ Entry.file = op.file
  BY <1>1, EntryFacts, CAAssumption DEF Items
<1>4. /\ records' \in Seq(Record)
      /\ Len(records') = Len(records) + 1 /\ DOMAIN records' = 1..Len(records) + 1
      /\ records'[Len(records) + 1] = Entry
      /\ \A k \in DOMAIN records : records'[k] = records[k]
  BY <1>1, <1>3, AppendFacts
<1>5. CATypeOK'
  <2>1. UNCHANGED <<header, content, state, up, index, next, serial, expired,
                    ops, failures, stops, acked, issued, orphans>>
    OBVIOUS
  <2>2. count' \in Nat
    BY <1>1 DEF CATypeOK
  <2> HIDE DEF bounds, AppendRecord
  <2>3. QED
    BY <1>1, <1>2, <1>4, <2>1, <2>2 DEF CATypeOK
<1>6. OpOK'
  BY <1>1, <1>2, AtFacts, CAAssumption DEF CAType, OpOK, Running, SaveSteps, Saves, Updates, Late, Items
<1>7. BoundsOK'
  <2>1. \A k \in DOMAIN records' : records'[k].file \in 1..ops
    BY <1>1, <1>3, <1>4, RecordFacts, AtFacts DEF CAType, BoundsOK, Late
  <2>2. \A i \in Items : index[i] # None => index[i].at \in DOMAIN records'
    BY <1>1, <1>4, RecordFacts DEF CAType, BoundsOK
  <2>3. QED
    BY <1>1, <1>2, <1>4, <2>1, <2>2, RecordFacts, AtFacts DEF CAType, BoundsOK, Running
<1>8. QED
  BY <1>5, <1>6, <1>7 DEF CAType

(* The truncated file of an update keeps the types. *)
LEMMA TruncateFileType == CAType /\ TruncateFile => CAType'
<1> SUFFICES ASSUME CAType, TruncateFile PROVE CAType'
  OBVIOUS
<1> USE DEF bounds, memory, TruncateFile
<1>1. /\ At("truncate") /\ CATypeOK /\ op # None /\ op.item \in Items /\ op.item # None
      /\ op.kind \in Updates
  BY AtFacts DEF Late
<1>2. /\ op' \in Op /\ answer' = answer /\ op'.kind = op.kind /\ op'.item = op.item
      /\ op'.step = "rewrite" /\ op'.file = op.file /\ op'.todo = op.todo
  BY <1>1, GoTypes DEF Steps
<1>5. CATypeOK'
  BY <1>2 DEF CAType, CATypeOK
<1>6. OpOK'
  BY <1>1, <1>2, AtFacts, CAAssumption DEF CAType, OpOK, Running, UpdateSteps, Saves, Updates, Kinds, Late, Items
<1>7. BoundsOK'
  BY <1>1, <1>2, AtFacts DEF CAType, BoundsOK, Running, Late, Saves, Updates
<1>8. QED
  BY <1>5, <1>6, <1>7 DEF CAType

(* The record of an update keeps the types. *)
LEMMA RewriteRecordType == CAType /\ RewriteRecord => CAType'
<1> SUFFICES ASSUME CAType, RewriteRecord PROVE CAType'
  OBVIOUS
<1> USE DEF bounds, memory, RewriteRecord
<1>1. /\ At("rewrite") /\ CATypeOK /\ op # None /\ op.item \in Items /\ op.item # None
      /\ op.kind \in Updates
  BY AtFacts DEF Late
<1>2. /\ op' \in Op /\ answer' = answer /\ op'.kind = op.kind /\ op'.item = op.item
      /\ op'.step = "seal" /\ op'.file = op.file /\ op'.todo = op.todo
  BY <1>1, GoTypes DEF Steps
<1>3. Entry \in Record /\ Entry.file = op.file
  BY <1>1, EntryFacts
<1>4. /\ records' \in Seq(Record)
      /\ Len(records') = Len(records) /\ DOMAIN records' = DOMAIN records
      /\ \A k \in DOMAIN records : records'[k].file \in 1..ops
  <2> DEFINE j == index[op.item].at
  <2>1. j \in DOMAIN records
    BY <1>1, AtFacts DEF Late, Saves, Updates
  <2>2. /\ records' \in Seq(Record)
        /\ Len(records') = Len(records) /\ DOMAIN records' = DOMAIN records
        /\ records'[j].file \in 1..ops
        /\ \A k \in DOMAIN records \ {j} : records'[k] = records[k]
    BY <1>1, <1>3, <2>1, RewriteFacts, AtFacts DEF Late, CAType, BoundsOK
  <2>3. QED
    BY <2>2 DEF CAType, BoundsOK
<1>5. CATypeOK'
  <2>1. expired' \in SUBSET Nat /\ count' \in Nat
    BY <1>1 DEF CATypeOK
  <2>2. QED
    BY <1>2, <1>4, <2>1 DEF CAType, CATypeOK
<1>6. OpOK'
  BY <1>1, <1>2, AtFacts, CAAssumption DEF CAType, OpOK, Running, UpdateSteps, Saves, Updates, Kinds, Late, Items
<1>7. BoundsOK'
  BY <1>1, <1>2, <1>4, AtFacts DEF CAType, BoundsOK, Running, Late, Saves, Updates
<1>8. QED
  BY <1>5, <1>6, <1>7 DEF CAType

(* The record of a deletion keeps the types. *)
LEMMA RevokeRecordType == CAType /\ RevokeRecord => CAType'
<1> SUFFICES ASSUME CAType, RevokeRecord PROVE CAType'
  OBVIOUS
<1> USE DEF bounds, memory, RevokeRecord
<1>1. /\ At("revoke") /\ CATypeOK /\ op # None /\ op.item \in Items /\ op.item # None
      /\ op.kind \in {"revoke", "gc"}
  BY AtFacts DEF Late
<1>2. /\ op' \in Op /\ answer' = answer /\ op'.kind = op.kind /\ op'.item = op.item
      /\ op'.step = "seal" /\ op'.file = op.file /\ op'.todo = op.todo
  BY <1>1, GoTypes DEF Steps
<1>3. \A r \in Record : RevokedRecord(r) \in Record /\ RevokedRecord(r).file = r.file
  <2>1. count + 1 \in Nat
    BY <1>1 DEF CATypeOK
  <2>2. QED
    BY <2>1 DEF Record, RevokedRecord
<1>4. /\ records' \in Seq(Record)
      /\ Len(records') = Len(records) /\ DOMAIN records' = DOMAIN records
      /\ \A k \in DOMAIN records : records'[k].file \in 1..ops
  <2> DEFINE j == index[op.item].at
  <2>1. j \in DOMAIN records
    BY <1>1, AtFacts DEF Late, Saves, Updates
  <2>2. /\ records' \in Seq(Record)
        /\ Len(records') = Len(records) /\ DOMAIN records' = DOMAIN records
        /\ records'[j].file \in 1..ops
        /\ \A k \in DOMAIN records \ {j} : records'[k] = records[k]
    BY <1>1, <1>3, <2>1, RewriteFacts, RecordFacts, AtFacts DEF Late, CAType, BoundsOK
  <2>3. QED
    BY <2>2 DEF CAType, BoundsOK
<1>5. CATypeOK'
  BY <1>2, <1>4 DEF CAType, CATypeOK
<1>6. OpOK'
  BY <1>1, <1>2, AtFacts, CAAssumption DEF CAType, OpOK, Running, DeleteSteps, Saves, Updates, Kinds, Late, Items
<1>7. BoundsOK'
  <2>1. UNCHANGED <<up, index, next, ops>>
    OBVIOUS
  <2>2. op.kind \notin Saves /\ op.step \notin Late
    BY <1>1, AtFacts DEF Saves, Late
  <2> HIDE DEF bounds, memory, RevokeRecord
  <2>3. QED
    BY <1>1, <1>2, <1>4, <2>1, <2>2 DEF CAType, BoundsOK, Running
<1>8. QED
  BY <1>5, <1>6, <1>7 DEF CAType

(* The header, and the entry of an update, keep the types. *)
LEMMA SealHeaderType == CAType /\ SealHeader => CAType'
<1> SUFFICES ASSUME CAType, SealHeader PROVE CAType'
  OBVIOUS
<1> USE DEF bounds, SealHeader
<1>1. At("seal") /\ CATypeOK /\ op # None /\ op.item \in Items /\ op.item # None
  BY AtFacts DEF Late
<1> DEFINE s == IF op.kind \in Saves \cup Updates THEN "content" ELSE "unlink"
<1>2. /\ op' \in Op /\ answer' = answer /\ op'.kind = op.kind /\ op'.item = op.item
      /\ op'.step = s /\ op'.file = op.file /\ op'.todo = op.todo
  BY <1>1, GoTypes DEF Steps
<1>3. /\ index' \in [Items -> Slot \cup {None}]
      /\ \A i \in Items : index'[i] # None =>
           index[i] # None /\ index'[i].at = index[i].at
      /\ \A i \in Items : index[i] # None => index'[i] # None
  <2>1. CASE op.kind \in Updates
    <3>1. index[op.item] # None /\ index[op.item].at \in Nat
      BY <1>1, <2>1, RecordFacts DEF CAType, BoundsOK, Updates, Saves, Late, At
    <3>2. Stored(index[op.item].at) \in Slot /\ Stored(index[op.item].at) # None
      BY <1>1, <3>1, EntryFacts, NoneAssumption
    <3>3. index' = [index EXCEPT ![op.item] = Stored(index[op.item].at)]
      BY <2>1
    <3>4. Stored(index[op.item].at).at = index[op.item].at
      BY DEF Stored
    <3>5. index \in [Items -> Slot \cup {None}]
      BY <1>1 DEF CATypeOK
    <3>6. QED
      BY <1>1, <3>1, <3>2, <3>3, <3>4, <3>5
  <2>2. CASE op.kind \notin Updates
    BY <1>1, <2>2 DEF CATypeOK
  <2>3. QED
    BY <2>1, <2>2
<1>4. header' \in [count: Nat, size: Nat]
  BY <1>1, RecordFacts DEF CATypeOK
<1>5. CATypeOK'
  BY <1>2, <1>3, <1>4 DEF CAType, CATypeOK
<1>6. OpOK'
  BY <1>1, <1>2, OpFacts DEF CAType, OpOK, Running, SaveSteps, UpdateSteps, DeleteSteps, Saves, Updates, Kinds, Late
<1>7. BoundsOK'
  BY <1>1, <1>2, <1>3, OpFacts DEF CAType, BoundsOK, Running, Late, Saves, Updates, Kinds, At
<1>8. QED
  BY <1>5, <1>6, <1>7 DEF CAType

(* The content, and the entry of a save, keep the types. *)
LEMMA WriteContentType == CAType /\ WriteContent => CAType'
<1> SUFFICES ASSUME CAType, WriteContent PROVE CAType'
  OBVIOUS
<1> USE DEF bounds, WriteContent
<1>1. /\ At("content") /\ CATypeOK /\ op # None /\ op.item \in Items /\ op.item # None
      /\ op.kind \in Saves \cup Updates
  <2>1. op.kind \notin {"revoke", "gc"}
    BY AtFacts DEF CAType, OpOK, DeleteSteps
  <2>2. QED
    BY <2>1, AtFacts, OpFacts DEF Late, Kinds
<1>2. /\ \/ op' = None
         \/ /\ op' \in Op /\ op'.kind = op.kind /\ op'.item = op.item
            /\ op'.step = "state" /\ op'.file = op.file /\ op'.todo = op.todo
      /\ answer' \in {"ok", "err"}
  <2>1. answer \in {"ok", "err"} /\ "state" \in Steps
    BY <1>1 DEF CATypeOK, Steps
  <2>2. (op' = None /\ answer' = "err") \/ Go("state")
    BY DEF Ends
  <2>3. QED
    BY <1>1, <2>1, <2>2, GoTypes
<1>3. /\ index' \in [Items -> Slot \cup {None}]
      /\ \A i \in Items : index'[i] # None => index'[i].at \in DOMAIN records
      /\ \A i \in Items : index[i] # None => index'[i] # None
  <2>1. CASE op.kind \in Saves
    <3>1. Len(records) \in DOMAIN records /\ Len(records) \in Nat
      BY <1>1, <2>1, RecordFacts, AtFacts
    <3>2. Stored(Len(records)) \in Slot /\ Stored(Len(records)) # None
      BY <1>1, <3>1, EntryFacts, NoneAssumption
    <3>3. index' = [index EXCEPT ![op.item] = Stored(Len(records))]
      BY <2>1
    <3>4. Stored(Len(records)).at = Len(records)
      BY DEF Stored
    <3>5. /\ index \in [Items -> Slot \cup {None}]
          /\ \A i \in Items : index[i] # None => index[i].at \in DOMAIN records
      BY <1>1 DEF CATypeOK, CAType, BoundsOK
    <3>6. QED
      BY <1>1, <3>1, <3>2, <3>3, <3>4, <3>5
  <2>2. CASE op.kind \notin Saves
    BY <1>1, <2>2 DEF CATypeOK, CAType, BoundsOK
  <2>3. QED
    BY <2>1, <2>2
<1>4. content' \in [FileNos -> Nat \cup {None, Empty}] /\ serial' \in Nat
  <2>1. op.ver \in Nat
    BY <1>1, OpFacts
  <2>2. content \in [FileNos -> Nat \cup {None, Empty}] /\ serial \in Nat
    BY <1>1 DEF CATypeOK
  <2>3. /\ content' = [content EXCEPT ![op.file] = op.ver]
        /\ serial' \in {serial, serial + 1}
    OBVIOUS
  <2>4. content' \in [FileNos -> Nat \cup {None, Empty}]
    BY <2>1, <2>2, <2>3
  <2>5. serial' \in Nat
    BY <2>2, <2>3
  <2>6. QED
    BY <2>4, <2>5
<1>5. CATypeOK'
  BY <1>2, <1>3, <1>4 DEF CAType, CATypeOK
<1>6. OpOK'
  BY <1>1, <1>2, AtFacts, CAAssumption DEF OpOK, Running, SaveSteps, UpdateSteps, Saves, Updates, Late, Items
<1>7. BoundsOK'
  BY <1>1, <1>2, <1>3, AtFacts DEF CAType, BoundsOK, Running, Late, Saves, Updates
<1>8. QED
  BY <1>5, <1>6, <1>7 DEF CAType

(* The truncated state file keeps the types. *)
LEMMA TruncateStateType == CAType /\ TruncateState => CAType'
<1> SUFFICES ASSUME CAType, TruncateState PROVE CAType'
  OBVIOUS
<1> USE DEF bounds, memory, TruncateState
<1>1. At("state") /\ CATypeOK /\ op # None /\ op \in Op
  BY AtFacts
<1>2. /\ op' \in Op /\ answer' = answer /\ op'.kind = op.kind /\ op'.item = op.item
      /\ op'.step = "write" /\ op'.file = op.file /\ op'.todo = op.todo
  BY <1>1, GoTypes DEF Steps
<1>5. CATypeOK'
  BY <1>2 DEF CAType, CATypeOK
<1>6. OpOK'
  BY <1>1, <1>2, OpFacts DEF CAType, OpOK, Running, SaveSteps, UpdateSteps, DeleteSteps, Late, At
<1>7. BoundsOK'
  BY <1>1, <1>2 DEF CAType, BoundsOK, Running, Late, At
<1>8. QED
  BY <1>5, <1>6, <1>7 DEF CAType

(* The written state file keeps the types. *)
LEMMA WriteStateType == CAType /\ WriteState => CAType'
<1> SUFFICES ASSUME CAType, WriteState PROVE CAType'
  OBVIOUS
<1> USE DEF bounds, memory, WriteState
<1>1. CATypeOK /\ op # None /\ op' = None /\ answer' = "ok"
  BY AtFacts DEF Ends
<1>2. state' \in Sealed
  BY <1>1 DEF SavedState, Sealed, CATypeOK
<1>3. issued' \in Seq(Nat)
  BY <1>1, OpFacts DEF CATypeOK
<1>4. acked' \in [Items -> Nat \cup {None}]
  BY <1>1, OpFacts DEF CATypeOK
<1>5. CATypeOK'
  BY <1>1, <1>2, <1>3, <1>4 DEF CAType, CATypeOK
<1>6. OpOK' /\ BoundsOK'
  BY <1>1 DEF CAType, OpOK, BoundsOK, Running
<1>7. QED
  BY <1>5, <1>6 DEF CAType

(* DeleteExpired goes on to an entry, to the state file, or ends. *)
LEMMA ExpiredFacts ==
  ASSUME CAType, NEW o \in Op, o.kind = "gc", NEW todo \in SUBSET Items,
         \A i \in todo : index[i] # None, NEW err \in BOOLEAN,
         ExpiredFrom(o, todo, err)
  PROVE  /\ answer' \in {"ok", "err"}
         /\ \/ op' = None /\ answer' = "err" /\ err
            \/ /\ op' \in Op /\ op' # None /\ op'.kind = "gc" /\ op'.step = "revoke"
               /\ op'.item \in todo /\ op'.todo = todo \ {op'.item}
               /\ op'.file \in 1..ops
               /\ op'.file = records[index[op'.item].at].file
            \/ /\ op' \in Op /\ op' # None /\ op'.kind = "gc" /\ op'.step = "state"
               /\ op'.item = None /\ op'.todo = {}
<1>a. ops \in Nat
  BY DEF CAType, CATypeOK
<1>0. answer \in {"ok", "err"} /\ None \notin Op
  BY NoneAssumption DEF CAType, CATypeOK
<1>1. CASE todo = {} /\ err /\ op' = None /\ answer' = "err"
  BY <1>1
<1>2. CASE /\ todo = {} /\ ~err
           /\ op' = [o EXCEPT !.item = None, !.step = "state", !.todo = {}]
           /\ UNCHANGED answer
  BY <1>0, <1>2 DEF Op, Steps
<1>3. ASSUME NEW i \in todo,
             op' = [o EXCEPT !.item = i, !.step = "revoke", !.todo = todo \ {i},
                             !.file = records[index[i].at].file, !.err = err],
             UNCHANGED answer
      PROVE  /\ op' \in Op /\ op'.kind = "gc" /\ op'.step = "revoke"
             /\ op'.item = i /\ op'.todo = todo \ {op'.item} /\ op'.file \in 1..ops
             /\ op'.file = records[index[i].at].file
  <2>1. records[index[i].at].file \in 1..ops /\ ops \in Nat
    BY DEF CAType, BoundsOK, CATypeOK
  <2>2. records[index[i].at].file \in Nat
    BY <2>1, <1>a, 1..ops \subseteq Nat
  <2>3. QED
    BY <1>3, <2>1, <2>2 DEF Op, Steps
<1>4. QED
  BY <1>0, <1>1, <1>2, <1>3 DEF ExpiredFrom

(* The removal of an entry keeps the types. *)
LEMMA RemoveFileType == CAType /\ RemoveFile => CAType'
<1> SUFFICES ASSUME CAType, RemoveFile PROVE CAType'
  OBVIOUS
<1> USE DEF RemoveFile
<1>1. /\ At("unlink") /\ CATypeOK /\ op # None /\ op \in Op /\ op.item \in Items
      /\ op.item # None /\ op.kind \in {"revoke", "gc"} /\ op.file \in 1..ops
  BY AtFacts DEF Late
<1>2. /\ index' \in [Items -> Slot \cup {None}]
      /\ \A i \in Items : index'[i] # None => index'[i] = index[i]
      /\ \A i \in Items \ {op.item} : index'[i] = index[i]
  BY <1>1 DEF CATypeOK
<1>3. content' \in [FileNos -> Nat \cup {None, Empty}] /\ failures' \in Nat
  <2>1. content \in [FileNos -> Nat \cup {None, Empty}] /\ failures \in Nat
    BY <1>1 DEF CATypeOK
  <2>2. \/ content' = [content EXCEPT ![op.file] = None]
        \/ content' = content
    OBVIOUS
  <2>3. failures' \in {failures, failures + 1}
    OBVIOUS
  <2>4. content' \in [FileNos -> Nat \cup {None, Empty}]
    BY <2>1, <2>2
  <2>5. QED
    BY <2>1, <2>3, <2>4
<1>4. CASE op.kind = "gc"
  <2>1. \A i \in op.todo : index[i] # None /\ i # op.item
    BY <1>1 DEF CAType, BoundsOK
  <2>2. op.todo \in SUBSET Items /\ op.err \in BOOLEAN
    BY <1>1, OpFacts
  <2>3. /\ answer' \in {"ok", "err"}
        /\ \/ op' = None
           \/ /\ op' \in Op /\ op' # None /\ op'.kind = "gc" /\ op'.step = "revoke"
              /\ op'.item \in op.todo /\ op'.todo = op.todo \ {op'.item}
              /\ op'.file \in 1..ops
           \/ /\ op' \in Op /\ op' # None /\ op'.kind = "gc" /\ op'.step = "state"
              /\ op'.item = None /\ op'.todo = {}
    BY <1>1, <1>4, <2>1, <2>2, ExpiredFacts
  <2>4. CATypeOK'
    BY <1>2, <1>3, <2>3 DEF CAType, CATypeOK
  <2>5. OpOK'
    BY <1>1, <2>2, <2>3, CAAssumption DEF CAType, OpOK, Running, DeleteSteps, Late, Items, Saves, Updates
  <2>6. BoundsOK'
    BY <1>1, <1>2, <2>1, <2>2, <2>3 DEF CAType, BoundsOK, Running, Late, Saves
  <2>7. QED
    BY <2>4, <2>5, <2>6 DEF CAType
<1>5. CASE op.kind = "revoke"
  <2>1. /\ op' \in Op /\ answer' = answer /\ op'.kind = op.kind /\ op'.item = op.item
        /\ op'.step = "state" /\ op'.file = op.file /\ op'.todo = op.todo
    BY <1>1, <1>5, GoTypes DEF Steps
  <2>2. CATypeOK'
    BY <1>2, <1>3, <2>1 DEF CAType, CATypeOK
  <2>3. OpOK'
    BY <1>1, <1>5, <2>1, AtFacts DEF OpOK, Running, DeleteSteps, Late, Saves, Updates
  <2>4. BoundsOK'
    BY <1>1, <1>2, <2>1 DEF CAType, BoundsOK, Running, Late
  <2>5. QED
    BY <2>2, <2>3, <2>4 DEF CAType
<1>6. QED
  BY <1>1, <1>4, <1>5

(* A failed write keeps the types. *)
LEMMA WriteFailsType == CAType /\ WriteFails => CAType'
<1> SUFFICES ASSUME CAType, WriteFails PROVE CAType'
  OBVIOUS
<1> USE DEF WriteFails, disk
<1>1. CATypeOK /\ op # None /\ op \in Op
  BY OpFacts DEF CAType
<1>2. count' \in Nat /\ failures' \in Nat /\ orphans' \in SUBSET Items
  <2>1. op.item # None => op.item \in Items
    BY <1>1, OpFacts
  <2>2. op.kind \in Saves => op.item # None
    BY <1>1 DEF CAType, OpOK, Saves
  <2>3. count \in Nat /\ failures \in Nat /\ orphans \in SUBSET Items
    BY <1>1 DEF CATypeOK
  <2>4. count' \in {count, count + 1} /\ orphans' \in {orphans, orphans \cup {op.item}}
    OBVIOUS
  <2>5. op.kind \notin Saves => orphans' = orphans
    OBVIOUS
  <2>6. QED
    BY <2>1, <2>2, <2>3, <2>4, <2>5
<1>3. CASE op.kind = "gc" /\ op.step \in {"revoke", "seal"}
  <2>1. \A i \in op.todo : index[i] # None
    BY <1>1 DEF CAType, BoundsOK
  <2>2. op.todo \in SUBSET Items
    BY <1>1, OpFacts
  <2>3. /\ answer' \in {"ok", "err"}
        /\ \/ op' = None
           \/ /\ op' \in Op /\ op' # None /\ op'.kind = "gc" /\ op'.step = "revoke"
              /\ op'.item \in op.todo /\ op'.todo = op.todo \ {op'.item}
              /\ op'.file \in 1..ops
           \/ /\ op' \in Op /\ op' # None /\ op'.kind = "gc" /\ op'.step = "state"
              /\ op'.item = None /\ op'.todo = {}
    BY <1>1, <1>3, <2>1, <2>2, ExpiredFacts
  <2>4. CATypeOK'
    BY <1>2, <2>3 DEF CAType, CATypeOK
  <2>5. OpOK'
    BY <1>1, <2>2, <2>3, CAAssumption DEF CAType, OpOK, Running, DeleteSteps, Late, Items, Saves, Updates
  <2>6. BoundsOK'
    BY <1>1, <2>1, <2>2, <2>3 DEF CAType, BoundsOK, Running, Late, Saves
  <2>7. QED
    BY <2>4, <2>5, <2>6 DEF CAType
<1>4. CASE ~(op.kind = "gc" /\ op.step \in {"revoke", "seal"})
  <2>1. op' = None /\ answer' = "err"
    BY <1>4 DEF Ends
  <2>2. CATypeOK'
    BY <1>2, <2>1 DEF CAType, CATypeOK
  <2>3. QED
    BY <2>1, <2>2 DEF CAType, OpOK, BoundsOK, Running
<1>5. QED
  BY <1>3, <1>4

(* An operation begins. *)
LEMMA BeginFacts ==
  ASSUME CAType, NEW kind \in Kinds, NEW i \in Items, NEW step \in Steps,
         NEW file \in Nat, NEW ver \in Nat, Begins(kind, i, step, file, ver)
  PROVE  /\ Running /\ op = None /\ ops < MaxOps /\ ops' = ops + 1
         /\ op' \in Op /\ op' # None
         /\ op'.kind = kind /\ op'.item = i /\ op'.step = step
         /\ op'.file = file /\ op'.ver = ver /\ op'.todo = {}
         /\ acked' \in [Items -> Nat \cup {None}]
<1>1. op' = [kind |-> kind, item |-> i, step |-> step, file |-> file,
             ver |-> ver, todo |-> {}, err |-> FALSE]
  BY DEF Begins
<1>2. op' \in Op
  BY <1>1 DEF Op
<1>3. acked' \in [Items -> Nat \cup {None}]
  BY DEF Begins, CAType, CATypeOK
<1>4. Running /\ op = None /\ ops < MaxOps /\ ops' = ops + 1
  BY DEF Begins, Running
<1>5. /\ op'.kind = kind /\ op'.item = i /\ op'.step = step
      /\ op'.file = file /\ op'.ver = ver /\ op'.todo = {}
  BY <1>1
<1>6. QED
  BY <1>2, <1>3, <1>4, <1>5, NoneAssumption

(* The begin of a save keeps the types. *)
LEMMA SavingType ==
  ASSUME CAType, NEW kind \in Saves, NEW i \in Items, NEW ver \in Nat,
         Saving(kind, i, ver)
  PROVE  CAType'
<1>1. /\ index[i] = None /\ next' = next + 1 /\ Begins(kind, i, "create", next, ver)
      /\ next \in Nat
  BY DEF Saving, CAType, CATypeOK
<1>2. /\ Running /\ op = None /\ ops < MaxOps /\ ops' = ops + 1
      /\ op' \in Op /\ op' # None
      /\ op'.kind = kind /\ op'.item = i /\ op'.step = "create"
      /\ op'.file = next /\ op'.todo = {}
      /\ acked' \in [Items -> Nat \cup {None}]
  BY <1>1, BeginFacts DEF Saves, Kinds, Steps
<1> USE DEF Begins, disk
<1>3. ops \in Nat /\ MaxOps \in Nat /\ i # None
  BY CAAssumption DEF CAType, CATypeOK, Items
<1>4. CATypeOK'
  <2>1. UNCHANGED <<records, header, content, state, up, index, count, serial,
                    expired, failures, stops, answer, issued, orphans>>
    BY <1>1
  <2>2. next' \in Nat /\ ops' \in Nat
    BY <1>1, <1>2, <1>3
  <2> HIDE DEF Begins, disk
  <2>3. QED
    BY <1>2, <2>1, <2>2 DEF CAType, CATypeOK
<1>5. OpOK'
  BY <1>1, <1>2, <1>3 DEF OpOK, Running, Saves, Updates, SaveSteps, Late
<1>6. BoundsOK'
  <2>1. \A x : x \in 1..ops => x \in 1..ops + 1
    BY <1>3
  <2>2. next \in 1..ops + 1 /\ next' \in 1..ops' + 1
    BY <1>1, <1>2, <1>3 DEF CAType, BoundsOK
  <2>3. \A k \in DOMAIN records' : records'[k].file \in 1..ops'
    BY <1>1, <1>2, <2>1 DEF CAType, BoundsOK
  <2>4. QED
    BY <1>1, <1>2, <1>3, <2>2, <2>3 DEF CAType, BoundsOK, Running, Saves, Late
<1>7. QED
  BY <1>4, <1>5, <1>6 DEF CAType

(* The begin of an update or a deletion keeps the types. *)
LEMMA UpdatingType ==
  ASSUME CAType, NEW kind \in Updates \cup {"revoke"}, NEW i \in Items,
         NEW ver \in Nat, index[i] # None,
         NEW step, step = IF kind = "revoke" THEN "revoke" ELSE "truncate",
         Begins(kind, i, step, records[index[i].at].file, ver), UNCHANGED next
  PROVE  CAType'
<1>1. ops \in Nat /\ MaxOps \in Nat /\ i # None
  BY CAAssumption DEF CAType, CATypeOK, Items
<1>2. records[index[i].at].file \in 1..ops
  BY DEF CAType, BoundsOK
<1>3. records[index[i].at].file \in Nat
  BY <1>1, <1>2, 1..ops \subseteq Nat
<1>4. /\ Running /\ op = None /\ ops < MaxOps /\ ops' = ops + 1
      /\ op' \in Op /\ op' # None
      /\ op'.kind = kind /\ op'.item = i /\ op'.step = step
      /\ op'.file = records[index[i].at].file /\ op'.todo = {}
      /\ acked' \in [Items -> Nat \cup {None}]
  <2>1. kind \in Kinds /\ step \in Steps
    BY DEF Updates, Kinds, Steps
  <2>2. QED
    BY <1>3, <2>1, BeginFacts
<1> USE DEF Begins, disk
<1>5. CATypeOK'
  <2>1. UNCHANGED <<records, header, content, state, up, index, count, next, serial,
                    expired, failures, stops, answer, issued, orphans>>
    OBVIOUS
  <2>2. ops' \in Nat
    BY <1>1, <1>4
  <2> HIDE DEF Begins, disk
  <2>3. QED
    BY <1>4, <2>1, <2>2 DEF CAType, CATypeOK
<1>6. OpOK'
  BY <1>1, <1>4 DEF OpOK, Running, Saves, Updates, UpdateSteps, DeleteSteps, Late
<1>7. BoundsOK'
  <2>1. \A x : x \in 1..ops => x \in 1..ops + 1
    BY <1>1
  <2>2. next' \in 1..ops' + 1
    BY <1>1, <1>4 DEF CAType, BoundsOK
  <2>3. \A k \in DOMAIN records' : records'[k].file \in 1..ops'
    BY <1>4, <2>1 DEF CAType, BoundsOK
  <2>4. QED
    BY <1>1, <1>2, <1>4, <2>1, <2>2, <2>3 DEF CAType, BoundsOK, Running, Saves, Updates, Late
<1>8. QED
  BY <1>5, <1>6, <1>7 DEF CAType

(* The begin of a collection of what is over keeps the types. *)
LEMMA DeleteExpiredType == CAType /\ DeleteExpiredCertificates => CAType'
<1> SUFFICES ASSUME CAType, DeleteExpiredCertificates PROVE CAType'
  OBVIOUS
<1> DEFINE o == [kind |-> "gc", item |-> None, step |-> "state", file |-> 0,
                 ver |-> Gone, todo |-> {}, err |-> FALSE]
           todo == {i \in Items : index[i] # None /\ index[i].over}
<1>1. o \in Op /\ o.kind = "gc"
  BY DEF Op, Kinds, Steps, Gone
<1>2. ExpiredFrom(o, todo, FALSE)
  BY DEF DeleteExpiredCertificates
<1>3. todo \in SUBSET Items /\ \A i \in todo : index[i] # None
  OBVIOUS
<1> HIDE DEF o, todo
<1>4. /\ answer' \in {"ok", "err"}
      /\ \/ op' = None
         \/ /\ op' \in Op /\ op' # None /\ op'.kind = "gc" /\ op'.step = "revoke"
            /\ op'.item \in todo /\ op'.todo = todo \ {op'.item}
            /\ op'.file \in 1..ops
         \/ /\ op' \in Op /\ op' # None /\ op'.kind = "gc" /\ op'.step = "state"
            /\ op'.item = None /\ op'.todo = {}
  BY <1>1, <1>2, <1>3, ExpiredFacts
<1>5. ops \in Nat /\ MaxOps \in Nat /\ Running /\ ops < MaxOps /\ ops' = ops + 1
  BY CAAssumption DEF CAType, CATypeOK, DeleteExpiredCertificates, Running
<1> USE DEF DeleteExpiredCertificates, disk, memory
<1>6. CATypeOK'
  <2>1. UNCHANGED <<records, header, content, state, up, index, count, next, serial,
                    expired, failures, stops, acked, issued, orphans>>
    OBVIOUS
  <2>2. ops' \in Nat
    BY <1>5
  <2> HIDE DEF DeleteExpiredCertificates, disk, memory
  <2>3. QED
    BY <1>4, <2>1, <2>2 DEF CAType, CATypeOK
<1>7. OpOK'
  BY <1>3, <1>4, <1>5, CAAssumption DEF OpOK, Running, Saves, Updates, DeleteSteps, Late, Items
<1>8. BoundsOK'
  <2>1. \A x : x \in 1..ops => x \in 1..ops + 1
    BY <1>5
  <2>2. next' \in 1..ops' + 1
    BY <1>5 DEF CAType, BoundsOK
  <2>3. \A k \in DOMAIN records' : records'[k].file \in 1..ops'
    BY <1>5, <2>1 DEF CAType, BoundsOK
  <2>4. QED
    BY <1>3, <1>4, <1>5, <2>1, <2>2, <2>3 DEF CAType, BoundsOK, Running, Saves, Late
<1>9. QED
  BY <1>6, <1>7, <1>8 DEF CAType

(* The passing of an expiry keeps the types. *)
LEMMA ExpireType ==
  ASSUME CAType, NEW k \in DOMAIN records, Expire(k)
  PROVE  CAType'
<1> USE DEF Expire, disk, bounds
<1>1. k \in Nat /\ CATypeOK /\ records[k].item \in Items
  BY RecordFacts DEF CAType, Record
<1>2. index' \in [Items -> Slot \cup {None}]
      /\ \A i \in Items : index'[i] # None => index[i] # None /\ index'[i].at = index[i].at
  <2>1. \A i \in Items : index[i] # None => [index[i] EXCEPT !.over = TRUE] \in Slot
    BY <1>1 DEF CATypeOK, Slot
  <2>2. \A i \in Items : index[i] # None => [index[i] EXCEPT !.over = TRUE].at = index[i].at
    BY <1>1 DEF CATypeOK, Slot
  <2>3. index \in [Items -> Slot \cup {None}]
    BY <1>1 DEF CATypeOK
  <2>4. QED
    BY <2>1, <2>2, <2>3
<1>3. acked' \in [Items -> Nat \cup {None}] /\ expired' \in SUBSET Nat
  BY <1>1 DEF CATypeOK
<1>4. CATypeOK'
  BY <1>1, <1>2, <1>3 DEF CATypeOK
<1>5. QED
  BY <1>2, <1>4 DEF CAType, OpOK, BoundsOK, Running

(* The end of the process keeps the types. *)
LEMMA CrashType == CAType /\ Crash => CAType'
<1> SUFFICES ASSUME CAType, Crash PROVE CAType'
  OBVIOUS
<1> USE DEF Crash, disk
<1>1. index' \in [Items -> Slot \cup {None}] /\ \A i \in Items : index'[i] = None
  OBVIOUS
<1>2. stops' \in Nat /\ answer' \in {"ok", "err"} /\ orphans' \in SUBSET Items
  <2>1. op # None /\ op.kind \in Saves => op.item \in Items
    BY OpFacts DEF CAType, OpOK, Saves
  <2>2. stops \in Nat /\ answer \in {"ok", "err"} /\ orphans \in SUBSET Items
    BY DEF CAType, CATypeOK
  <2>3. QED
    BY <2>1, <2>2
<1>3. CATypeOK'
  BY <1>1, <1>2 DEF CAType, CATypeOK
<1>4. QED
  BY <1>1, <1>3 DEF CAType, OpOK, BoundsOK, Running

(* The entry a start loads is that of the last live record. *)
LEMMA LoadedFacts ==
  ASSUME CAType, NEW i \in Items
  PROVE  /\ LoadedEntry(i) \in Slot \cup {None}
         /\ LoadedEntry(i) = None <=> LiveOf(i) = {}
         /\ LiveOf(i) # {} =>
              /\ LoadedAt(i) \in LiveOf(i) /\ LoadedEntry(i).at = LoadedAt(i)
              /\ LoadedEntry(i).ver = records[LoadedAt(i)].ver
              /\ ~LoadedEntry(i).over
              /\ \A k \in LiveOf(i) : k <= LoadedAt(i)
<1>1. LiveOf(i) \in SUBSET (0..Len(records)) /\ LiveOf(i) \subseteq DOMAIN records
  BY RecordFacts DEF CAType, LiveOf
<1>2. CASE LiveOf(i) = {}
  BY <1>2 DEF LoadedEntry
<1>3. CASE LiveOf(i) # {}
  <2>1. LoadedAt(i) \in LiveOf(i) /\ \A k \in LiveOf(i) : k <= LoadedAt(i)
    BY <1>1, <1>3, MaxOf, RecordFacts DEF CAType, LoadedAt
  <2>2. records[LoadedAt(i)].ver \in Nat /\ LoadedAt(i) \in Nat
    BY <1>1, <2>1, RecordFacts DEF CAType, Record
  <2>3. LoadedEntry(i) = [at |-> LoadedAt(i), ver |-> records[LoadedAt(i)].ver, over |-> FALSE]
    BY <1>3 DEF LoadedEntry
  <2>4. LoadedEntry(i) \in Slot
    BY <2>2, <2>3 DEF Slot
  <2>5. LoadedEntry(i) # None
    BY <2>4, NoneAssumption
  <2>6. /\ LoadedEntry(i).at = LoadedAt(i)
        /\ LoadedEntry(i).ver = records[LoadedAt(i)].ver
        /\ ~LoadedEntry(i).over
    BY <2>3
  <2>7. QED
    BY <1>3, <2>1, <2>4, <2>5, <2>6
<1>4. QED
  BY <1>2, <1>3

(* The file number a start goes on with is free. *)
LEMMA NextFacts ==
  ASSUME CAType
  PROVE  LET m == Max({1} \cup {f + 1 : f \in LiveFiles})
         IN m \in 1..ops + 1 /\ \A f \in LiveFiles : f < m
<1> DEFINE S == {1} \cup {f + 1 : f \in LiveFiles}
<1>1. ops \in Nat
  BY DEF CAType, CATypeOK
<1>2. \A f \in LiveFiles : f \in 1..ops
  BY DEF CAType, BoundsOK, LiveFiles
<1>3. S \in SUBSET (0..(ops + 1)) /\ S # {} /\ S \subseteq 1..ops + 1
  BY <1>1, <1>2
<1>4. Max(S) \in S /\ \A x \in S : x <= Max(S)
  <2>1. ops + 1 \in Nat
    BY <1>1
  <2> DEFINE n == ops + 1
  <2> HIDE DEF S, n
  <2>2. n \in Nat /\ S \in SUBSET (0..n) /\ S # {}
    BY <1>3, <2>1 DEF n
  <2>3. QED
    BY <2>2, MaxOf
<1>5. \A f \in LiveFiles : f + 1 \in S
  OBVIOUS
<1>6. Max(S) \in 1..ops + 1
  BY <1>3, <1>4
<1>7. \A f \in LiveFiles : f < Max(S)
  <2>1. SUFFICES ASSUME NEW f \in LiveFiles PROVE f < Max(S)
    OBVIOUS
  <2>2. f \in Nat /\ f + 1 \in S
    BY <1>1, <1>2, <1>5
  <2>3. f + 1 <= Max(S) /\ Max(S) \in Nat
    BY <1>1, <1>4, <1>6, <2>2
  <2>4. QED
    BY <2>2, <2>3
<1>8. QED
  BY <1>6, <1>7

(* A start keeps the types. *)
LEMMA BootType == CAType /\ Boot => CAType'
<1> SUFFICES ASSUME CAType, Boot PROVE CAType'
  OBVIOUS
<1> USE DEF disk, bounds, history
<1>1. up = "down" /\ UNCHANGED <<disk, op, expired, bounds, history>>
  BY DEF Boot
<1>2. CASE ~Loads /\ up' = "refused" /\ UNCHANGED <<index, count, next, serial>>
  BY <1>1, <1>2 DEF CAType, CATypeOK, OpOK, BoundsOK, Running
<1>3. CASE /\ Loads
           /\ up' = "run"
           /\ index' = [i \in Items |-> LoadedEntry(i)]
           /\ count' = header.count
           /\ next' = Max({1} \cup {f + 1 : f \in LiveFiles})
           /\ serial' = state.serial
  <2>1. index' \in [Items -> Slot \cup {None}]
    BY <1>3, LoadedFacts
  <2>2. \A i \in Items : index'[i] # None => index'[i].at \in DOMAIN records
    BY <1>3, LoadedFacts DEF LiveOf
  <2>3. next' \in 1..ops + 1 /\ ops \in Nat
    BY <1>3, NextFacts DEF CAType, CATypeOK
  <2>4. next' \in Nat
    BY <2>3
  <2>5. count' \in Nat /\ serial' \in Nat
    BY <1>3 DEF CAType, CATypeOK, Loads, Sealed
  <2>6. CATypeOK'
    BY <1>1, <1>3, <2>1, <2>4, <2>5 DEF CAType, CATypeOK
  <2>7. op = None
    BY <1>1 DEF CAType, OpOK, Running
  <2>8. QED
    BY <1>1, <2>2, <2>3, <2>6, <2>7 DEF CAType, OpOK, BoundsOK
<1>4. QED
  BY <1>2, <1>3 DEF Boot

(* Every step keeps the types. *)
LEMMA CATypeStep == CAType /\ [CANext]_caVars => CAType'
<1> SUFFICES ASSUME CAType, [CANext]_caVars PROVE CAType'
  OBVIOUS
<1>0. ops + 1 \in Nat /\ serial \in Nat
  BY DEF CAType, CATypeOK
<1>1. ASSUME NEW c \in Certs, IssueCertificate(c) PROVE CAType'
  BY <1>0, <1>1, SavingType DEF IssueCertificate, Items, Saves
<1>2. ASSUME NEW c \in Certs, UpdateCertificate(c) PROVE CAType'
  BY <1>0, <1>2, UpdatingType DEF UpdateCertificate, Updating, Items, Updates
<1>3. ASSUME NEW k \in Keys, SaveOrUpdateKeyPair(k) PROVE CAType'
  BY <1>0, <1>3, SavingType, UpdatingType DEF SaveOrUpdateKeyPair, Updating, Items, Saves, Updates
<1>4. ASSUME NEW i \in Items, RevokeCertificate(i) PROVE CAType'
  BY <1>4, UpdatingType DEF RevokeCertificate, Gone
<1>5. CASE CAStep
  BY <1>5, CreateFileType, AppendRecordType, TruncateFileType, RewriteRecordType,
     RevokeRecordType, SealHeaderType, WriteContentType, RemoveFileType,
     TruncateStateType, WriteStateType, WriteFailsType DEF CAStep
<1>6. CASE UNCHANGED caVars
  BY <1>6 DEF caVars, disk, memory, bounds, history, CAType, CATypeOK, OpOK, BoundsOK, Running
<1>7. QED
  BY <1>1, <1>2, <1>3, <1>4, <1>5, <1>6, DeleteExpiredType, ExpireType, CrashType,
     BootType DEF CANext

(* Type correctness of the authority, its storage and its files. *)
THEOREM CATypeCorrect == CASpec => []CATypeOK
<1>1. CAType => CATypeOK
  BY DEF CAType
<1>2. QED
  BY CATypeInit, CATypeStep, <1>1, PTL DEF CASpec


-----------------------------------------------------------------------------
(* Serial numbers.                                                         *)

Signing == op # None /\ op.kind \in {"issue", "renew"}
Signed == Signing /\ op.step \in Late

(* The serial in the memory, and the one on the disk, are ahead of every   *)
(* certificate handed out; the one being signed lies between.              *)
SerialOK ==
  /\ Signing => IF Signed THEN op.ver + 1 = serial ELSE op.ver = serial
  /\ Running => \A n \in DOMAIN issued : issued[n] < serial
  /\ Signed => \A n \in DOMAIN issued : issued[n] < op.ver
  /\ state # None => \A n \in DOMAIN issued : issued[n] < state.serial

SerialInv == SerialOK /\ SerialsUnique

(* A step that hands out nothing and leaves the counter alone. *)
LEMMA SerialQuiet ==
  ASSUME SerialInv, UNCHANGED <<serial, issued, up>>, state' \in {state, None},
         \/ op' = None
         \/ op'.kind \notin {"issue", "renew"}
         \/ Signing /\ op'.ver = op.ver /\ (op'.step \in Late <=> op.step \in Late)
         \/ op'.ver = serial /\ op'.step \notin Late
  PROVE  SerialInv'
BY DEF SerialInv, SerialOK, SerialsUnique, Signing, Signed, Running

(* An operation that goes on, within the writes before or after the content. *)
LEMMA SerialGoes ==
  ASSUME CAType, SerialInv, UNCHANGED <<serial, issued, up>>, state' \in {state, None},
         op # None, NEW s \in Steps, Go(s), s \in Late <=> op.step \in Late
  PROVE  SerialInv'
<1>1. op'.kind = op.kind /\ op'.ver = op.ver /\ op'.step = s
  BY GoTypes DEF CAType
<1>2. QED
  BY <1>1, SerialQuiet DEF Signing

(* The content of a certificate is written: its serial is used up. *)
LEMMA SerialContent == CAType /\ SerialInv /\ WriteContent => SerialInv'
<1> SUFFICES ASSUME CAType, SerialInv, WriteContent PROVE SerialInv'
  OBVIOUS
<1>1. /\ op # None /\ op.step = "content" /\ op.kind \in Kinds /\ Running /\ serial \in Nat
      /\ issued \in Seq(Nat) /\ "state" \in Steps
  BY AtFacts, OpFacts DEF WriteContent, CAType, CATypeOK, Steps
<1>2. UNCHANGED <<issued, up, state>>
  BY DEF WriteContent
<1>3. op' = None \/ (op'.kind = op.kind /\ op'.ver = op.ver /\ op'.step = "state")
  BY <1>1, GoTypes DEF WriteContent, Ends, CAType
<1>4. CASE op.kind \in {"issue", "renew"}
  <2>1. serial' = serial + 1 /\ op.ver = serial
    BY <1>1, <1>4 DEF WriteContent, SerialInv, SerialOK, Signing, Signed, Late
  <2>2. \A n \in DOMAIN issued : issued[n] \in Nat /\ issued[n] < serial
    BY <1>1 DEF SerialInv, SerialOK
  <2>3. QED
    BY <1>1, <1>2, <1>3, <2>1, <2>2
    DEF SerialInv, SerialOK, SerialsUnique, Signing, Signed, Running, Late
<1>5. CASE op.kind \notin {"issue", "renew"}
  <2>1. serial' = serial
    BY <1>5 DEF WriteContent
  <2>2. QED
    BY <1>2, <1>3, <1>5, <2>1, SerialQuiet
<1>6. QED
  BY <1>4, <1>5

(* The state is on the disk: the certificate is handed out. *)
LEMMA SerialWrite == CAType /\ SerialInv /\ WriteState => SerialInv'
<1> SUFFICES ASSUME CAType, SerialInv, WriteState PROVE SerialInv'
  OBVIOUS
<1>1. /\ op # None /\ op.step = "write" /\ op.ver \in Nat /\ Running /\ serial \in Nat
      /\ issued \in Seq(Nat)
  BY AtFacts, OpFacts DEF WriteState, CAType, CATypeOK
<1>2. op' = None /\ serial' = serial /\ up' = up /\ state'.serial = serial
  BY DEF WriteState, Ends, SavedState, memory
<1>3. \A n \in DOMAIN issued : issued[n] \in Nat /\ issued[n] < serial
  BY <1>1 DEF SerialInv, SerialOK
<1>4. CASE Signing
  <2>1. issued' = Append(issued, op.ver) /\ op.ver + 1 = serial
    BY <1>1, <1>4 DEF WriteState, Signing, Signed, Late, SerialInv, SerialOK
  <2>2. \A n \in DOMAIN issued : issued[n] < op.ver
    BY <1>1, <1>4 DEF Signed, Late, SerialInv, SerialOK
  <2>3. /\ DOMAIN issued' = DOMAIN issued \cup {Len(issued) + 1}
        /\ \A n \in DOMAIN issued : issued'[n] = issued[n]
        /\ issued'[Len(issued) + 1] = op.ver /\ Len(issued) + 1 \notin DOMAIN issued
    BY <1>1, <2>1
  <2>4. SerialsUnique'
    BY <1>1, <1>3, <2>2, <2>3 DEF SerialsUnique, SerialInv
  <2>5. \A n \in DOMAIN issued' : issued'[n] < serial
    BY <1>1, <1>3, <2>1, <2>3
  <2>6. QED
    BY <1>2, <2>4, <2>5 DEF SerialInv, SerialOK, Signing, Signed
<1>5. CASE ~Signing
  <2>1. issued' = issued
    BY <1>1, <1>5 DEF WriteState, Signing
  <2>2. QED
    BY <1>2, <1>3, <2>1 DEF SerialInv, SerialOK, SerialsUnique, Signing, Signed
<1>6. QED
  BY <1>4, <1>5

(* Every step keeps the serial numbers apart. *)
LEMMA SerialStep == CAType /\ SerialInv /\ [CANext]_caVars => SerialInv'
<1> SUFFICES ASSUME CAType, SerialInv, [CANext]_caVars PROVE SerialInv'
  OBVIOUS
<1>0. ops + 1 \in Nat /\ serial \in Nat /\ next \in Nat
  BY DEF CAType, CATypeOK
<1>1. ASSUME NEW kind \in Kinds, NEW i \in Items, NEW step \in Steps \ Late,
             NEW file, NEW ver, Begins(kind, i, step, file, ver),
             kind \in {"issue", "renew"} => ver = serial,
             UNCHANGED <<serial, up>>
      PROVE  SerialInv'
  <2>1. /\ op'.kind = kind /\ op'.step = step /\ op'.ver = ver
        /\ UNCHANGED <<issued, state>>
    BY <1>1 DEF Begins, disk
  <2>2. QED
    BY <1>1, <2>1, SerialQuiet
<1>2. ASSUME NEW c \in Certs, IssueCertificate(c) \/ UpdateCertificate(c) PROVE SerialInv'
  BY <1>1, <1>2 DEF IssueCertificate, UpdateCertificate, Saving, Updating, Begins, Items,
     Kinds, Saves, Updates, Steps, Late
<1>3. ASSUME NEW k \in Keys, SaveOrUpdateKeyPair(k) PROVE SerialInv'
  BY <1>1, <1>3 DEF SaveOrUpdateKeyPair, Saving, Updating, Begins, Items,
     Kinds, Saves, Updates, Steps, Late
<1>4. ASSUME NEW i \in Items, RevokeCertificate(i) PROVE SerialInv'
  <2>1. Begins("revoke", i, "revoke", records[index[i].at].file, Gone)
    BY <1>4 DEF RevokeCertificate
  <2>2. "revoke" \in Kinds /\ "revoke" \in Steps \ Late
    BY DEF Kinds, Steps, Late
  <2>3. UNCHANGED <<serial, up>>
    BY <2>1 DEF Begins
  <2>4. QED
    BY <1>1, <2>1, <2>2, <2>3
<1>5. CASE DeleteExpiredCertificates
  <2> DEFINE o == [kind |-> "gc", item |-> None, step |-> "state", file |-> 0,
                   ver |-> Gone, todo |-> {}, err |-> FALSE]
             todo == {i \in Items : index[i] # None /\ index[i].over}
  <2>1. o \in Op /\ o.kind = "gc"
    BY DEF Op, Kinds, Steps, Gone
  <2>2. ExpiredFrom(o, todo, FALSE)
    BY <1>5 DEF DeleteExpiredCertificates
  <2>3. todo \in SUBSET Items /\ \A i \in todo : index[i] # None
    OBVIOUS
  <2> HIDE DEF o, todo
  <2>4. op' = None \/ op'.kind = "gc"
    BY <2>1, <2>2, <2>3, ExpiredFacts
  <2>5. QED
    BY <1>5, <2>4, SerialQuiet DEF DeleteExpiredCertificates, disk, memory
<1>6. CASE CreateFile
  <2>1. op # None /\ op.step = "create" /\ UNCHANGED <<serial, issued, up, state>>
    BY <1>6 DEF CreateFile, memory, At
  <2>2. op' = None \/ Go("append")
    BY <1>6 DEF CreateFile, Ends
  <2>3. QED
    BY <2>1, <2>2, SerialQuiet, SerialGoes DEF Steps, Late
<1>7. CASE AppendRecord \/ RewriteRecord \/ RevokeRecord
  <2>1. op # None /\ op.step \notin Late /\ UNCHANGED <<serial, issued, up, state>> /\ Go("seal")
    BY <1>7 DEF AppendRecord, RewriteRecord, RevokeRecord, At, Late
  <2>2. QED
    BY <2>1, SerialGoes DEF Steps, Late
<1>8. CASE TruncateFile
  <2>1. op # None /\ op.step \notin Late /\ UNCHANGED <<serial, issued, up, state>> /\ Go("rewrite")
    BY <1>8 DEF TruncateFile, At, Late, memory
  <2>2. QED
    BY <2>1, SerialGoes DEF Steps, Late
<1>9. CASE SealHeader
  <2>1. /\ op # None /\ op.step \notin Late /\ UNCHANGED <<serial, issued, up, state>>
        /\ Go("content") \/ Go("unlink")
    BY <1>9 DEF SealHeader, At, Late
  <2>2. QED
    BY <2>1, SerialGoes DEF Steps, Late
<1>10. CASE RemoveFile
  <2>1. /\ At("unlink") /\ op # None /\ op \in Op /\ op.item # None /\ op.kind \in {"revoke", "gc"}
    BY <1>10, AtFacts DEF RemoveFile, Late
  <2>2. UNCHANGED <<serial, issued, up, state>>
    BY <1>10 DEF RemoveFile
  <2>3. op' = None \/ op'.kind \in {"revoke", "gc"}
    <3>1. CASE op.kind = "revoke"
      BY <1>10, <2>1, <3>1, GoTypes DEF RemoveFile, CAType, Steps
    <3>2. CASE op.kind = "gc"
      <4>1. ExpiredFrom(op, op.todo, op.err)
        BY <1>10, <3>2 DEF RemoveFile
      <4>2. op.todo \in SUBSET Items /\ op.err \in BOOLEAN /\ \A i \in op.todo : index[i] # None
        BY <2>1, OpFacts DEF CAType, BoundsOK
      <4>3. QED
        BY <2>1, <3>2, <4>1, <4>2, ExpiredFacts
    <3>3. QED
      BY <2>1, <3>1, <3>2
  <2>4. QED
    BY <2>2, <2>3, SerialQuiet
<1>11. CASE TruncateState
  <2>1. /\ op # None /\ op.step \in Late /\ UNCHANGED <<serial, issued, up>> /\ state' = None
        /\ Go("write")
    BY <1>11 DEF TruncateState, At, Late, memory
  <2>2. QED
    BY <2>1, SerialGoes DEF Steps, Late
<1>12. CASE WriteFails
  <2>1. /\ op # None /\ op \in Op /\ UNCHANGED <<serial, issued, up, state>>
    BY <1>12, OpFacts DEF WriteFails, disk, CAType
  <2>2. op' = None \/ op'.kind = "gc"
    <3>1. CASE op.kind = "gc" /\ op.step \in {"revoke", "seal"}
      <4>1. ExpiredFrom(op, op.todo, TRUE)
        BY <1>12, <3>1 DEF WriteFails
      <4>2. op.todo \in SUBSET Items /\ \A i \in op.todo : index[i] # None
        BY <2>1, OpFacts DEF CAType, BoundsOK
      <4>3. QED
        BY <2>1, <3>1, <4>1, <4>2, ExpiredFacts
    <3>2. QED
      BY <1>12, <3>1 DEF WriteFails, Ends
  <2>3. QED
    BY <2>1, <2>2, SerialQuiet
<1>13. ASSUME NEW k \in DOMAIN records, Expire(k) PROVE SerialInv'
  BY <1>13, SerialQuiet DEF Expire, disk
<1>14. CASE Crash
  BY <1>14 DEF Crash, disk, SerialInv, SerialOK, SerialsUnique, Signing, Signed, Running
<1>15. CASE Boot
  BY <1>15 DEF Boot, Loads, disk, history, SerialInv, SerialOK, SerialsUnique, Signing, Signed,
     Running, CAType, OpOK
<1>16. CASE UNCHANGED caVars
  BY <1>16, SerialQuiet DEF caVars, disk, memory, history, SerialInv, SerialOK, SerialsUnique,
     Signing, Signed, Running
<1>17. QED
  BY <1>2, <1>3, <1>4, <1>5, <1>6, <1>7, <1>8, <1>9, SerialContent, <1>10, <1>11,
     SerialWrite, <1>12, <1>13, <1>14, <1>15, <1>16 DEF CANext, CAStep

(* No two certificates handed out have one serial number. *)
THEOREM SerialsUniqueCorrect == CASpec => []SerialsUnique
<1>1. CAInit => SerialInv
  BY DEF CAInit, SerialInv, SerialOK, SerialsUnique, Signing, Signed, Running
<1>2. SerialInv => SerialsUnique
  BY DEF SerialInv
<1>3. QED
  BY CATypeInit, CATypeStep, SerialStep, <1>1, <1>2, PTL DEF CASpec


-----------------------------------------------------------------------------
(* The record counter and the header.                                      *)

(* The header is never ahead of the counter of the memory, and level with  *)
(* it only when it is sealed for the records that are there.               *)
HeaderOK ==
  /\ Running =>
       /\ header.count <= count
       /\ header.count = count => header.size = Len(records)
       /\ \A k \in DOMAIN records : records[k].count <= count
  /\ (Running /\ op = None /\ answer = "ok") => state # None /\ state.count = count
  /\ (op # None /\ op.step = "seal") => header.count < count

(* A step that writes neither a record nor the header. *)
LEMMA HeaderQuiet ==
  ASSUME HeaderOK, UNCHANGED <<records, header, count, up>>,
         \/ op' = None /\ answer' = "err"
         \/ op' # None /\ op'.step # "seal"
  PROVE  HeaderOK'
BY DEF HeaderOK, Running

(* A record is written, under the counter counted up. *)
LEMMA HeaderBehind ==
  ASSUME CAType, HeaderOK, Running, UNCHANGED <<header, up>>, count' = count + 1,
         records' \in Seq(Record),
         \A k \in DOMAIN records' :
            records'[k].count = count + 1
              \/ (k \in DOMAIN records /\ records'[k] = records[k]),
         \/ op' = None /\ answer' = "err"
         \/ op' # None
  PROVE  HeaderOK'
<1>1. count \in Nat /\ header.count \in Nat /\ \A k \in DOMAIN records : records[k].count \in Nat
  BY RecordFacts DEF CAType, CATypeOK, Record
<1>2. header.count < count + 1 /\ \A k \in DOMAIN records : records[k].count <= count + 1
  BY <1>1 DEF HeaderOK
<1>3. header'.count < count' /\ \A k \in DOMAIN records' : records'[k].count <= count'
  BY <1>1, <1>2
<1>4. header'.count # count' /\ header'.count <= count'
  BY <1>1, <1>3
<1>5. QED
  BY <1>3, <1>4 DEF HeaderOK, Running

(* Every write of a record leaves the header behind. *)
LEMMA HeaderRecord ==
  CAType /\ HeaderOK /\ (AppendRecord \/ RewriteRecord \/ RevokeRecord) => HeaderOK'
<1> SUFFICES ASSUME CAType, HeaderOK, AppendRecord \/ RewriteRecord \/ RevokeRecord
             PROVE  HeaderOK'
  OBVIOUS
<1>1. /\ op # None /\ Running /\ op.item \in Items /\ op.item # None /\ CATypeOK
      /\ ~AppendRecord => index[op.item].at \in DOMAIN records
  BY AtFacts DEF AppendRecord, RewriteRecord, RevokeRecord, Late, CAType, Saves, Updates
<1>2. op' # None /\ count' = count + 1 /\ UNCHANGED <<header, up>>
  BY <1>1, GoTypes DEF AppendRecord, RewriteRecord, RevokeRecord, Steps
<1>3. Entry \in Record /\ Entry.count = count + 1
  BY <1>1, EntryFacts
<1>4. CASE AppendRecord
  <2>1. /\ records' \in Seq(Record) /\ DOMAIN records' = 1..Len(records) + 1
        /\ records'[Len(records) + 1] = Entry
        /\ \A k \in DOMAIN records : records'[k] = records[k]
    BY <1>1, <1>3, <1>4, AppendFacts DEF AppendRecord
  <2>2. \A k \in DOMAIN records' : k = Len(records) + 1 \/ k \in DOMAIN records
    BY <1>1, <2>1, RecordFacts
  <2>3. QED
    BY <1>1, <1>2, <1>3, <2>1, <2>2, HeaderBehind
<1>5. CASE RewriteRecord
  <2>1. /\ records' \in Seq(Record) /\ DOMAIN records' = DOMAIN records
        /\ records'[index[op.item].at] = Entry
        /\ \A k \in DOMAIN records \ {index[op.item].at} : records'[k] = records[k]
    <3> DEFINE j == index[op.item].at
    <3>1. j \in DOMAIN records /\ records' = [records EXCEPT ![j] = Entry]
      BY <1>1, <1>5, AtFacts DEF RewriteRecord, Updates, Saves, Late
    <3> HIDE DEF j
    <3>2. /\ records' \in Seq(Record) /\ DOMAIN records' = DOMAIN records
          /\ records'[j] = Entry /\ \A k \in DOMAIN records \ {j} : records'[k] = records[k]
      BY <1>1, <1>3, <3>1, RewriteFacts
    <3>3. QED
      BY <3>2 DEF j
  <2>2. QED
    BY <1>1, <1>2, <1>3, <2>1, HeaderBehind
<1>6. CASE RevokeRecord
  <2> DEFINE j == index[op.item].at
  <2>1. j \in DOMAIN records /\ records' = [records EXCEPT ![j] = RevokedRecord(records[j])]
    BY <1>6, AtFacts DEF RevokeRecord, Saves, Late
  <2>2. RevokedRecord(records[j]) \in Record /\ RevokedRecord(records[j]).count = count + 1
    <3>1. count + 1 \in Nat /\ records[j] \in Record
      BY <1>1, <2>1, RecordFacts DEF CATypeOK
    <3>2. QED
      BY <3>1 DEF Record, RevokedRecord
  <2> HIDE DEF j
  <2>3. /\ records' \in Seq(Record) /\ DOMAIN records' = DOMAIN records
        /\ records'[j] = RevokedRecord(records[j])
        /\ \A k \in DOMAIN records \ {j} : records'[k] = records[k]
    BY <1>1, <2>1, <2>2, RewriteFacts
  <2>4. QED
    BY <1>1, <1>2, <2>2, <2>3, HeaderBehind
<1>7. QED
  BY <1>4, <1>5, <1>6

(* Every step keeps the header and the counter in their order. *)
LEMMA HeaderStep == CAType /\ HeaderOK /\ [CANext]_caVars => HeaderOK'
<1> SUFFICES ASSUME CAType, HeaderOK, [CANext]_caVars PROVE HeaderOK'
  OBVIOUS
<1>0. /\ ops + 1 \in Nat /\ serial \in Nat /\ next \in Nat /\ count \in Nat
      /\ \A i \in Items : index[i] # None => records[index[i].at].file \in Nat
  <2>1. ops \in Nat /\ \A i \in Items : index[i] # None => records[index[i].at].file \in 1..ops
    BY DEF CAType, CATypeOK, BoundsOK
  <2>2. QED
    BY <2>1, 1..ops \subseteq Nat DEF CAType, CATypeOK
<1>1. ASSUME NEW kind \in Kinds, NEW i \in Items, NEW step \in Steps \ {"seal"},
             NEW file \in Nat, NEW ver \in Nat, Begins(kind, i, step, file, ver)
      PROVE  HeaderOK'
  <2>1. op' # None /\ op'.step = step
    BY <1>1, BeginFacts
  <2>2. UNCHANGED <<records, header, count, up>>
    BY <1>1 DEF Begins, disk
  <2>3. QED
    BY <1>1, <2>1, <2>2, HeaderQuiet
<1>2. ASSUME NEW c \in Certs, IssueCertificate(c) \/ UpdateCertificate(c) PROVE HeaderOK'
  BY <1>0, <1>1, <1>2 DEF IssueCertificate, UpdateCertificate, Saving, Updating, Items,
     Kinds, Saves, Updates, Steps
<1>3. ASSUME NEW k \in Keys, SaveOrUpdateKeyPair(k) PROVE HeaderOK'
  BY <1>0, <1>1, <1>3 DEF SaveOrUpdateKeyPair, Saving, Updating, Items,
     Kinds, Saves, Updates, Steps
<1>4. ASSUME NEW i \in Items, RevokeCertificate(i) PROVE HeaderOK'
  <2>1. Begins("revoke", i, "revoke", records[index[i].at].file, Gone) /\ index[i] # None
    BY <1>4 DEF RevokeCertificate
  <2>2. "revoke" \in Kinds /\ "revoke" \in Steps \ {"seal"} /\ Gone \in Nat
    BY DEF Kinds, Steps, Gone
  <2>3. QED
    BY <1>0, <1>1, <2>1, <2>2
<1>5. CASE DeleteExpiredCertificates
  <2> DEFINE o == [kind |-> "gc", item |-> None, step |-> "state", file |-> 0,
                   ver |-> Gone, todo |-> {}, err |-> FALSE]
             todo == {i \in Items : index[i] # None /\ index[i].over}
  <2>1. o \in Op /\ o.kind = "gc"
    BY DEF Op, Kinds, Steps, Gone
  <2>2. ExpiredFrom(o, todo, FALSE)
    BY <1>5 DEF DeleteExpiredCertificates
  <2>3. todo \in SUBSET Items /\ \A i \in todo : index[i] # None
    OBVIOUS
  <2> HIDE DEF o, todo
  <2>4. op' # None /\ op'.step \in {"revoke", "state"}
    BY <2>1, <2>2, <2>3, ExpiredFacts
  <2>5. QED
    BY <1>5, <2>4, HeaderQuiet DEF DeleteExpiredCertificates, disk, memory
<1>6. CASE CreateFile
  <2>1. op # None /\ UNCHANGED <<records, header, count, up>>
    BY <1>6 DEF CreateFile, memory, At
  <2>2. Ends("err") \/ Go("append")
    BY <1>6 DEF CreateFile
  <2>3. (op' = None /\ answer' = "err") \/ (op' # None /\ op'.step = "append")
    BY <2>1, <2>2, GoTypes DEF Steps, Ends, CAType
  <2>4. QED
    BY <2>1, <2>3, HeaderQuiet
<1>7. CASE TruncateFile
  <2>1. op # None /\ UNCHANGED <<records, header, count, up>> /\ Go("rewrite")
    BY <1>7 DEF TruncateFile, At, memory
  <2>2. QED
    BY <2>1, GoTypes, HeaderQuiet DEF Steps, CAType
<1>8. CASE SealHeader
  <2>1. op # None /\ UNCHANGED <<records, count, up>> /\ CATypeOK
    BY <1>8 DEF SealHeader, At, CAType
  <2>2. header' = [count |-> count, size |-> Len(records)]
    BY <1>8 DEF SealHeader
  <2>3. Go("content") \/ Go("unlink")
    BY <1>8 DEF SealHeader
  <2>4. op' # None /\ op'.step \in {"content", "unlink"}
    BY <2>1, <2>3, GoTypes DEF Steps
  <2>5. QED
    BY <1>0, <2>1, <2>2, <2>4 DEF HeaderOK, Running
<1>9. CASE WriteContent
  <2>1. op # None /\ UNCHANGED <<records, header, count, up>>
    BY <1>9 DEF WriteContent, At
  <2>2. Ends("err") \/ Go("state")
    BY <1>9 DEF WriteContent
  <2>3. (op' = None /\ answer' = "err") \/ (op' # None /\ op'.step = "state")
    BY <2>1, <2>2, GoTypes DEF Steps, Ends, CAType
  <2>4. QED
    BY <2>1, <2>3, HeaderQuiet
<1>10. CASE RemoveFile
  <2>1. /\ op # None /\ op \in Op /\ op.kind \in {"revoke", "gc"} /\ CATypeOK
    BY <1>10, AtFacts DEF RemoveFile
  <2>2. UNCHANGED <<records, header, count, up>>
    BY <1>10 DEF RemoveFile
  <2>3. (op' = None /\ answer' = "err") \/ (op' # None /\ op'.step \in {"revoke", "state"})
    <3>1. CASE op.kind = "revoke"
      BY <1>10, <2>1, <3>1, GoTypes DEF RemoveFile, Steps
    <3>2. CASE op.kind = "gc"
      <4>1. ExpiredFrom(op, op.todo, op.err)
        BY <1>10, <3>2 DEF RemoveFile
      <4>2. op.todo \in SUBSET Items /\ op.err \in BOOLEAN /\ \A i \in op.todo : index[i] # None
        BY <2>1, OpFacts DEF CAType, BoundsOK
      <4>3. QED
        BY <2>1, <3>2, <4>1, <4>2, ExpiredFacts
    <3>3. QED
      BY <2>1, <3>1, <3>2
  <2>4. QED
    BY <2>2, <2>3, HeaderQuiet
<1>11. CASE TruncateState
  <2>1. op # None /\ UNCHANGED <<records, header, count, up>> /\ Go("write")
    BY <1>11 DEF TruncateState, At, memory
  <2>2. QED
    BY <2>1, GoTypes, HeaderQuiet DEF Steps, CAType
<1>12. CASE WriteState
  <2>1. op' = None /\ state' = [serial |-> serial, count |-> count]
    BY <1>12 DEF WriteState, Ends, SavedState
  <2>2. UNCHANGED <<records, header, count, up>> /\ state' # None
    BY <1>12, <2>1, <1>0, NoneAssumption DEF WriteState, memory, Sealed
  <2>3. QED
    BY <2>1, <2>2 DEF HeaderOK, Running
<1>13. CASE WriteFails
  <2>1. /\ op # None /\ op \in Op /\ UNCHANGED <<records, header, up>> /\ Running
        /\ records \in Seq(Record)
    BY <1>13, OpFacts DEF WriteFails, disk, CAType, CATypeOK, OpOK
  <2>2. (op' = None /\ answer' = "err") \/ (op' # None /\ op'.step \in {"revoke", "state"})
    <3>1. CASE op.kind = "gc" /\ op.step \in {"revoke", "seal"}
      <4>1. ExpiredFrom(op, op.todo, TRUE)
        BY <1>13, <3>1 DEF WriteFails
      <4>2. op.todo \in SUBSET Items /\ \A i \in op.todo : index[i] # None
        BY <2>1, OpFacts DEF CAType, BoundsOK
      <4>3. QED
        BY <2>1, <3>1, <4>1, <4>2, ExpiredFacts
    <3>2. QED
      BY <1>13, <3>1 DEF WriteFails, Ends
  <2>3. count' = count \/ count' = count + 1
    BY <1>13 DEF WriteFails
  <2>4. QED
    BY <2>1, <2>2, <2>3, HeaderQuiet, HeaderBehind
<1>14. ASSUME NEW k \in DOMAIN records, Expire(k) PROVE HeaderOK'
  BY <1>14 DEF Expire, disk, HeaderOK, Running
<1>15. CASE Crash
  BY <1>15 DEF Crash, disk, HeaderOK, Running
<1>16. CASE Boot
  <2>1. op = None
    BY <1>16 DEF Boot, CAType, OpOK, Running
  <2>2. /\ header.count \in Nat /\ \A k \in DOMAIN records : records[k].count \in Nat
    BY RecordFacts DEF CAType, CATypeOK, Record
  <2>3. QED
    BY <1>16, <2>1, <2>2 DEF Boot, Loads, Opens, disk, history, HeaderOK, Running
<1>17. CASE UNCHANGED caVars
  BY <1>17 DEF caVars, disk, memory, history, HeaderOK, Running
<1>18. QED
  BY <1>2, <1>3, <1>4, <1>5, <1>6, HeaderRecord, <1>7, <1>8, <1>9, <1>10, <1>11,
     <1>12, <1>13, <1>14, <1>15, <1>16, <1>17 DEF CANext, CAStep

(* A start succeeds after an operation answered with success. *)
THEOREM RestartableCorrect == CASpec => []Restartable
<1>1. CAInit => HeaderOK
  <2>1. Len(<<>>) = 0 /\ DOMAIN <<>> = {}
    OBVIOUS
  <2>2. CAInit => state # None
    BY NoneAssumption DEF CAInit, Sealed
  <2>3. QED
    BY <2>1, <2>2 DEF CAInit, HeaderOK, Running
<1>2. HeaderOK => Restartable
  BY DEF HeaderOK, Restartable, Running, Loads, Opens
<1>3. QED
  BY CATypeInit, CATypeStep, HeaderStep, <1>1, <1>2, PTL DEF CASpec
=============================================================================
