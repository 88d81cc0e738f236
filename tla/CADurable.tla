------------------------------ MODULE CADurable ------------------------------
(***************************************************************************)
(* The proofs of Durable and DeletedStays of CertAuthority: what was       *)
(* stored, or deleted, and answered with success stays so, whatever fails, *)
(* ends or is killed in between.                                           *)
(*                                                                         *)
(* FilesOK keeps the records that count apart on the disk: no two of them  *)
(* name one file, so a write for one item never reaches another's content. *)
(* ItemOK ties an item's live records to its entry and to what was         *)
(* answered; WorkOK says how far the operation under way has come.         *)
(***************************************************************************)
EXTENDS CAProofs

(* A record that is live, or that an entry points to. *)
Pointed(k) == \E i \in Items : index[i] # None /\ index[i].at = k
Held(k) == k \in DOMAIN records /\ (Live(k) \/ Pointed(k))

HeldApart ==
  \A k, l \in DOMAIN records :
    (Held(k) /\ Held(l) /\ k # l) => records[k].file # records[l].file

(* The file of the operation under way. *)
OwnFile ==
  op # None =>
    /\ (op.kind \in Saves /\ op.step \in {"create", "append"}) =>
         op.file < next /\ \A k \in DOMAIN records : Held(k) => records[k].file # op.file
    /\ (op.kind \in Saves /\ op.step \in {"seal", "content"}) =>
         Live(Len(records)) /\ records[Len(records)].file = op.file
    /\ (op.kind \notin Saves /\ op.item # None /\ op.step \notin Late) =>
         records[index[op.item].at].file = op.file

FilesOK ==
  /\ expired \subseteq DOMAIN records
  /\ HeldApart
  /\ Running => \A k \in DOMAIN records : Held(k) => records[k].file < next
  /\ OwnFile

(* A step on which no record's file changes, and no other record counts    *)
(* than before, keeps the files apart and below the next number.           *)
LEMMA HeldShrinks ==
  ASSUME CAType, FilesOK, records' \in Seq(Record), DOMAIN records' = DOMAIN records,
         \A k \in DOMAIN records : records'[k].file = records[k].file,
         \A k \in DOMAIN records : Held(k)' => Held(k)
  PROVE  /\ HeldApart'
         /\ (Running /\ next' = next) =>
              \A k \in DOMAIN records' : Held(k)' => records'[k].file < next'
BY DEF FilesOK, HeldApart

(* Where the records and what is over stay, and no entry points elsewhere. *)
LEMMA SameRecords ==
  ASSUME UNCHANGED <<records, expired>>,
         \A i \in Items : index'[i] # None => index[i] # None /\ index'[i].at = index[i].at
  PROVE  \A k : Held(k)' => Held(k)
BY DEF Held, Pointed, Live

(* A step that changes no record and no entry's place. *)
LEMMA FilesQuiet ==
  ASSUME CAType, FilesOK, UNCHANGED <<records, expired, up>>,
         next' = next \/ (next' = next + 1 /\ Running),
         \A i \in Items : index'[i] # None => index[i] # None /\ index'[i].at = index[i].at,
         OwnFile'
  PROVE  FilesOK'
<1>1. \A k : Held(k)' => Held(k)
  BY SameRecords
<1>2. HeldApart' /\ expired' \subseteq DOMAIN records'
  BY <1>1 DEF FilesOK, HeldApart
<1>3. next \in Nat /\ \A k \in DOMAIN records : records[k].file \in Nat
  <2>1. \A k \in DOMAIN records : records[k].file \in 1..ops /\ ops \in Nat
    BY DEF CAType, CATypeOK, BoundsOK
  <2>2. QED
    BY <2>1, 1..ops \subseteq Nat DEF CAType, CATypeOK
<1>4. Running' => \A k \in DOMAIN records' : Held(k)' => records'[k].file < next'
  BY <1>1, <1>3 DEF FilesOK, Running
<1>5. QED
  BY <1>2, <1>4 DEF FilesOK

(* The file numbers an operation begins with. *)
LEMMA FilesBegin ==
  ASSUME CAType, FilesOK, NEW kind \in Kinds, NEW i \in Items, NEW step \in Steps,
         NEW file \in Nat, NEW ver \in Nat, Begins(kind, i, step, file, ver),
         \/ kind \in Saves /\ step = "create" /\ file = next /\ next' = next + 1
         \/ /\ kind \notin Saves /\ index[i] # None /\ file = records[index[i].at].file
            /\ next' = next
  PROVE  FilesOK'
<1>1. /\ op' # None /\ op'.kind = kind /\ op'.item = i /\ op'.step = step
      /\ op'.file = file /\ Running
  BY BeginFacts
<1>2. UNCHANGED <<records, expired, up, index>>
  BY DEF Begins, disk
<1>3. \A k : Held(k)' => Held(k)
  BY <1>2, SameRecords
<1>4. next \in Nat /\ \A k \in DOMAIN records : Held(k) => records[k].file \in Nat /\ records[k].file < next
  <2>1. \A k \in DOMAIN records : records[k].file \in 1..ops /\ ops \in Nat
    BY DEF CAType, CATypeOK, BoundsOK
  <2>2. QED
    BY <1>1, <2>1, 1..ops \subseteq Nat DEF CAType, CATypeOK, FilesOK
<1>5. CASE kind \in Saves /\ step = "create" /\ file = next /\ next' = next + 1
  <2>1. OwnFile'
    <3>1. file < next'
      BY <1>4, <1>5
    <3>2. \A k \in DOMAIN records' : Held(k)' => records'[k].file # file
      BY <1>2, <1>3, <1>4, <1>5
    <3>3. QED
      BY <1>1, <1>5, <3>1, <3>2 DEF OwnFile
  <2>2. QED
    BY <1>1, <1>2, <1>5, <2>1, FilesQuiet
<1>6. CASE /\ kind \notin Saves /\ index[i] # None /\ file = records[index[i].at].file
           /\ next' = next
  <2>1. OwnFile'
    BY <1>1, <1>2, <1>6 DEF OwnFile
  <2>2. QED
    BY <1>1, <1>2, <1>6, <2>1, FilesQuiet
<1>7. QED
  BY <1>5, <1>6

(* A new record names a file no record that counts has named. *)
LEMMA FilesAppend == CAType /\ FilesOK /\ AppendRecord => FilesOK'
<1> SUFFICES ASSUME CAType, FilesOK, AppendRecord PROVE FilesOK'
  OBVIOUS
<1>1. /\ At("append") /\ CATypeOK /\ op # None /\ op.item \in Items /\ op.item # None
      /\ op.kind \in Saves /\ op.step = "append" /\ Running
  BY AtFacts DEF AppendRecord, Late
<1>2. /\ op'.kind = op.kind /\ op'.step = "seal" /\ op'.file = op.file
  BY <1>1, GoTypes DEF Steps, AppendRecord
<1>3. Entry \in Record /\ Entry.file = op.file /\ ~Entry.revoked
  BY <1>1, EntryFacts
<1> DEFINE n == Len(records) + 1
<1>4. /\ Len(records') = n /\ DOMAIN records' = 1..n /\ records'[n] = Entry
      /\ n \notin DOMAIN records /\ n \in Nat
      /\ \A k \in DOMAIN records' : k = n \/ k \in DOMAIN records
      /\ \A k \in DOMAIN records : k \in DOMAIN records' /\ records'[k] = records[k]
  <2>1. /\ Len(records') = Len(records) + 1 /\ DOMAIN records' = 1..Len(records) + 1
        /\ records'[Len(records) + 1] = Entry
        /\ \A k \in DOMAIN records : records'[k] = records[k]
    BY <1>1, <1>3, AppendFacts DEF AppendRecord
  <2>2. Len(records) \in Nat /\ DOMAIN records = 1..Len(records)
    BY <1>1, RecordFacts
  <2>3. QED
    BY <2>1, <2>2
<1> HIDE DEF n
<1>5. UNCHANGED <<index, next, expired, up>>
  BY DEF AppendRecord
<1>6. \A k \in DOMAIN records : Held(k)' => Held(k)
  BY <1>4, <1>5 DEF Held, Pointed, Live
<1>7. /\ op.file < next
      /\ \A k \in DOMAIN records : Held(k) => records[k].file # op.file
      /\ \A k \in DOMAIN records : Held(k) => records[k].file < next
  BY <1>1 DEF FilesOK, OwnFile
<1>8. HeldApart'
  BY <1>3, <1>4, <1>6, <1>7 DEF FilesOK, HeldApart
<1>9. \A k \in DOMAIN records' : Held(k)' => records'[k].file < next'
  BY <1>3, <1>4, <1>5, <1>6, <1>7
<1>10. expired' \subseteq DOMAIN records' /\ n \notin expired
  BY <1>4, <1>5 DEF FilesOK
<1>11. OwnFile'
  BY <1>1, <1>2, <1>3, <1>4, <1>5, <1>10 DEF OwnFile, Live
<1>12. QED
  BY <1>8, <1>9, <1>10, <1>11 DEF FilesOK

(* A rewritten record keeps its file. *)
LEMMA FilesRewrite == CAType /\ FilesOK /\ (RewriteRecord \/ RevokeRecord) => FilesOK'
<1> SUFFICES ASSUME CAType, FilesOK, RewriteRecord \/ RevokeRecord PROVE FilesOK'
  OBVIOUS
<1> DEFINE j == index[op.item].at
<1>1. /\ CATypeOK /\ op # None /\ op.item \in Items /\ op.item # None /\ Running
      /\ op.kind \notin Saves /\ op.step \notin Late /\ index[op.item] # None
      /\ j \in DOMAIN records
  BY AtFacts, NoneAssumption DEF RewriteRecord, RevokeRecord, Late, Updates, Saves, CAType, BoundsOK
<1>2. /\ op' # None /\ op'.kind = op.kind /\ op'.step = "seal" /\ op'.file = op.file
      /\ op'.item = op.item
  BY <1>1, GoTypes DEF Steps, RewriteRecord, RevokeRecord
<1>3. records[j].file = op.file
  BY <1>1 DEF FilesOK, OwnFile
<1>4. PICK r \in Record : records' = [records EXCEPT ![j] = r] /\ r.file = op.file
  <2>1. Entry \in Record /\ Entry.file = op.file
    BY <1>1, EntryFacts
  <2>2. RevokedRecord(records[j]) \in Record /\ RevokedRecord(records[j]).file = op.file
    <3>1. count + 1 \in Nat /\ records[j] \in Record
      BY <1>1, RecordFacts DEF CATypeOK
    <3>2. QED
      BY <1>3, <3>1 DEF Record, RevokedRecord
  <2>3. \/ records' = [records EXCEPT ![j] = Entry]
        \/ records' = [records EXCEPT ![j] = RevokedRecord(records[j])]
    BY <1>1 DEF RewriteRecord, RevokeRecord
  <2>4. QED
    BY <2>1, <2>2, <2>3
<1>5. /\ records' \in Seq(Record) /\ DOMAIN records' = DOMAIN records
      /\ \A k \in DOMAIN records : records'[k].file = records[k].file
      /\ \A k \in DOMAIN records \ {j} : records'[k] = records[k]
  <2> HIDE DEF j
  <2>1. /\ records' \in Seq(Record) /\ DOMAIN records' = DOMAIN records /\ records'[j] = r
        /\ \A k \in DOMAIN records \ {j} : records'[k] = records[k]
    BY <1>1, <1>4, RewriteFacts
  <2>2. QED
    BY <1>3, <1>4, <2>1
<1>6. UNCHANGED <<index, next, up>> /\ (expired' = expired \/ expired' = expired \ {j})
  BY DEF RewriteRecord, RevokeRecord
<1>7. \A k \in DOMAIN records : Held(k)' => Held(k)
  BY <1>1, <1>5, <1>6 DEF Held, Pointed, Live
<1>8. HeldApart' /\ \A k \in DOMAIN records' : Held(k)' => records'[k].file < next'
  BY <1>1, <1>5, <1>6, <1>7, HeldShrinks
<1>9. OwnFile'
  BY <1>1, <1>2, <1>3, <1>5, <1>6 DEF OwnFile
<1>10. expired' \subseteq DOMAIN records'
  BY <1>5, <1>6 DEF FilesOK
<1>11. QED
  BY <1>8, <1>9, <1>10 DEF FilesOK


(* An operation that goes on by one step, over records that stay. *)
LEMMA OwnGoes ==
  ASSUME CAType, FilesOK, op # None, NEW s \in Steps, Go(s),
         UNCHANGED <<records, expired, next>>,
         \A i \in Items : index'[i] # None => index[i] # None /\ index'[i].at = index[i].at,
         (op.item # None /\ op.step \notin Late) => index'[op.item].at = index[op.item].at
                                                      \/ s \in Late,
         op.kind \in Saves => s \in Late \/ (op.step = "create" /\ s = "append")
                                \/ (op.step = "seal" /\ s = "content"),
         op.kind \notin Saves /\ op.step \in Late => s \in Late
  PROVE  OwnFile'
<1>1. /\ op' # None /\ op'.kind = op.kind /\ op'.item = op.item /\ op'.step = s
      /\ op'.file = op.file
  BY GoTypes DEF CAType
<1>2. \A k : Held(k)' => Held(k)
  BY SameRecords
<1>3. CASE op.kind \in Saves
  BY <1>1, <1>2, <1>3 DEF FilesOK, OwnFile, Live, Late
<1>4. CASE op.kind \notin Saves
  BY <1>1, <1>4 DEF FilesOK, OwnFile
<1>5. QED
  BY <1>3, <1>4

(* DeleteExpired goes on with the file its next entry names. *)
LEMMA OwnExpired ==
  ASSUME CAType, NEW o \in Op, o.kind = "gc", NEW todo \in SUBSET Items,
         \A i \in todo : index[i] # None, NEW err \in BOOLEAN,
         ExpiredFrom(o, todo, err), UNCHANGED records,
         \A i \in todo : index'[i] = index[i]
  PROVE  OwnFile'
<1>1. \/ op' = None
      \/ /\ op' # None /\ op'.kind = "gc" /\ op'.item \in todo
         /\ op'.file = records[index[op'.item].at].file
      \/ op' # None /\ op'.kind = "gc" /\ op'.item = None
  BY ExpiredFacts
<1>2. QED
  BY <1>1 DEF OwnFile, Saves

(* Every write keeps the files apart. *)
LEMMA FilesWrite == CAType /\ FilesOK /\ CAStep => FilesOK'
<1> SUFFICES ASSUME CAType, FilesOK, CAStep PROVE FilesOK'
  OBVIOUS
<1>1. CASE CreateFile
  <2>1. /\ op # None /\ op.kind \in Saves /\ op.step = "create"
        /\ UNCHANGED <<records, expired, up, next, index>>
    BY <1>1, AtFacts DEF CreateFile, memory
  <2>2. op' = None \/ Go("append")
    BY <1>1 DEF CreateFile, Ends
  <2>3. OwnFile'
    <3>1. CASE op' = None
      BY <3>1 DEF OwnFile
    <3>2. CASE Go("append")
      BY <2>1, <3>2, OwnGoes DEF Steps
    <3>3. QED
      BY <2>2, <3>1, <3>2
  <2>4. QED
    BY <2>1, <2>3, FilesQuiet
<1>2. CASE TruncateFile
  <2>1. /\ op # None /\ op.kind \in Updates /\ op.step = "truncate" /\ Go("rewrite")
        /\ UNCHANGED <<records, expired, up, next, index>>
    BY <1>2, AtFacts DEF TruncateFile, memory
  <2>2. OwnFile'
    BY <2>1, OwnGoes DEF Steps, Saves, Updates, Late
  <2>3. QED
    BY <2>1, <2>2, FilesQuiet
<1>3. CASE SealHeader
  <2>1. /\ op # None /\ op.step = "seal" /\ op.item \in Items /\ op.item # None
        /\ UNCHANGED <<records, expired, up, next>>
        /\ op.kind \notin Saves => index[op.item] # None
    BY <1>3, AtFacts, NoneAssumption DEF SealHeader, Late, CAType, BoundsOK
  <2>2. \A i \in Items : index'[i] # None => index[i] # None /\ index'[i].at = index[i].at
    BY <1>3, <2>1 DEF SealHeader, Stored, CAType, CATypeOK, Updates, Saves
  <2>3. index'[op.item].at = index[op.item].at
    BY <1>3, <2>1 DEF SealHeader, Stored, CAType, CATypeOK
  <2>4. (op.kind \in Saves /\ Go("content")) \/ (op.kind \notin Saves /\ (Go("content") \/ Go("unlink")))
    BY <1>3 DEF SealHeader, Saves, Updates
  <2>5. OwnFile'
    <3>1. CASE op.kind \in Saves /\ Go("content")
      BY <2>1, <2>2, <2>3, <3>1, OwnGoes DEF Steps
    <3>2. CASE op.kind \notin Saves /\ Go("content")
      BY <2>1, <2>2, <2>3, <3>2, OwnGoes DEF Steps, Late
    <3>3. CASE op.kind \notin Saves /\ Go("unlink")
      BY <2>1, <2>2, <2>3, <3>3, OwnGoes DEF Steps, Late
    <3>4. QED
      BY <2>4, <3>1, <3>2, <3>3
  <2>6. QED
    BY <2>1, <2>2, <2>5, FilesQuiet
<1>4. CASE WriteContent
  <2>1. /\ op # None /\ op.step = "content" /\ op.item \in Items /\ op.item # None
        /\ UNCHANGED <<records, expired, up, next>> /\ Running
        /\ records \in Seq(Record)
    BY <1>4, AtFacts DEF WriteContent, Late, CATypeOK
  <2>2. op' = None \/ (op' # None /\ op'.kind = op.kind /\ op'.step = "state")
    BY <1>4, <2>1, GoTypes DEF WriteContent, Ends, Steps, CAType
  <2>3. OwnFile'
    BY <2>2 DEF OwnFile, Late
  <2>4. op.kind \in Saves => Live(Len(records))
    BY <2>1 DEF FilesOK, OwnFile
  <2>5. \A i \in Items : index'[i] # None =>
          \/ index[i] # None /\ index'[i].at = index[i].at
          \/ op.kind \in Saves /\ index'[i].at = Len(records)
    BY <1>4, <2>1 DEF WriteContent, Stored, CAType, CATypeOK
  <2>6. \A k \in DOMAIN records : Held(k)' => Held(k)
    <3> TAKE k \in DOMAIN records
    <3> HAVE Held(k)'
    <3>1. Live(k)' = Live(k)
      BY <2>1 DEF Live
    <3>2. CASE Live(k)
      BY <3>2 DEF Held
    <3>3. ASSUME NEW i \in Items, index'[i] # None, index'[i].at = k PROVE Held(k)
      BY <2>4, <2>5, <3>3 DEF Held, Pointed
    <3>4. QED
      BY <3>1, <3>2, <3>3 DEF Held, Pointed
  <2>7. QED
    BY <2>1, <2>3, <2>6, HeldShrinks DEF FilesOK
<1>5. CASE RemoveFile
  <2>1. /\ op # None /\ op \in Op /\ op.item \in Items /\ op.item # None
        /\ op.kind \in {"revoke", "gc"} /\ UNCHANGED <<records, expired, up, next>>
    BY <1>5, AtFacts DEF RemoveFile, Late
  <2>2. /\ \A i \in Items : index'[i] # None => index[i] # None /\ index'[i].at = index[i].at
        /\ \A i \in Items \ {op.item} : index'[i] = index[i]
    BY <1>5, <2>1 DEF RemoveFile, CAType, CATypeOK
  <2>3. OwnFile'
    <3>1. CASE op.kind = "gc"
      <4>1. /\ op.todo \in SUBSET Items /\ op.err \in BOOLEAN
            /\ \A i \in op.todo : index[i] # None /\ i # op.item
        BY <2>1, OpFacts DEF CAType, BoundsOK
      <4>2. ExpiredFrom(op, op.todo, op.err)
        BY <1>5, <3>1 DEF RemoveFile
      <4>3. QED
        BY <2>1, <2>2, <3>1, <4>1, <4>2, OwnExpired
    <3>2. CASE op.kind = "revoke"
      <4>1. op' # None /\ op'.kind = "revoke" /\ op'.step = "state"
        BY <1>5, <2>1, <3>2, GoTypes DEF RemoveFile, Steps, CAType
      <4>2. QED
        BY <4>1 DEF OwnFile, Late, Saves
    <3>3. QED
      BY <2>1, <3>1, <3>2
  <2>4. QED
    BY <2>1, <2>2, <2>3, FilesQuiet
<1>6. CASE TruncateState \/ WriteState
  <2>1. UNCHANGED <<records, expired, up, next, index>> /\ op # None
    BY <1>6 DEF TruncateState, WriteState, memory, At
  <2>2. op' = None \/ (op' # None /\ op'.step = "write")
    BY <1>6, <2>1, GoTypes DEF TruncateState, WriteState, Ends, Steps, CAType
  <2>3. OwnFile'
    BY <2>2 DEF OwnFile, Late
  <2>4. QED
    BY <2>1, <2>3, FilesQuiet
<1>7. CASE WriteFails
  <2>1. /\ op # None /\ op \in Op /\ UNCHANGED <<records, expired, up, next, index>>
    BY <1>7, OpFacts DEF WriteFails, disk, CAType
  <2>2. OwnFile'
    <3>1. CASE op.kind = "gc" /\ op.step \in {"revoke", "seal"}
      <4>1. ExpiredFrom(op, op.todo, TRUE)
        BY <1>7, <3>1 DEF WriteFails
      <4>2. op.todo \in SUBSET Items /\ \A i \in op.todo : index[i] # None
        BY <2>1, OpFacts DEF CAType, BoundsOK
      <4>3. QED
        BY <2>1, <3>1, <4>1, <4>2, OwnExpired
    <3>2. CASE ~(op.kind = "gc" /\ op.step \in {"revoke", "seal"})
      BY <1>7, <3>2 DEF WriteFails, Ends, OwnFile
    <3>3. QED
      BY <3>1, <3>2
  <2>3. QED
    BY <2>1, <2>2, FilesQuiet
<1>8. QED
  BY <1>1, FilesAppend, <1>2, FilesRewrite, <1>3, <1>4, <1>5, <1>6, <1>7 DEF CAStep

(* An operation that begins, of any kind. *)
LEMMA BeginsCases ==
  ASSUME CAType,
         \/ \E c \in Certs : IssueCertificate(c) \/ UpdateCertificate(c)
         \/ \E k \in Keys : SaveOrUpdateKeyPair(k)
         \/ \E i \in Items : RevokeCertificate(i)
  PROVE  \E kind \in Kinds \ {"gc"}, i \in Items, step \in Steps \ Late, file \in Nat, ver \in Nat :
           /\ Begins(kind, i, step, file, ver)
           /\ \/ kind \in Saves /\ step = "create" /\ file = next /\ next' = next + 1
                 /\ index[i] = None
              \/ /\ kind \notin Saves /\ index[i] # None /\ file = records[index[i].at].file
                 /\ step \in {"truncate", "revoke"} /\ next' = next
           /\ kind \in {"issue", "renew"} => ver = serial
           /\ kind \in {"put", "reput"} => ver = ops + 1
           /\ kind = "revoke" => ver = Gone
<1>0. /\ ops + 1 \in Nat /\ serial \in Nat /\ next \in Nat
      /\ \A i \in Items : index[i] # None => records[index[i].at].file \in Nat
  <2>1. ops \in Nat /\ \A i \in Items : index[i] # None => records[index[i].at].file \in 1..ops
    BY DEF CAType, CATypeOK, BoundsOK
  <2>2. QED
    BY <2>1, 1..ops \subseteq Nat DEF CAType, CATypeOK
<1>1. /\ Saves = {"issue", "put"} /\ Updates = {"renew", "reput"}
      /\ Kinds = {"issue", "put", "renew", "reput", "revoke", "gc"}
      /\ {"create", "truncate", "revoke"} \subseteq Steps \ Late
      /\ Certs \subseteq Items /\ Keys \subseteq Items
  BY DEF Saves, Updates, Kinds, Steps, Late, Items
<1> HIDE DEF Saves, Updates, Kinds, Steps, Late
<1>2. ASSUME NEW c \in Items, Saving("issue", c, serial) \/ Saving("put", c, ops + 1)
      PROVE  \E kind \in {"issue", "put"}, ver \in {serial, ops + 1} :
               /\ Begins(kind, c, "create", next, ver) /\ next' = next + 1 /\ index[c] = None
               /\ kind = "issue" => ver = serial
               /\ kind = "put" => ver = ops + 1
  BY <1>2 DEF Saving
<1>3. ASSUME NEW c \in Items, Updating("renew", c, serial) \/ Updating("reput", c, ops + 1)
      PROVE  \E kind \in {"renew", "reput"}, ver \in {serial, ops + 1} :
               /\ Begins(kind, c, "truncate", records[index[c].at].file, ver)
               /\ next' = next /\ index[c] # None
               /\ kind = "renew" => ver = serial
               /\ kind = "reput" => ver = ops + 1
  BY <1>3 DEF Updating
<1>4. CASE \E c \in Items : Saving("issue", c, serial) \/ Saving("put", c, ops + 1)
  BY <1>0, <1>1, <1>2, <1>4
<1>5. CASE \E c \in Items : Updating("renew", c, serial) \/ Updating("reput", c, ops + 1)
  BY <1>0, <1>1, <1>3, <1>5
<1>6. CASE \E i \in Items : RevokeCertificate(i)
  BY <1>0, <1>1, <1>6 DEF RevokeCertificate, Gone
<1>7. QED
  BY <1>1, <1>4, <1>5, <1>6 DEF IssueCertificate, UpdateCertificate, SaveOrUpdateKeyPair

(* Every step keeps the files of the records that count apart. *)
LEMMA FilesStep == CAType /\ FilesOK /\ [CANext]_caVars => FilesOK'
<1> SUFFICES ASSUME CAType, FilesOK, [CANext]_caVars PROVE FilesOK'
  OBVIOUS
<1>1. CASE \/ \E c \in Certs : IssueCertificate(c) \/ UpdateCertificate(c)
           \/ \E k \in Keys : SaveOrUpdateKeyPair(k)
           \/ \E i \in Items : RevokeCertificate(i)
  <2>1. PICK kind \in Kinds \ {"gc"}, i \in Items, step \in Steps \ Late, file \in Nat, ver \in Nat :
           /\ Begins(kind, i, step, file, ver)
           /\ \/ kind \in Saves /\ step = "create" /\ file = next /\ next' = next + 1
              \/ /\ kind \notin Saves /\ index[i] # None /\ file = records[index[i].at].file
                 /\ next' = next
    BY <1>1, BeginsCases
  <2>2. QED
    BY <2>1, FilesBegin
<1>2. CASE DeleteExpiredCertificates
  <2> DEFINE o == [kind |-> "gc", item |-> None, step |-> "state", file |-> 0,
                   ver |-> Gone, todo |-> {}, err |-> FALSE]
             todo == {i \in Items : index[i] # None /\ index[i].over}
  <2>1. o \in Op /\ o.kind = "gc"
    BY DEF Op, Kinds, Steps, Gone
  <2>2. ExpiredFrom(o, todo, FALSE)
    BY <1>2 DEF DeleteExpiredCertificates
  <2>3. todo \in SUBSET Items /\ \A i \in todo : index[i] # None
    OBVIOUS
  <2>4. UNCHANGED <<records, expired, up, next, index>>
    BY <1>2 DEF DeleteExpiredCertificates, disk, memory
  <2> HIDE DEF o, todo
  <2>5. OwnFile'
    BY <2>1, <2>2, <2>3, <2>4, OwnExpired
  <2>6. QED
    BY <2>4, <2>5, FilesQuiet
<1>3. ASSUME NEW k \in DOMAIN records, Expire(k) PROVE FilesOK'
  <2>1. /\ UNCHANGED <<records, up, next>> /\ expired' = expired \cup {k} /\ op = None /\ op' = None
        /\ records \in Seq(Record)
    BY <1>3 DEF Expire, disk, CAType, CATypeOK
  <2>2. \A i \in Items : index'[i] # None => index[i] # None /\ index'[i].at = index[i].at
    BY <1>3 DEF Expire, CAType, CATypeOK, Slot
  <2>3. \A j \in DOMAIN records : Held(j)' => Held(j)
    BY <2>1, <2>2 DEF Held, Pointed, Live
  <2>4. expired' \subseteq DOMAIN records' /\ OwnFile'
    BY <2>1 DEF FilesOK, OwnFile
  <2>5. QED
    BY <2>1, <2>3, <2>4, HeldShrinks DEF FilesOK, Running
<1>4. CASE Crash
  <2>1. /\ UNCHANGED <<records, expired>> /\ op' = None /\ ~Running'
        /\ \A i \in Items : index'[i] = None
    BY <1>4 DEF Crash, disk, Running
  <2>2. \A k : Held(k)' => Held(k)
    BY <2>1, SameRecords
  <2>3. QED
    BY <2>1, <2>2 DEF FilesOK, HeldApart, OwnFile
<1>5. CASE Boot
  <2>1. UNCHANGED <<records, expired>> /\ op = None /\ op' = None
    BY <1>5 DEF Boot, disk, CAType, OpOK, Running
  <2>2. CASE ~Loads /\ up' = "refused" /\ UNCHANGED <<index, count, next, serial>>
    BY <2>1, <2>2 DEF FilesOK, HeldApart, OwnFile, Held, Pointed, Live, Running
  <2>3. CASE /\ up' = "run"
             /\ index' = [i \in Items |-> LoadedEntry(i)]
             /\ next' = Max({1} \cup {f + 1 : f \in LiveFiles})
    <3>1. \A i \in Items : index'[i] # None => Live(index'[i].at)
      BY <2>3, LoadedFacts DEF LiveOf
    <3>2. \A k \in DOMAIN records : Held(k)' => Live(k)
      BY <2>1, <3>1 DEF Held, Pointed, Live
    <3>3. HeldApart'
      BY <2>1, <3>2 DEF FilesOK, HeldApart, Held
    <3>4. \A k \in DOMAIN records' : Held(k)' => records'[k].file < next'
      BY <2>1, <2>3, <3>2, NextFacts DEF LiveFiles
    <3>5. QED
      BY <2>1, <3>3, <3>4 DEF FilesOK, OwnFile
  <2>4. QED
    BY <1>5, <2>2, <2>3 DEF Boot
<1>6. CASE UNCHANGED caVars
  BY <1>6 DEF caVars, disk, memory, FilesOK, HeldApart, OwnFile, Held, Pointed, Live, Running
<1>7. QED
  BY <1>1, <1>2, FilesWrite, <1>3, <1>4, <1>5, <1>6 DEF CANext

-----------------------------------------------------------------------------
(* What became of an item.                                                 *)

Busy(i) == op # None /\ op.item = i

(* An entry points to the last live record of its item. *)
EntryOK(i) ==
  index[i] # None =>
    /\ records[index[i].at].item = i
    /\ \A k \in LiveOf(i) : k <= index[i].at
    /\ i \notin orphans => \A k \in LiveOf(i) : k = index[i].at
    /\ index[i].over => acked[i] = None

(* Without a failed save an item has one live record, and none without an  *)
(* entry, except while an operation on it is under way. *)
AloneOK(i) ==
  i \notin orphans =>
    /\ \A k, l \in LiveOf(i) : k = l
    /\ (Running /\ index[i] = None /\ ~Busy(i)) => LiveOf(i) = {}

(* What was answered is in the last live record, its content and the entry. *)
StoredAt(i, k) ==
  /\ k \in LiveOf(i) /\ \A l \in LiveOf(i) : l <= k
  /\ records[k].ver = acked[i] /\ content[records[k].file] = acked[i]
  /\ Running => index[i] # None /\ index[i].at = k /\ index[i].ver = acked[i]
AckOK(i) == acked[i] \notin {None, Gone} => \E k \in LiveOf(i) : StoredAt(i, k)

(* What was deleted has neither. *)
GoneOK(i) == (i \notin orphans /\ acked[i] = Gone) => LiveOf(i) = {} /\ index[i] = None

ItemOK(i) == EntryOK(i) /\ AloneOK(i) /\ AckOK(i) /\ GoneOK(i)

(* How far the operation under way has come, by its kind. *)
AloneAt(n) == op.item \notin orphans => \A k \in LiveOf(op.item) : k = n
NoneLive == op.item \notin orphans => LiveOf(op.item) = {}

SavingOK ==
  (op # None /\ op.kind \in Saves /\ op.step \notin Late) =>
    /\ index[op.item] = None
    /\ op.step \in {"create", "append"} => NoneLive
    /\ op.step \in {"seal", "content"} =>
         /\ Len(records) \in LiveOf(op.item) /\ records[Len(records)].ver = op.ver
         /\ AloneAt(Len(records))

UpdatingOK ==
  (op # None /\ op.kind \in Updates) =>
    /\ op.step \in {"seal", "content"} =>
         index[op.item].at \in LiveOf(op.item) /\ records[index[op.item].at].ver = op.ver
    /\ op.step = "content" => index[op.item].ver = op.ver /\ ~index[op.item].over

StoredOK ==
  (op # None /\ op.kind \in Saves \cup Updates) =>
    /\ op.ver # Gone
    /\ op.step \in Late =>
         /\ index[op.item] # None /\ index[op.item].at \in LiveOf(op.item)
         /\ index[op.item].ver = op.ver /\ ~index[op.item].over
         /\ records[index[op.item].at].ver = op.ver
         /\ content[records[index[op.item].at].file] = op.ver

DeletingOK ==
  (op # None /\ op.kind \in {"revoke", "gc"}) =>
    /\ op.kind = "revoke" => op.ver = Gone
    /\ op.step \in {"seal", "unlink"} => records[index[op.item].at].revoked
    /\ (op.kind = "revoke" /\ op.step \in Late) => index[op.item] = None /\ NoneLive

(* Nothing is answered of the items an operation is at work on. *)
UnansweredOK ==
  op # None =>
    /\ op.item # None => acked[op.item] = None
    /\ \A i \in op.todo : acked[i] = None

WorkOK == SavingOK /\ UpdatingOK /\ StoredOK /\ DeletingOK /\ UnansweredOK

(* Version 0 stands for a deletion: no serial is 0. *)
NumbersOK ==
  /\ Running => serial # Gone
  /\ state # None => state.serial # Gone

DurableInv == FilesOK /\ (\A i \in Items : ItemOK(i)) /\ WorkOK /\ NumbersOK

(* An item whose records, entry and content a step leaves alone. *)
LEMMA ItemFrame ==
  ASSUME NEW i \in Items, ItemOK(i), LiveOf(i)' = LiveOf(i),
         \A k \in LiveOf(i) : records'[k].ver = records[k].ver /\ records'[k].file = records[k].file,
         acked'[i] \in {acked[i], None},
         acked'[i] # None =>
           \A k \in LiveOf(i) : content'[records[k].file] = content[records[k].file],
         index'[i] = index[i],
         index[i] # None => records'[index[i].at].item = records[index[i].at].item,
         orphans \subseteq orphans', Running' => Running,
         (Busy(i) /\ ~Busy(i)' /\ index[i] = None /\ i \notin orphans') => LiveOf(i) = {}
  PROVE  ItemOK(i)'
<1>1. EntryOK(i)'
  BY DEF ItemOK, EntryOK
<1>2. AloneOK(i)'
  BY DEF ItemOK, AloneOK
<1>3. AckOK(i)'
  <2>1. SUFFICES ASSUME acked'[i] \notin {None, Gone} PROVE \E k \in LiveOf(i) : StoredAt(i, k)'
    BY DEF AckOK
  <2>2. PICK k \in LiveOf(i) : StoredAt(i, k)
    BY <2>1 DEF ItemOK, AckOK
  <2>3. StoredAt(i, k)'
    BY <2>1, <2>2 DEF StoredAt
  <2>4. QED
    BY <2>3
<1>4. GoneOK(i)'
  BY CAAssumption DEF ItemOK, GoneOK, Gone
<1>5. QED
  BY <1>1, <1>2, <1>3, <1>4 DEF ItemOK

(* The same over records that stay. *)
LEMMA ItemQuiet ==
  ASSUME NEW i \in Items, ItemOK(i), UNCHANGED <<records, expired>>,
         acked'[i] \in {acked[i], None},
         acked'[i] # None =>
           \A k \in LiveOf(i) : content'[records[k].file] = content[records[k].file],
         index'[i] = index[i],
         orphans \subseteq orphans', Running' => Running,
         (Busy(i) /\ ~Busy(i)' /\ index[i] = None /\ i \notin orphans') => LiveOf(i) = {}
  PROVE  ItemOK(i)'
<1>1. LiveOf(i)' = LiveOf(i)
  BY DEF LiveOf, Live
<1>2. QED
  BY <1>1, ItemFrame

(* No other item's content is in the file of the operation under way. *)
LEMMA Foreign ==
  ASSUME CAType, DurableInv, op # None, op.item # None, op.step \notin Late,
         NEW i \in Items \ {op.item}, NEW k \in LiveOf(i)
  PROVE  records[k].file # op.file
<1>1. k \in DOMAIN records /\ Held(k) /\ records[k].item = i /\ op.item \in Items
  BY OpFacts DEF LiveOf, Held, CAType
<1>2. CASE op.kind \in Saves /\ op.step \in {"create", "append"}
  BY <1>1, <1>2 DEF DurableInv, FilesOK, OwnFile
<1>3. CASE op.kind \in Saves /\ op.step \notin {"create", "append"}
  <2>1. op.step \in {"seal", "content"}
    BY <1>3 DEF CAType, OpOK, SaveSteps, Late
  <2>2. Len(records) \in LiveOf(op.item) /\ records[Len(records)].file = op.file
    BY <1>3, <2>1 DEF DurableInv, WorkOK, SavingOK, FilesOK, OwnFile
  <2>3. Len(records) \in DOMAIN records /\ Held(Len(records)) /\ Len(records) # k
    BY <1>1, <2>2 DEF LiveOf, Held
  <2>4. QED
    BY <1>1, <2>2, <2>3 DEF DurableInv, FilesOK, HeldApart
<1>4. CASE op.kind \notin Saves
  <2> DEFINE j == index[op.item].at
  <2>1. index[op.item] # None /\ j \in DOMAIN records
    BY <1>1, <1>4 DEF CAType, BoundsOK
  <2>2. records[j].file = op.file /\ records[j].item = op.item
    BY <1>1, <1>4, <2>1 DEF DurableInv, FilesOK, OwnFile, ItemOK, EntryOK
  <2>3. Held(j) /\ j # k
    BY <1>1, <2>1, <2>2 DEF Held, Pointed
  <2>4. QED
    BY <1>1, <2>1, <2>2, <2>3 DEF DurableInv, FilesOK, HeldApart
<1>5. QED
  BY <1>2, <1>3, <1>4

(* An operation begins: nothing is answered of its item any more. *)
LEMMA BeginDurable ==
  ASSUME CAType, DurableInv,
         NEW kind \in Kinds \ {"gc"}, NEW i \in Items, NEW step \in Steps \ Late,
         NEW file \in Nat, NEW ver \in Nat,
         Begins(kind, i, step, file, ver),
         \/ kind \in Saves /\ step = "create" /\ index[i] = None
         \/ kind \notin Saves /\ index[i] # None /\ step \in {"truncate", "revoke"},
         kind \in {"issue", "renew"} => ver = serial,
         kind \in {"put", "reput"} => ver = ops + 1,
         kind = "revoke" => ver = Gone
  PROVE  (\A j \in Items : ItemOK(j)') /\ WorkOK'
<1>1. /\ Running /\ op = None /\ op' # None
      /\ op'.kind = kind /\ op'.item = i /\ op'.step = step
      /\ op'.file = file /\ op'.ver = ver /\ op'.todo = {}
  BY BeginFacts
<1>2. /\ UNCHANGED <<records, content, expired, index, up, orphans>>
      /\ acked' = [acked EXCEPT ![i] = None]
      /\ acked \in [Items -> Nat \cup {None}]
  BY DEF Begins, disk, CAType, CATypeOK
<1>3. ASSUME NEW j \in Items PROVE ItemOK(j)'
  BY <1>1, <1>2, ItemQuiet DEF DurableInv, Busy, Running
<1>4. LiveOf(i)' = LiveOf(i)
  BY <1>2 DEF LiveOf, Live
<1>5. SavingOK'
  <2>1. (index[i] = None /\ i \notin orphans) => LiveOf(i) = {}
    BY <1>1 DEF DurableInv, ItemOK, AloneOK, Busy
  <2>2. QED
    BY <1>1, <1>2, <1>4, <2>1 DEF SavingOK, NoneLive, Late
<1>6. UpdatingOK' /\ DeletingOK'
  BY <1>1 DEF UpdatingOK, DeletingOK, Late, Saves, Updates
<1>7. StoredOK'
  <2>1. ops + 1 # Gone /\ serial # Gone
    BY <1>1 DEF DurableInv, NumbersOK, CAType, CATypeOK, Gone
  <2>2. QED
    BY <1>1, <2>1 DEF StoredOK, Saves, Updates
<1>8. UnansweredOK'
  BY <1>1, <1>2 DEF UnansweredOK
<1>9. QED
  BY <1>3, <1>5, <1>6, <1>7, <1>8 DEF WorkOK

(* The new file, and the truncated one, are no other item's. *)
LEMMA FileDurable ==
  CAType /\ DurableInv /\ (CreateFile \/ TruncateFile) => (\A j \in Items : ItemOK(j)') /\ WorkOK'
<1> SUFFICES ASSUME CAType, DurableInv, CreateFile \/ TruncateFile
             PROVE  (\A j \in Items : ItemOK(j)') /\ WorkOK'
  OBVIOUS
<1>1. /\ op # None /\ op.item \in Items /\ op.item # None /\ op.step \notin Late
      /\ \/ op.step = "create" /\ op.kind \in Saves
         \/ op.step = "truncate" /\ op.kind \in Updates
      /\ CATypeOK
  BY AtFacts DEF CreateFile, TruncateFile, Late
<1>2. /\ UNCHANGED <<records, expired, index, up, orphans, acked>>
      /\ content' = content \/ content' = [content EXCEPT ![op.file] = Empty]
  BY DEF CreateFile, TruncateFile, memory
<1>3. \/ op' = None /\ op.step = "create"
      \/ /\ op' # None /\ op'.kind = op.kind /\ op'.item = op.item /\ op'.ver = op.ver
         /\ op'.todo = op.todo /\ op'.step \in {"append", "rewrite"}
  BY <1>1, GoTypes DEF CreateFile, TruncateFile, Ends, Steps, At
<1>4. op.item \notin orphans => (op.step = "create" => LiveOf(op.item) = {} /\ index[op.item] = None)
  BY <1>1 DEF DurableInv, WorkOK, SavingOK, NoneLive
<1>5. acked[op.item] = None
  BY <1>1 DEF DurableInv, WorkOK, UnansweredOK
<1>6. ASSUME NEW j \in Items PROVE ItemOK(j)'
  <2>1. \A k \in LiveOf(j) : records[k].file \in FileNos
    BY <1>1, RecordFacts DEF LiveOf, Record
  <2>2. j # op.item => \A k \in LiveOf(j) : content'[records[k].file] = content[records[k].file]
    BY <1>1, <1>2, <2>1, Foreign DEF CATypeOK
  <2>3. (Busy(j) /\ ~Busy(j)' /\ j \notin orphans') => LiveOf(j) = {}
    BY <1>1, <1>2, <1>3, <1>4 DEF Busy
  <2>4. QED
    BY <1>2, <1>5, <2>2, <2>3, ItemQuiet DEF DurableInv, Running
<1>7. \A j \in Items : LiveOf(j)' = LiveOf(j)
  BY <1>2 DEF LiveOf, Live
<1>8. WorkOK'
  BY <1>1, <1>2, <1>3, <1>7 DEF DurableInv, WorkOK, SavingOK, UpdatingOK, StoredOK, DeletingOK,
     UnansweredOK, NoneLive, Late, Saves, Updates
<1>9. QED
  BY <1>6, <1>8

(* A new record is the only live one of an item without a failed save.     *)
LEMMA AppendDurable ==
  CAType /\ DurableInv /\ AppendRecord => (\A j \in Items : ItemOK(j)') /\ WorkOK'
<1> SUFFICES ASSUME CAType, DurableInv, AppendRecord
             PROVE  (\A j \in Items : ItemOK(j)') /\ WorkOK'
  OBVIOUS
<1> DEFINE n == Len(records) + 1
<1>1. /\ op # None /\ op.item \in Items /\ op.item # None /\ op.step = "append"
      /\ op.kind \in Saves /\ CATypeOK
  BY AtFacts DEF AppendRecord, Late
<1>2. UNCHANGED <<content, expired, index, up, orphans, acked>>
  BY DEF AppendRecord
<1>3. /\ op' # None /\ op'.kind = op.kind /\ op'.item = op.item /\ op'.ver = op.ver
      /\ op'.todo = op.todo /\ op'.step = "seal"
  BY <1>1, GoTypes DEF AppendRecord, Steps
<1>4. Entry \in Record /\ Entry.item = op.item /\ Entry.ver = op.ver /\ ~Entry.revoked
  BY <1>1, EntryFacts
<1>5. /\ Len(records') = n /\ DOMAIN records' = 1..n /\ records'[n] = Entry
      /\ n \notin DOMAIN records /\ n \in Nat /\ n \in DOMAIN records'
      /\ \A k \in DOMAIN records' : k = n \/ k \in DOMAIN records
      /\ \A k \in DOMAIN records : k \in DOMAIN records' /\ records'[k] = records[k]
  <2>1. /\ Len(records') = Len(records) + 1 /\ DOMAIN records' = 1..Len(records) + 1
        /\ records'[Len(records) + 1] = Entry
        /\ \A k \in DOMAIN records : records'[k] = records[k]
    BY <1>1, <1>4, AppendFacts DEF AppendRecord
  <2>2. Len(records) \in Nat /\ DOMAIN records = 1..Len(records)
    BY <1>1, RecordFacts
  <2>3. QED
    BY <2>1, <2>2
<1>6. n \notin expired
  BY <1>5 DEF DurableInv, FilesOK
<1> HIDE DEF n
<1>7. PICK c \in Items : c = op.item
  BY <1>1
<1>8. /\ LiveOf(c)' = LiveOf(c) \cup {n}
      /\ \A j \in Items \ {c} : LiveOf(j)' = LiveOf(j)
  BY <1>2, <1>4, <1>5, <1>6, <1>7 DEF LiveOf, Live
<1>9. index[c] = None /\ acked[c] = None /\ (c \notin orphans => LiveOf(c) = {})
  BY <1>1, <1>7 DEF DurableInv, WorkOK, SavingOK, NoneLive, UnansweredOK, Late
<1>10. ItemOK(c)'
  <2>1. EntryOK(c)' /\ AckOK(c)' /\ GoneOK(c)'
    BY <1>2, <1>9, CAAssumption DEF EntryOK, AckOK, GoneOK, Gone
  <2>2. AloneOK(c)'
    BY <1>2, <1>3, <1>7, <1>8, <1>9 DEF AloneOK, Busy
  <2>3. QED
    BY <2>1, <2>2 DEF ItemOK
<1>11. ASSUME NEW j \in Items, j # c PROVE ItemOK(j)'
  <2>1. \A k \in LiveOf(j) : k \in DOMAIN records
    BY DEF LiveOf
  <2>2. index[j] # None => index[j].at \in DOMAIN records
    BY DEF CAType, BoundsOK
  <2>3. QED
    BY <1>2, <1>5, <1>7, <1>8, <1>11, <2>1, <2>2, ItemFrame DEF DurableInv, Busy, Running
<1>12. WorkOK'
  <2>1. SavingOK'
    BY <1>2, <1>3, <1>4, <1>5, <1>7, <1>8, <1>9 DEF SavingOK, AloneAt, NoneLive, Late
  <2>2. UpdatingOK' /\ DeletingOK'
    BY <1>1, <1>3 DEF UpdatingOK, DeletingOK, Saves, Updates
  <2>3. StoredOK' /\ UnansweredOK'
    BY <1>1, <1>2, <1>3 DEF DurableInv, WorkOK, StoredOK, UnansweredOK, Late
  <2>4. QED
    BY <2>1, <2>2, <2>3 DEF WorkOK
<1>13. QED
  BY <1>10, <1>11, <1>12

(* A rewritten record is live and the last of its item; a deleted one is   *)
(* no longer live. *)
LEMMA RewriteDurable ==
  CAType /\ DurableInv /\ (RewriteRecord \/ RevokeRecord) => (\A j \in Items : ItemOK(j)') /\ WorkOK'
<1> SUFFICES ASSUME CAType, DurableInv, RewriteRecord \/ RevokeRecord
             PROVE  (\A j \in Items : ItemOK(j)') /\ WorkOK'
  OBVIOUS
<1>1. PICK c \in Items, a \in DOMAIN records :
        /\ c = op.item /\ a = index[c].at /\ index[c] # None /\ c # None
        /\ records[a] \in Record /\ records[a].item = c
  <2>1. /\ op.item \in Items /\ op.item # None /\ index[op.item].at \in DOMAIN records
        /\ index[op.item] # None /\ CATypeOK
    BY AtFacts, NoneAssumption DEF RewriteRecord, RevokeRecord, Late, Updates, Saves, CAType, BoundsOK
  <2>2. records[index[op.item].at].item = op.item /\ records[index[op.item].at] \in Record
    BY <2>1, RecordFacts DEF DurableInv, ItemOK, EntryOK
  <2>3. QED
    BY <2>1, <2>2
<1>2. /\ op # None /\ CATypeOK /\ count + 1 \in Nat
      /\ \/ RewriteRecord /\ op.kind \in Updates /\ op.step = "rewrite"
         \/ RevokeRecord /\ op.kind \in {"revoke", "gc"} /\ op.step = "revoke"
  <2>1. CATypeOK /\ count + 1 \in Nat
    BY DEF CAType, CATypeOK
  <2>2. CASE RewriteRecord
    <3>1. At("rewrite")
      BY <2>2 DEF RewriteRecord
    <3>2. QED
      BY <2>1, <2>2, <3>1, AtFacts
  <2>3. CASE RevokeRecord
    <3>1. At("revoke")
      BY <2>3 DEF RevokeRecord
    <3>2. QED
      BY <2>1, <2>3, <3>1, AtFacts
  <2>4. QED
    BY <2>2, <2>3
<1>3. UNCHANGED <<content, index, up, orphans, acked>>
  BY DEF RewriteRecord, RevokeRecord
<1>4. /\ op' # None /\ op'.kind = op.kind /\ op'.item = c /\ op'.ver = op.ver
      /\ op'.todo = op.todo /\ op'.step = "seal"
  BY <1>1, <1>2, GoTypes DEF RewriteRecord, RevokeRecord, Steps
<1>5. PICK r \in Record :
        /\ records' = [records EXCEPT ![a] = r] /\ r.item = c
        /\ \/ RewriteRecord /\ r.ver = op.ver /\ ~r.revoked /\ expired' = expired \ {a}
           \/ RevokeRecord /\ r.revoked /\ expired' = expired
  <2>1. CASE RewriteRecord
    <3>1. Entry \in Record /\ Entry.item = c /\ Entry.ver = op.ver /\ ~Entry.revoked
      BY <1>1, <1>2, EntryFacts
    <3>2. QED
      BY <1>1, <2>1, <3>1 DEF RewriteRecord
  <2>2. CASE RevokeRecord
    <3>1. /\ RevokedRecord(records[a]) \in Record /\ RevokedRecord(records[a]).item = c
          /\ RevokedRecord(records[a]).revoked
      BY <1>1, <1>2 DEF Record, RevokedRecord
    <3>2. records' = [records EXCEPT ![a] = RevokedRecord(records[a])] /\ expired' = expired
      BY <1>1, <2>2 DEF RevokeRecord
    <3>3. QED
      BY <2>2, <3>1, <3>2
  <2>3. QED
    BY <2>1, <2>2
<1>6. /\ Len(records') = Len(records) /\ DOMAIN records' = DOMAIN records /\ records'[a] = r
      /\ \A k \in DOMAIN records \ {a} : records'[k] = records[k]
  BY <1>2, <1>5, RewriteFacts
<1>7. \A j \in Items \ {c} : LiveOf(j)' = LiveOf(j)
  BY <1>1, <1>5, <1>6 DEF LiveOf, Live
<1>8. /\ RewriteRecord => LiveOf(c)' = LiveOf(c) \cup {a}
      /\ RevokeRecord => LiveOf(c)' = LiveOf(c) \ {a}
  <2>1. CASE RewriteRecord /\ r.ver = op.ver /\ ~r.revoked /\ expired' = expired \ {a}
    <3>1. LiveOf(c)' = LiveOf(c) \cup {a}
      BY <1>5, <1>6, <2>1 DEF LiveOf, Live
    <3>2. ~RevokeRecord
      BY <2>1 DEF RewriteRecord, RevokeRecord, At
    <3>3. QED
      BY <3>1, <3>2
  <2>2. CASE RevokeRecord /\ r.revoked /\ expired' = expired
    <3>1. LiveOf(c)' = LiveOf(c) \ {a}
      BY <1>1, <1>5, <1>6, <2>2 DEF LiveOf, Live
    <3>2. ~RewriteRecord
      BY <2>2 DEF RewriteRecord, RevokeRecord, At
    <3>3. QED
      BY <3>1, <3>2
  <2>3. QED
    BY <1>5, <2>1, <2>2
<1>9. acked[c] = None
  BY <1>1, <1>2 DEF DurableInv, WorkOK, UnansweredOK
<1>10. ItemOK(c)'
  <2>1. AckOK(c)' /\ GoneOK(c)'
    BY <1>3, <1>9, CAAssumption DEF AckOK, GoneOK, Gone
  <2>2. /\ LiveOf(c)' \subseteq LiveOf(c) \cup {a} /\ a \in Nat
        /\ \A k \in LiveOf(c) : k <= a
        /\ c \notin orphans => \A k \in LiveOf(c) : k = a
    BY <1>1, <1>2, <1>8, RecordFacts DEF DurableInv, ItemOK, EntryOK
  <2>3. EntryOK(c)'
    BY <1>1, <1>3, <1>5, <1>6, <1>9, <2>2 DEF EntryOK
  <2>4. AloneOK(c)'
    BY <1>1, <1>3, <2>2 DEF AloneOK
  <2>5. QED
    BY <2>1, <2>3, <2>4 DEF ItemOK
<1>11. ASSUME NEW j \in Items, j # c PROVE ItemOK(j)'
  <2>1. \A k \in LiveOf(j) : k \in DOMAIN records \ {a}
    BY <1>1, <1>11 DEF LiveOf
  <2>2. index[j] # None => index[j].at \in DOMAIN records \ {a}
    BY <1>1, <1>11 DEF CAType, BoundsOK, DurableInv, ItemOK, EntryOK
  <2>3. QED
    BY <1>1, <1>3, <1>6, <1>7, <1>11, <2>1, <2>2, ItemFrame DEF DurableInv, Busy, Running
<1>12. WorkOK'
  <2>1. SavingOK'
    BY <1>2, <1>4 DEF SavingOK, Saves, Updates
  <2>2. UpdatingOK'
    BY <1>1, <1>2, <1>3, <1>4, <1>5, <1>6, <1>8 DEF UpdatingOK, Updates
  <2>3. DeletingOK'
    <3>1. op.kind = "revoke" => op.ver = Gone
      BY <1>2 DEF DurableInv, WorkOK, DeletingOK
    <3>2. op.kind \in {"revoke", "gc"} => r.revoked
      BY <1>2, <1>5 DEF Updates, RewriteRecord, RevokeRecord, At
    <3>3. QED
      BY <1>1, <1>2, <1>3, <1>4, <1>6, <3>1, <3>2 DEF DeletingOK, Late
  <2>4. StoredOK' /\ UnansweredOK'
    BY <1>1, <1>2, <1>3, <1>4 DEF DurableInv, WorkOK, StoredOK, UnansweredOK, Late
  <2>5. QED
    BY <2>1, <2>2, <2>3, <2>4 DEF WorkOK
<1>13. QED
  BY <1>10, <1>11, <1>12

(* The sealed header moves the entry of an update to its new version. *)
LEMMA SealDurable ==
  CAType /\ DurableInv /\ SealHeader => (\A j \in Items : ItemOK(j)') /\ WorkOK'
<1> SUFFICES ASSUME CAType, DurableInv, SealHeader
             PROVE  (\A j \in Items : ItemOK(j)') /\ WorkOK'
  OBVIOUS
<1>1. PICK c \in Items : c = op.item /\ c # None
  BY AtFacts DEF SealHeader, Late
<1>2. /\ op # None /\ CATypeOK /\ op.step = "seal" /\ op.kind \in Kinds
      /\ (op.kind \notin Saves) => index[c] # None
  BY <1>1, AtFacts, OpFacts, NoneAssumption DEF SealHeader, Late
<1>3. UNCHANGED <<records, expired, content, up, orphans, acked>>
  BY DEF SealHeader
<1>4. /\ op' # None /\ op'.kind = op.kind /\ op'.item = c /\ op'.ver = op.ver
      /\ op'.todo = op.todo
      /\ op'.step = IF op.kind \in Saves \cup Updates THEN "content" ELSE "unlink"
  <2>1. Go(IF op.kind \in Saves \cup Updates THEN "content" ELSE "unlink")
    BY DEF SealHeader
  <2>2. "content" \in Steps /\ "unlink" \in Steps
    BY DEF Steps
  <2>3. QED
    BY <1>1, <1>2, <2>1, <2>2, GoTypes
<1>5. /\ \A j \in Items \ {c} : index'[j] = index[j]
      /\ op.kind \in Updates => index'[c] = [at |-> index[c].at, ver |-> op.ver, over |-> FALSE]
      /\ op.kind \notin Updates => index'[c] = index[c]
  BY <1>1, <1>2 DEF SealHeader, Stored, CATypeOK
<1>6. acked[c] = None
  BY <1>1, <1>2 DEF DurableInv, WorkOK, UnansweredOK
<1>7. \A j \in Items : LiveOf(j)' = LiveOf(j)
  BY <1>3 DEF LiveOf, Live
<1>8. index'[c] # None => index[c] # None /\ index'[c].at = index[c].at
  BY <1>2, <1>5 DEF Saves, Updates
<1>9. ItemOK(c)'
  <2>1. AckOK(c)' /\ GoneOK(c)'
    BY <1>3, <1>6, CAAssumption DEF AckOK, GoneOK, Gone
  <2>2. EntryOK(c)'
    BY <1>3, <1>6, <1>7, <1>8 DEF DurableInv, ItemOK, EntryOK
  <2>3. AloneOK(c)'
    BY <1>1, <1>3, <1>4, <1>7 DEF DurableInv, ItemOK, AloneOK, Busy
  <2>4. QED
    BY <2>1, <2>2, <2>3 DEF ItemOK
<1>10. ASSUME NEW j \in Items, j # c PROVE ItemOK(j)'
  BY <1>1, <1>3, <1>5, <1>10, ItemQuiet DEF DurableInv, Busy, Running
<1>11. WorkOK'
  <2>1. SavingOK'
    BY <1>1, <1>2, <1>3, <1>4, <1>5, <1>7
    DEF DurableInv, WorkOK, SavingOK, AloneAt, Saves, Updates, Late
  <2>2. UpdatingOK'
    BY <1>1, <1>2, <1>3, <1>4, <1>5, <1>7 DEF DurableInv, WorkOK, UpdatingOK
  <2>3. DeletingOK'
    BY <1>1, <1>2, <1>3, <1>4, <1>5 DEF DurableInv, WorkOK, DeletingOK, Saves, Updates, Late
  <2>4. StoredOK' /\ UnansweredOK'
    BY <1>1, <1>2, <1>3, <1>4 DEF DurableInv, WorkOK, StoredOK, UnansweredOK, Late
  <2>5. QED
    BY <2>1, <2>2, <2>3, <2>4 DEF WorkOK
<1>12. QED
  BY <1>9, <1>10, <1>11

(* The content is in the file of the last record; a save has its entry. *)
LEMMA ContentDurable ==
  CAType /\ DurableInv /\ WriteContent => (\A j \in Items : ItemOK(j)') /\ WorkOK'
<1> SUFFICES ASSUME CAType, DurableInv, WriteContent
             PROVE  (\A j \in Items : ItemOK(j)') /\ WorkOK'
  OBVIOUS
<1>1. PICK c \in Items : c = op.item /\ c # None
  BY AtFacts DEF WriteContent, Late
<1>2. /\ op # None /\ CATypeOK /\ op.step = "content" /\ op.step \notin Late /\ op.file \in FileNos
      /\ op.kind \in Saves \cup Updates /\ op.ver \in Nat
      /\ (op.kind \notin Saves) => index[c] # None
  <2>1. op.kind \notin {"revoke", "gc"}
    BY AtFacts DEF WriteContent, CAType, OpOK, DeleteSteps
  <2>2. QED
    BY <1>1, <2>1, AtFacts, OpFacts, EntryFacts, NoneAssumption DEF WriteContent, Late, Kinds
<1>3. /\ UNCHANGED <<records, expired, up, orphans, acked>>
      /\ content' = [content EXCEPT ![op.file] = op.ver]
  BY DEF WriteContent
<1>4. \/ op' = None /\ op.kind \in Updates
      \/ /\ op' # None /\ op'.kind = op.kind /\ op'.item = c /\ op'.ver = op.ver
         /\ op'.todo = op.todo /\ op'.step = "state"
  BY <1>1, <1>2, GoTypes DEF WriteContent, Ends, Steps, Updates
<1>5. /\ \A j \in Items \ {c} : index'[j] = index[j]
      /\ op.kind \in Saves => index'[c] = [at |-> Len(records), ver |-> op.ver, over |-> FALSE]
      /\ op.kind \notin Saves => index'[c] = index[c]
  BY <1>1, <1>2 DEF WriteContent, Stored, CATypeOK
<1>6. acked[c] = None
  BY <1>1, <1>2 DEF DurableInv, WorkOK, UnansweredOK
<1>7. \A j \in Items : LiveOf(j)' = LiveOf(j)
  BY <1>3 DEF LiveOf, Live
<1>8. PICK a \in LiveOf(c) :
        /\ a \in DOMAIN records /\ records[a].item = c /\ records[a].ver = op.ver
        /\ records[a].file = op.file
        /\ \A k \in LiveOf(c) : k <= a
        /\ c \notin orphans => \A k \in LiveOf(c) : k = a
        /\ index'[c] # None /\ index'[c].at = a /\ index'[c].ver = op.ver /\ ~index'[c].over
  <2>1. CASE op.kind \in Saves
    <3>1. /\ Len(records) \in LiveOf(c) /\ records[Len(records)].ver = op.ver
          /\ c \notin orphans => \A k \in LiveOf(c) : k = Len(records)
          /\ records[Len(records)].file = op.file
      BY <1>1, <1>2, <2>1 DEF DurableInv, WorkOK, SavingOK, AloneAt, Late, FilesOK, OwnFile
    <3>2. \A k \in LiveOf(c) : k <= Len(records)
      BY <1>2, RecordFacts DEF LiveOf
    <3>3. Stored(Len(records)) # None /\ index'[c] = Stored(Len(records))
      BY <1>1, <1>2, <1>5, <2>1, EntryFacts, NoneAssumption, RecordFacts DEF Stored
    <3>4. QED
      BY <1>5, <2>1, <3>1, <3>2, <3>3 DEF LiveOf
  <2>2. CASE op.kind \notin Saves
    <3>1. /\ index[c].at \in LiveOf(c) /\ records[index[c].at].ver = op.ver
          /\ index[c].ver = op.ver /\ ~index[c].over /\ records[index[c].at].file = op.file
      BY <1>1, <1>2, <2>2 DEF DurableInv, WorkOK, UpdatingOK, Late, FilesOK, OwnFile
    <3>2. /\ \A k \in LiveOf(c) : k <= index[c].at
          /\ c \notin orphans => \A k \in LiveOf(c) : k = index[c].at
      BY <1>2, <2>2 DEF DurableInv, ItemOK, EntryOK
    <3>3. QED
      BY <1>2, <1>5, <2>2, <3>1, <3>2 DEF LiveOf
  <2>3. QED
    BY <2>1, <2>2
<1>9. content'[records[a].file] = op.ver
  BY <1>2, <1>3, <1>8 DEF CATypeOK
<1>10. ItemOK(c)'
  <2>1. AckOK(c)' /\ GoneOK(c)'
    BY <1>3, <1>6, CAAssumption DEF AckOK, GoneOK, Gone
  <2>2. EntryOK(c)'
    BY <1>3, <1>7, <1>8 DEF EntryOK
  <2>3. AloneOK(c)'
    BY <1>3, <1>7, <1>8 DEF AloneOK
  <2>4. QED
    BY <2>1, <2>2, <2>3 DEF ItemOK
<1>11. ASSUME NEW j \in Items, j # c PROVE ItemOK(j)'
  <2>1. \A k \in LiveOf(j) : records[k].file \in FileNos /\ records[k].file # op.file
    <3>1. \A k \in LiveOf(j) : records[k].file \in FileNos
      BY <1>2, RecordFacts DEF LiveOf, Record
    <3>2. QED
      BY <1>1, <1>2, <1>11, <3>1, Foreign
  <2>2. \A k \in LiveOf(j) : content'[records[k].file] = content[records[k].file]
    BY <1>2, <1>3, <2>1 DEF CATypeOK
  <2>3. QED
    BY <1>1, <1>3, <1>5, <1>11, <2>2, ItemQuiet DEF DurableInv, Busy, Running
<1>12. WorkOK'
  <2>1. CASE op' = None
    BY <2>1 DEF WorkOK, SavingOK, UpdatingOK, StoredOK, DeletingOK, UnansweredOK
  <2>2. CASE op' # None
    <3>1. SavingOK' /\ UpdatingOK'
      BY <1>4, <2>2 DEF SavingOK, UpdatingOK, Late
    <3>2. DeletingOK'
      BY <1>2, <1>4, <2>2 DEF DeletingOK, Saves, Updates
    <3>3. UnansweredOK'
      BY <1>1, <1>2, <1>3, <1>4, <2>2 DEF DurableInv, WorkOK, UnansweredOK
    <3>4. StoredOK'
      <4>1. op.ver # Gone
        BY <1>2 DEF DurableInv, WorkOK, StoredOK
      <4>2. a \in LiveOf(c)' /\ records'[a].ver = op.ver
        BY <1>3, <1>7, <1>8
      <4>3. QED
        BY <1>3, <1>4, <1>8, <1>9, <2>2, <4>1, <4>2 DEF StoredOK
    <3>5. QED
      BY <3>1, <3>2, <3>3, <3>4 DEF WorkOK
  <2>3. QED
    BY <2>1, <2>2
<1>13. QED
  BY <1>10, <1>11, <1>12

(* DeleteExpired goes on: what is still to do is unanswered. *)
LEMMA WorkExpired ==
  ASSUME CAType, NEW o \in Op, o.kind = "gc", NEW todo \in SUBSET Items,
         \A i \in todo : index[i] # None, NEW err \in BOOLEAN,
         ExpiredFrom(o, todo, err), \A i \in todo : acked'[i] = None
  PROVE  WorkOK' /\ (op' # None => op'.item \in todo \cup {None})
<1>1. \/ op' = None
      \/ /\ op' # None /\ op'.kind = "gc" /\ op'.step = "revoke"
         /\ op'.item \in todo /\ op'.todo = todo \ {op'.item}
      \/ /\ op' # None /\ op'.kind = "gc" /\ op'.step = "state"
         /\ op'.item = None /\ op'.todo = {}
  BY ExpiredFacts
<1>2. QED
  BY <1>1
  DEF WorkOK, SavingOK, UpdatingOK, StoredOK, DeletingOK, UnansweredOK, Saves, Updates, Late

(* A deleted item leaves neither a live record nor its entry. *)
LEMMA RemoveDurable ==
  CAType /\ DurableInv /\ RemoveFile => (\A j \in Items : ItemOK(j)') /\ WorkOK'
<1> SUFFICES ASSUME CAType, DurableInv, RemoveFile
             PROVE  (\A j \in Items : ItemOK(j)') /\ WorkOK'
  OBVIOUS
<1>1. PICK c \in Items : c = op.item /\ c # None
  BY AtFacts DEF RemoveFile, Late
<1>2. /\ op # None /\ op \in Op /\ CATypeOK /\ op.step = "unlink" /\ op.step \notin Late
      /\ op.file \in FileNos /\ op.kind \in {"revoke", "gc"} /\ op.kind \notin Saves
      /\ index[c] # None
  BY <1>1, AtFacts, EntryFacts, NoneAssumption DEF RemoveFile, Late, Saves
<1>3. /\ UNCHANGED <<records, expired, up, orphans, acked>>
      /\ content' = content \/ content' = [content EXCEPT ![op.file] = None]
      /\ index'[c] = None /\ \A j \in Items \ {c} : index'[j] = index[j]
  BY <1>1, <1>2 DEF RemoveFile, CATypeOK
<1>4. acked[c] = None /\ \A j \in op.todo : acked[j] = None
  BY <1>1, <1>2 DEF DurableInv, WorkOK, UnansweredOK
<1>5. \A j \in Items : LiveOf(j)' = LiveOf(j)
  BY <1>3 DEF LiveOf, Live
<1>6. c \notin orphans => LiveOf(c) = {}
  <2>1. records[index[c].at].revoked
    BY <1>1, <1>2 DEF DurableInv, WorkOK, DeletingOK
  <2>2. c \notin orphans => \A k \in LiveOf(c) : k = index[c].at
    BY <1>2 DEF DurableInv, ItemOK, EntryOK
  <2>3. QED
    BY <2>1, <2>2 DEF LiveOf, Live
<1>7. ItemOK(c)'
  <2>1. AckOK(c)' /\ GoneOK(c)'
    BY <1>3, <1>4, CAAssumption DEF AckOK, GoneOK, Gone
  <2>2. EntryOK(c)' /\ AloneOK(c)'
    BY <1>3, <1>5, <1>6 DEF EntryOK, AloneOK
  <2>3. QED
    BY <2>1, <2>2 DEF ItemOK
<1>8. ASSUME NEW j \in Items, j # c PROVE ItemOK(j)'
  <2>1. \A k \in LiveOf(j) : records[k].file \in FileNos /\ records[k].file # op.file
    <3>1. \A k \in LiveOf(j) : records[k].file \in FileNos
      BY <1>2, RecordFacts DEF LiveOf, Record
    <3>2. QED
      BY <1>1, <1>2, <1>8, <3>1, Foreign
  <2>2. \A k \in LiveOf(j) : content'[records[k].file] = content[records[k].file]
    BY <1>2, <1>3, <2>1 DEF CATypeOK
  <2>3. QED
    BY <1>1, <1>3, <1>8, <2>2, ItemQuiet DEF DurableInv, Busy, Running
<1>9. WorkOK'
  <2>1. CASE op.kind = "gc"
    <3>1. /\ op.todo \in SUBSET Items /\ op.err \in BOOLEAN
          /\ \A i \in op.todo : index[i] # None
      BY <1>2, OpFacts DEF CAType, BoundsOK
    <3>2. ExpiredFrom(op, op.todo, op.err)
      BY <2>1 DEF RemoveFile
    <3>3. QED
      BY <1>2, <1>3, <1>4, <2>1, <3>1, <3>2, WorkExpired
  <2>2. CASE op.kind = "revoke"
    <3>1. /\ op' # None /\ op'.kind = "revoke" /\ op'.item = c /\ op'.ver = op.ver
          /\ op'.todo = op.todo /\ op'.step = "state"
      BY <1>1, <1>2, <2>2, GoTypes DEF RemoveFile, Steps
    <3>2. op.ver = Gone
      BY <1>2, <2>2 DEF DurableInv, WorkOK, DeletingOK
    <3>3. DeletingOK'
      BY <1>3, <1>5, <1>6, <3>1, <3>2 DEF DeletingOK, NoneLive
    <3>4. SavingOK' /\ UpdatingOK' /\ StoredOK'
      BY <3>1 DEF SavingOK, UpdatingOK, StoredOK, Saves, Updates
    <3>5. UnansweredOK'
      BY <1>3, <1>4, <3>1 DEF UnansweredOK
    <3>6. QED
      BY <3>3, <3>4, <3>5 DEF WorkOK
  <2>3. QED
    BY <1>2, <2>1, <2>2
<1>10. QED
  BY <1>7, <1>8, <1>9

(* The truncated state file touches no item. *)
LEMMA TruncateStateDurable ==
  CAType /\ DurableInv /\ TruncateState => (\A j \in Items : ItemOK(j)') /\ WorkOK'
<1> SUFFICES ASSUME CAType, DurableInv, TruncateState
             PROVE  (\A j \in Items : ItemOK(j)') /\ WorkOK'
  OBVIOUS
<1>1. /\ op # None /\ op.step = "state"
      /\ UNCHANGED <<records, expired, up, orphans, acked, content, index>>
  BY DEF TruncateState, memory, At
<1>2. /\ op' # None /\ op'.kind = op.kind /\ op'.item = op.item /\ op'.ver = op.ver
      /\ op'.todo = op.todo /\ op'.step = "write"
  BY <1>1, GoTypes DEF TruncateState, Steps, CAType
<1>3. ASSUME NEW j \in Items PROVE ItemOK(j)'
  BY <1>1, <1>2, ItemQuiet DEF DurableInv, Busy, Running
<1>4. \A j : LiveOf(j)' = LiveOf(j)
  BY <1>1 DEF LiveOf, Live
<1>5. WorkOK'
  BY <1>1, <1>2, <1>4 DEF DurableInv, WorkOK, SavingOK, UpdatingOK, StoredOK, DeletingOK,
     UnansweredOK, NoneLive, AloneAt, Late
<1>6. QED
  BY <1>3, <1>5

(* The answer is given for what is there. *)
LEMMA AnswerDurable ==
  CAType /\ DurableInv /\ WriteState => (\A j \in Items : ItemOK(j)') /\ WorkOK'
<1> SUFFICES ASSUME CAType, DurableInv, WriteState
             PROVE  (\A j \in Items : ItemOK(j)') /\ WorkOK'
  OBVIOUS
<1>1. /\ op # None /\ op.step = "write" /\ CATypeOK /\ op' = None /\ Running
      /\ op.kind \in Kinds /\ op.item \in Items \cup {None}
      /\ UNCHANGED <<records, expired, up, orphans, content, index>>
  BY AtFacts, OpFacts DEF WriteState, Ends, memory
<1>2. \A j : LiveOf(j)' = LiveOf(j)
  BY <1>1 DEF LiveOf, Live
<1>3. WorkOK'
  BY <1>1 DEF WorkOK, SavingOK, UpdatingOK, StoredOK, DeletingOK, UnansweredOK
<1>4. CASE op.item = None
  <2>1. acked' = acked
    BY <1>4 DEF WriteState
  <2>2. ASSUME NEW j \in Items PROVE ItemOK(j)'
    <3>1. ~Busy(j)
      BY <1>4, CAAssumption DEF Busy, Items
    <3>2. QED
      BY <1>1, <2>1, <3>1, ItemQuiet DEF DurableInv, Running
  <2>3. QED
    BY <1>3, <2>2
<1>5. CASE op.item # None
  <2>1. PICK c \in Items : c = op.item
    BY <1>1, <1>5
  <2>2. acked'[c] = op.ver /\ \A j \in Items \ {c} : acked'[j] = acked[j]
    BY <1>1, <1>5, <2>1 DEF WriteState, CATypeOK
  <2>3. ASSUME NEW j \in Items, j # c PROVE ItemOK(j)'
    BY <1>1, <2>1, <2>2, <2>3, ItemQuiet DEF DurableInv, Busy, Running
  <2>4. EntryOK(c) /\ AloneOK(c)
    BY DEF DurableInv, ItemOK
  <2>5. CASE op.kind \in Saves \cup Updates
    <3> DEFINE a == index[c].at
    <3>1. /\ op.ver # Gone /\ index[c] # None /\ a \in LiveOf(c)
          /\ index[c].ver = op.ver /\ ~index[c].over
          /\ records[a].ver = op.ver /\ content[records[a].file] = op.ver
      BY <1>1, <2>1, <2>5 DEF DurableInv, WorkOK, StoredOK, Late
    <3>2. EntryOK(c)'
      BY <1>1, <1>2, <2>4, <3>1 DEF EntryOK
    <3>3. AloneOK(c)'
      BY <1>1, <1>2, <2>4, <3>1 DEF AloneOK
    <3>4. AckOK(c)'
      <4>1. StoredAt(c, a)'
        BY <1>1, <1>2, <2>2, <2>4, <3>1 DEF StoredAt, EntryOK
      <4>2. QED
        BY <1>1, <1>2, <3>1, <4>1 DEF AckOK
    <3>5. GoneOK(c)'
      BY <2>2, <3>1 DEF GoneOK
    <3>6. QED
      BY <1>3, <2>3, <3>2, <3>3, <3>4, <3>5 DEF ItemOK
  <2>6. CASE op.kind \notin Saves \cup Updates
    <3>1. op.kind = "revoke"
      BY <1>1, <1>5, <2>6 DEF Kinds, CAType, OpOK, Late
    <3>2. op.ver = Gone /\ index[c] = None /\ (c \notin orphans => LiveOf(c) = {})
      BY <1>1, <2>1, <3>1 DEF DurableInv, WorkOK, DeletingOK, NoneLive, Late
    <3>3. EntryOK(c)' /\ AloneOK(c)'
      BY <1>1, <1>2, <3>2 DEF EntryOK, AloneOK
    <3>4. AckOK(c)' /\ GoneOK(c)'
      BY <1>1, <1>2, <2>2, <3>2 DEF AckOK, GoneOK
    <3>5. QED
      BY <1>3, <2>3, <3>3, <3>4 DEF ItemOK
  <2>7. QED
    BY <2>5, <2>6
<1>6. QED
  BY <1>4, <1>5

(* A failed write leaves an item with its entry, without a live record, or *)
(* with a record that is known to be left over. *)
LEMMA FailDurable ==
  CAType /\ DurableInv /\ WriteFails => (\A j \in Items : ItemOK(j)') /\ WorkOK'
<1> SUFFICES ASSUME CAType, DurableInv, WriteFails
             PROVE  (\A j \in Items : ItemOK(j)') /\ WorkOK'
  OBVIOUS
<1>1. /\ op # None /\ op \in Op /\ op.step # "unlink"
      /\ UNCHANGED <<records, expired, up, content, index, acked>>
      /\ orphans \subseteq orphans'
      /\ (op.kind \in Saves /\ op.step \in {"seal", "content"}) => op.item \in orphans'
  BY OpFacts DEF WriteFails, disk, At, CAType
<1>2. ASSUME NEW j \in Items, Busy(j), index[j] = None, j \notin orphans'
      PROVE  LiveOf(j) = {}
  <2>1. op.item = j /\ j # None /\ op.kind \in Kinds /\ j \notin orphans
    BY <1>1, <1>2, OpFacts, CAAssumption DEF Busy, Items, CAType
  <2>2. CASE op.kind \in Saves
    <3>1. op.step \in SaveSteps
      BY <1>1, <2>2 DEF CAType, OpOK
    <3>2. op.step \notin Late
      BY <1>1, <1>2, <2>1, <2>2 DEF DurableInv, WorkOK, StoredOK
    <3>3. op.step \in {"create", "append"}
      BY <1>1, <1>2, <2>1, <2>2, <3>1, <3>2 DEF SaveSteps, Late
    <3>4. QED
      BY <1>1, <2>1, <2>2, <3>2, <3>3 DEF DurableInv, WorkOK, SavingOK, NoneLive
  <2>3. CASE op.kind \in Updates
    BY <1>1, <1>2, <2>1, <2>3 DEF DurableInv, WorkOK, StoredOK, CAType, BoundsOK, Saves, Updates
  <2>4. CASE op.kind \in {"revoke", "gc"}
    <3>1. op.step \in Late
      BY <1>1, <1>2, <2>1, <2>4 DEF CAType, BoundsOK, Saves
    <3>2. op.kind = "revoke"
      BY <1>1, <2>1, <2>4, <3>1 DEF CAType, OpOK
    <3>3. QED
      BY <1>1, <2>1, <3>1, <3>2 DEF DurableInv, WorkOK, DeletingOK, NoneLive
  <2>5. QED
    BY <2>1, <2>2, <2>3, <2>4 DEF Kinds
<1>3. ASSUME NEW j \in Items PROVE ItemOK(j)'
  BY <1>1, <1>2, ItemQuiet DEF DurableInv, Running
<1>4. WorkOK'
  <2>1. CASE op.kind = "gc" /\ op.step \in {"revoke", "seal"}
    <3>1. ExpiredFrom(op, op.todo, TRUE)
      BY <2>1 DEF WriteFails
    <3>2. /\ op.todo \in SUBSET Items /\ \A i \in op.todo : index[i] # None
      BY <1>1, OpFacts DEF CAType, BoundsOK
    <3>3. \A i \in op.todo : acked'[i] = None
      BY <1>1 DEF DurableInv, WorkOK, UnansweredOK
    <3>4. QED
      BY <1>1, <2>1, <3>1, <3>2, <3>3, WorkExpired
  <2>2. CASE ~(op.kind = "gc" /\ op.step \in {"revoke", "seal"})
    BY <2>2 DEF WriteFails, Ends, WorkOK, SavingOK, UpdatingOK, StoredOK, DeletingOK, UnansweredOK
  <2>3. QED
    BY <2>1, <2>2
<1>5. QED
  BY <1>3, <1>4

(* The begin of a collection: what is over is unanswered. *)
LEMMA CollectDurable ==
  CAType /\ DurableInv /\ DeleteExpiredCertificates => (\A j \in Items : ItemOK(j)') /\ WorkOK'
<1> SUFFICES ASSUME CAType, DurableInv, DeleteExpiredCertificates
             PROVE  (\A j \in Items : ItemOK(j)') /\ WorkOK'
  OBVIOUS
<1> DEFINE o == [kind |-> "gc", item |-> None, step |-> "state", file |-> 0,
                 ver |-> Gone, todo |-> {}, err |-> FALSE]
           todo == {i \in Items : index[i] # None /\ index[i].over}
<1>1. o \in Op /\ o.kind = "gc"
  BY DEF Op, Kinds, Steps, Gone
<1>2. ExpiredFrom(o, todo, FALSE)
  BY DEF DeleteExpiredCertificates
<1>3. /\ UNCHANGED <<records, expired, up, content, index, acked, orphans>> /\ op = None
  BY DEF DeleteExpiredCertificates, disk, memory
<1>4. todo \in SUBSET Items /\ \A i \in todo : index[i] # None
  OBVIOUS
<1>5. \A i \in todo : acked'[i] = None
  BY <1>3 DEF DurableInv, ItemOK, EntryOK
<1> HIDE DEF o, todo
<1>6. WorkOK'
  BY <1>1, <1>2, <1>4, <1>5, WorkExpired
<1>7. ASSUME NEW j \in Items PROVE ItemOK(j)'
  BY <1>3, ItemQuiet DEF DurableInv, Busy, Running
<1>8. QED
  BY <1>6, <1>7

(* An expiry ends what was answered of its item, and of no other. *)
LEMMA ExpireDurable ==
  ASSUME CAType, DurableInv, NEW k \in DOMAIN records, Expire(k)
  PROVE  (\A j \in Items : ItemOK(j)') /\ WorkOK'
<1>1. PICK c \in Items : c = records[k].item
  BY RecordFacts DEF CAType, Record
<1>2. /\ UNCHANGED <<records, up, content, orphans>> /\ op = None /\ op' = None
      /\ expired' = expired \cup {k}
      /\ acked'[c] = None /\ \A j \in Items \ {c} : acked'[j] = acked[j]
  BY <1>1 DEF Expire, disk, CAType, CATypeOK
<1>3. \A j \in Items : LiveOf(j)' = LiveOf(j) \ {k}
  BY <1>2 DEF LiveOf, Live
<1>4. \A j \in Items :
        /\ index'[j] # None <=> index[j] # None
        /\ index[j] # None => index'[j].at = index[j].at
        /\ (index[j] # None /\ index[j].at # k) => index'[j] = index[j]
  <2>1. \A j \in Items : index[j] # None =>
          [index[j] EXCEPT !.over = TRUE] \in Slot /\ [index[j] EXCEPT !.over = TRUE].at = index[j].at
    BY DEF CAType, CATypeOK, Slot
  <2>2. QED
    BY <2>1, NoneAssumption DEF Expire
<1>5. ItemOK(c)'
  <2>1. AckOK(c)' /\ GoneOK(c)'
    BY <1>2, CAAssumption DEF AckOK, GoneOK, Gone
  <2>2. EntryOK(c)'
    BY <1>2, <1>3, <1>4 DEF DurableInv, ItemOK, EntryOK
  <2>3. AloneOK(c)'
    BY <1>2, <1>3, <1>4 DEF DurableInv, ItemOK, AloneOK, Running, Busy
  <2>4. QED
    BY <2>1, <2>2, <2>3 DEF ItemOK
<1>6. ASSUME NEW j \in Items, j # c PROVE ItemOK(j)'
  <2>1. k \notin LiveOf(j)
    BY <1>1, <1>6 DEF LiveOf
  <2>2. index'[j] = index[j]
    <3>1. CASE index[j] = None
      BY <1>4, <3>1
    <3>2. CASE index[j] # None
      <4>1. index[j].at # k
        BY <1>1, <1>6, <3>2 DEF DurableInv, ItemOK, EntryOK
      <4>2. QED
        BY <1>4, <3>2, <4>1
    <3>3. QED
      BY <3>1, <3>2
  <2>3. LiveOf(j)' = LiveOf(j)
    BY <1>3, <2>1
  <2>4. QED
    BY <1>2, <1>6, <2>2, <2>3, ItemFrame DEF DurableInv, Busy, Running
<1>7. WorkOK'
  BY <1>2 DEF WorkOK, SavingOK, UpdatingOK, StoredOK, DeletingOK, UnansweredOK
<1>8. QED
  BY <1>5, <1>6, <1>7

(* An end of the process leaves the disk as it is. *)
LEMMA CrashDurable ==
  CAType /\ DurableInv /\ Crash => (\A j \in Items : ItemOK(j)') /\ WorkOK'
<1> SUFFICES ASSUME CAType, DurableInv, Crash
             PROVE  (\A j \in Items : ItemOK(j)') /\ WorkOK'
  OBVIOUS
<1>1. /\ UNCHANGED <<records, expired, content, acked>> /\ op' = None /\ ~Running'
      /\ orphans \subseteq orphans' /\ \A j \in Items : index'[j] = None
  BY DEF Crash, disk, Running
<1>2. \A j : LiveOf(j)' = LiveOf(j)
  BY <1>1 DEF LiveOf, Live
<1>3. ASSUME NEW j \in Items PROVE ItemOK(j)'
  <2>1. EntryOK(j)' /\ AloneOK(j)' /\ GoneOK(j)'
    BY <1>1, <1>2 DEF DurableInv, ItemOK, EntryOK, AloneOK, GoneOK
  <2>2. AckOK(j)'
    BY <1>1, <1>2 DEF DurableInv, ItemOK, AckOK, StoredAt
  <2>3. QED
    BY <2>1, <2>2 DEF ItemOK
<1>4. WorkOK'
  BY <1>1 DEF WorkOK, SavingOK, UpdatingOK, StoredOK, DeletingOK, UnansweredOK
<1>5. QED
  BY <1>3, <1>4

(* A start finds of every item what was answered. *)
LEMMA BootDurable ==
  CAType /\ DurableInv /\ Boot => (\A j \in Items : ItemOK(j)') /\ WorkOK'
<1> SUFFICES ASSUME CAType, DurableInv, Boot
             PROVE  (\A j \in Items : ItemOK(j)') /\ WorkOK'
  OBVIOUS
<1>1. /\ UNCHANGED <<records, expired, content, acked, orphans>> /\ op = None /\ op' = None
      /\ ~Running
  BY DEF Boot, disk, history, CAType, OpOK, Running
<1>2. \A j : LiveOf(j)' = LiveOf(j)
  BY <1>1 DEF LiveOf, Live
<1>3. WorkOK'
  BY <1>1 DEF WorkOK, SavingOK, UpdatingOK, StoredOK, DeletingOK, UnansweredOK
<1>4. CASE ~Loads /\ up' = "refused" /\ UNCHANGED <<index, count, next, serial>>
  <2>1. ASSUME NEW j \in Items PROVE ItemOK(j)'
    BY <1>1, <1>4, ItemQuiet DEF DurableInv, Busy, Running
  <2>2. QED
    BY <1>3, <2>1
<1>5. CASE index' = [i \in Items |-> LoadedEntry(i)]
  <2>1. ASSUME NEW j \in Items PROVE ItemOK(j)'
    <3>1. index'[j] = LoadedEntry(j)
      BY <1>5
    <3>2. EntryOK(j)'
      <4>1. SUFFICES ASSUME LiveOf(j) # {} PROVE EntryOK(j)'
        BY <3>1, LoadedFacts DEF EntryOK
      <4> DEFINE a == LoadedAt(j)
      <4>2. /\ a \in LiveOf(j) /\ \A k \in LiveOf(j) : k <= a
            /\ index'[j].at = a /\ ~index'[j].over
        BY <3>1, <4>1, LoadedFacts
      <4>3. records'[a].item = j
        BY <1>1, <4>2 DEF LiveOf
      <4>4. j \notin orphans' => \A k \in LiveOf(j) : k = a
        BY <1>1, <4>2 DEF DurableInv, ItemOK, AloneOK
      <4> HIDE DEF a
      <4>5. QED
        BY <1>2, <4>2, <4>3, <4>4 DEF EntryOK
    <3>3. AloneOK(j)'
      BY <1>1, <1>2, <3>1, LoadedFacts DEF DurableInv, ItemOK, AloneOK
    <3>4. GoneOK(j)'
      BY <1>1, <1>2, <3>1, LoadedFacts DEF DurableInv, ItemOK, GoneOK
    <3>5. AckOK(j)'
      <4>1. SUFFICES ASSUME acked[j] \notin {None, Gone} PROVE \E k \in LiveOf(j) : StoredAt(j, k)'
        BY <1>1, <1>2 DEF AckOK
      <4>2. PICK k \in LiveOf(j) : StoredAt(j, k)
        BY <4>1 DEF DurableInv, ItemOK, AckOK
      <4>3. k = LoadedAt(j)
        <5>1. LoadedAt(j) \in LiveOf(j) /\ \A l \in LiveOf(j) : l <= LoadedAt(j)
          BY <4>2, LoadedFacts
        <5>2. LoadedAt(j) <= k /\ k <= LoadedAt(j) /\ k \in Nat /\ LoadedAt(j) \in Nat
          BY <4>2, <5>1, RecordFacts DEF StoredAt, LiveOf, CAType
        <5>3. QED
          BY <5>2
      <4>4. StoredAt(j, k)'
        BY <1>1, <1>2, <3>1, <4>2, <4>3, LoadedFacts DEF StoredAt
      <4>5. QED
        BY <4>4
    <3>6. QED
      BY <3>2, <3>3, <3>4, <3>5 DEF ItemOK
  <2>2. QED
    BY <1>3, <2>1
<1>6. QED
  BY <1>4, <1>5 DEF Boot

(* No serial number is 0, in the memory or on the disk. *)
LEMMA NumbersStep == CAType /\ NumbersOK /\ [CANext]_caVars => NumbersOK'
<1> SUFFICES ASSUME CAType, NumbersOK, [CANext]_caVars PROVE NumbersOK'
  OBVIOUS
<1>1. serial \in Nat
  BY DEF CAType, CATypeOK
<1>2. ASSUME UNCHANGED <<serial, up>>, state' \in {state, None} PROVE NumbersOK'
  BY <1>2 DEF NumbersOK, Running
<1>3. CASE WriteContent
  <2>1. serial' \in {serial, serial + 1} /\ UNCHANGED <<up, state>>
    BY <1>3 DEF WriteContent
  <2>2. QED
    BY <1>1, <2>1 DEF NumbersOK, Running, Gone
<1>4. CASE WriteState
  <2>1. /\ Running /\ UNCHANGED <<serial, up>> /\ state'.serial = serial
    BY <1>4, AtFacts DEF WriteState, memory, SavedState
  <2>2. QED
    BY <2>1 DEF NumbersOK, Running
<1>5. CASE TruncateState
  BY <1>2, <1>5 DEF TruncateState, memory
<1>6. CASE Crash
  BY <1>6 DEF Crash, disk, NumbersOK, Running
<1>7. CASE Boot
  BY <1>7 DEF Boot, disk, Loads, NumbersOK, Running
<1>8. CASE \/ \E c \in Certs : IssueCertificate(c) \/ UpdateCertificate(c)
           \/ \E k \in Keys : SaveOrUpdateKeyPair(k)
           \/ \E i \in Items : RevokeCertificate(i)
  <2>1. UNCHANGED <<serial, up, state>>
    BY <1>8 DEF IssueCertificate, UpdateCertificate, SaveOrUpdateKeyPair, RevokeCertificate,
       Saving, Updating, Begins, disk
  <2>2. QED
    BY <1>2, <2>1
<1>9. CASE \/ CreateFile \/ AppendRecord \/ TruncateFile \/ RewriteRecord \/ RevokeRecord
           \/ SealHeader \/ RemoveFile \/ WriteFails \/ DeleteExpiredCertificates
           \/ (\E k \in DOMAIN records : Expire(k)) \/ UNCHANGED caVars
  <2>1. UNCHANGED <<serial, up, state>>
    BY <1>9 DEF CreateFile, AppendRecord, TruncateFile, RewriteRecord, RevokeRecord,
       SealHeader, RemoveFile, WriteFails, DeleteExpiredCertificates, Expire, caVars,
       disk, memory
  <2>2. QED
    BY <1>2, <2>1
<1>10. QED
  BY <1>3, <1>4, <1>5, <1>6, <1>7, <1>8, <1>9 DEF CANext, CAStep

(* Every step keeps what was answered, stored or deleted. *)
LEMMA DurableStep == CAType /\ DurableInv /\ [CANext]_caVars => DurableInv'
<1> SUFFICES ASSUME CAType, DurableInv, [CANext]_caVars PROVE DurableInv'
  OBVIOUS
<1> DEFINE Goal == (\A j \in Items : ItemOK(j)') /\ WorkOK'
<1>1. FilesOK' /\ NumbersOK'
  BY FilesStep, NumbersStep DEF DurableInv
<1>2. CASE \/ \E c \in Certs : IssueCertificate(c) \/ UpdateCertificate(c)
           \/ \E k \in Keys : SaveOrUpdateKeyPair(k)
           \/ \E i \in Items : RevokeCertificate(i)
  <2>1. PICK kind \in Kinds \ {"gc"}, i \in Items, step \in Steps \ Late, file \in Nat, ver \in Nat :
           /\ Begins(kind, i, step, file, ver)
           /\ \/ kind \in Saves /\ step = "create" /\ index[i] = None
              \/ kind \notin Saves /\ index[i] # None /\ step \in {"truncate", "revoke"}
           /\ kind \in {"issue", "renew"} => ver = serial
           /\ kind \in {"put", "reput"} => ver = ops + 1
           /\ kind = "revoke" => ver = Gone
    BY <1>2, BeginsCases
  <2>2. QED
    BY <1>1, <2>1, BeginDurable DEF DurableInv
<1>3. CASE UNCHANGED caVars
  <2>1. UNCHANGED <<records, expired, content, acked, orphans, index, up, op>>
    BY <1>3 DEF caVars, disk, memory, history
  <2>2. ASSUME NEW j \in Items PROVE ItemOK(j)'
    BY <2>1, ItemQuiet DEF DurableInv, Busy, Running
  <2>3. \A j : LiveOf(j)' = LiveOf(j)
    BY <2>1 DEF LiveOf, Live
  <2>4. WorkOK'
    BY <2>1, <2>3 DEF DurableInv, WorkOK, SavingOK, UpdatingOK, StoredOK, DeletingOK,
       UnansweredOK, NoneLive, AloneAt
  <2>5. QED
    BY <1>1, <2>2, <2>4 DEF DurableInv
<1>4. CASE CAStep \/ DeleteExpiredCertificates \/ Crash \/ Boot
           \/ \E k \in DOMAIN records : Expire(k)
  <2>1. Goal
    BY <1>4, FileDurable, AppendDurable, RewriteDurable, SealDurable, ContentDurable,
       RemoveDurable, TruncateStateDurable, AnswerDurable, FailDurable, CollectDurable,
       ExpireDurable, CrashDurable, BootDurable DEF CAStep
  <2>2. QED
    BY <1>1, <2>1 DEF DurableInv
<1>5. QED
  BY <1>2, <1>3, <1>4 DEF CANext

(* A new authority has nothing to lose. *)
LEMMA DurableInit == CAInit => DurableInv
<1> SUFFICES ASSUME CAInit PROVE DurableInv
  OBVIOUS
<1>1. DOMAIN records = {} /\ op = None /\ expired = {} /\ serial = 2 /\ state.serial = 2
  BY DEF CAInit
<1>2. \A j \in Items : index[j] = None /\ acked[j] = Gone /\ LiveOf(j) = {}
  BY <1>1 DEF CAInit, LiveOf
<1>3. FilesOK /\ NumbersOK /\ WorkOK
  BY <1>1 DEF FilesOK, HeldApart, OwnFile, NumbersOK, Gone, WorkOK, SavingOK, UpdatingOK,
     StoredOK, DeletingOK, UnansweredOK
<1>4. \A j \in Items : ItemOK(j)
  BY <1>2 DEF ItemOK, EntryOK, AloneOK, AckOK, GoneOK
<1>5. QED
  BY <1>3, <1>4 DEF DurableInv

(* What an operation stored and answered with success stays what the       *)
(* memory has of the item, and what any later start that loads would have: *)
(* its record and its content.                                             *)
THEOREM DurableCorrect == CASpec => []Durable
<1>1. CAType /\ DurableInv => Durable
  <2> SUFFICES ASSUME CAType, DurableInv, NEW i \in Items, Known(i)
               PROVE  /\ up = "run" => index[i] # None /\ index[i].ver = acked[i]
                      /\ /\ LoadedEntry(i) # None
                         /\ LoadedEntry(i).ver = acked[i]
                         /\ content[records[LoadedAt(i)].file] = acked[i]
    BY DEF Durable
  <2>1. PICK k \in LiveOf(i) : StoredAt(i, k)
    BY DEF Known, DurableInv, ItemOK, AckOK
  <2>2. LoadedAt(i) \in LiveOf(i) /\ \A l \in LiveOf(i) : l <= LoadedAt(i)
    BY <2>1, LoadedFacts
  <2>3. LoadedAt(i) = k
    <3>1. LoadedAt(i) <= k /\ k <= LoadedAt(i) /\ k \in Nat /\ LoadedAt(i) \in Nat
      BY <2>1, <2>2, RecordFacts DEF StoredAt, LiveOf, CAType
    <3>2. QED
      BY <3>1
  <2>4. LoadedEntry(i) # None /\ LoadedEntry(i).ver = records[k].ver
    BY <2>1, <2>3, LoadedFacts
  <2>5. QED
    BY <2>1, <2>3, <2>4 DEF StoredAt, Running
<1>2. QED
  BY CATypeInit, CATypeStep, DurableInit, DurableStep, <1>1, PTL DEF CASpec

(* A revoked certificate or deleted key does not come back with a restart. *)
THEOREM DeletedStaysCorrect == CASpec => []DeletedStays
<1>1. CAType /\ DurableInv => DeletedStays
  BY LoadedFacts DEF DeletedStays, DurableInv, ItemOK, GoneOK
<1>2. QED
  BY CATypeInit, CATypeStep, DurableInit, DurableStep, <1>1, PTL DEF CASpec
=============================================================================
