---------------------------- MODULE CertAuthority ----------------------------
(***************************************************************************)
(* The certificate authority of the control plane (src/ca/ca.go) over its  *)
(* directory of certificates and keys (src/ca/storage/file.go).            *)
(*                                                                         *)
(* An operation of the authority runs under caLock and writes three things *)
(* one after the other: the index file of the storage (a record, then a    *)
(* header sealed for the size of the file and carrying the record          *)
(* counter), the content file of the entry, and ca_state.dat (the next     *)
(* serial number and the record counter, which a start compares with the   *)
(* header's).  A step is one of these writes.  The process may be killed   *)
(* between two of them, and a write may fail.                              *)
(*                                                                         *)
(* Abstractions: one write is atomic; the authority's own key pair (record *)
(* counter 1, file 0, valid for a year) is there and never operated on; a  *)
(* content is told from another by the number it was signed or stored      *)
(* under (a certificate's serial).                                         *)
(***************************************************************************)
EXTENDS Naturals, Sequences, FiniteSetsExt

CONSTANTS Certs,        \* CommonNames certificates are issued for
          Keys,         \* names of key pairs kept for ACME
          None,         \* no value
          Empty,        \* the content of a file that was only created
          MidCrash,     \* may the process be killed inside an operation
          MaxOps,       \* bound: operations begun
          MaxFailures,  \* bound: writes that fail
          MaxStops      \* bound: ends of the process

Items == Certs \cup Keys
Gone == 0
FileNos == 1..(MaxOps + 1)

ASSUME CAAssumption ==
  /\ Certs \cap Keys = {}
  /\ None \notin Nat /\ Empty \notin Nat /\ None # Empty
  /\ None \notin Items
  /\ MidCrash \in BOOLEAN
  /\ MaxOps \in Nat /\ MaxFailures \in Nat /\ MaxStops \in Nat

VARIABLES
  records,  \* index.dat: its records, in file order
  header,   \* index.dat: the header, and the size it was sealed for
  content,  \* file_<n>
  state,    \* ca_state.dat; None: truncated
  up,       \* the control plane: "run", "down", or "refused" to start
  index,    \* dirStorage.certs and keypairs: where the record is, what it names
  count,    \* dirStorage.recordCounter
  next,     \* dirStorage.fileCounter
  serial,   \* CA.serialNum
  op,       \* the operation that holds caLock
  expired,  \* records past their NotAfter
  ops, failures, stops,  \* spent
  answer,   \* history: how the last operation ended
  acked,    \* history: what an item is known to be since an operation said ok
  issued,   \* history: serials of the certificates handed out
  orphans   \* history: items a save failed for after its record was appended

disk == <<records, header, content, state>>
memory == <<up, index, count, next, serial>>
bounds == <<ops, failures, stops>>
history == <<answer, acked, issued, orphans>>
caVars == <<disk, memory, op, expired, bounds, history>>

Saves == {"issue", "put"}         \* Save...: a new record and a new file
Updates == {"renew", "reput"}     \* Update...: both rewritten in place
Kinds == Saves \cup Updates \cup {"revoke", "gc"}
Steps == {"create", "append", "truncate", "rewrite", "revoke", "seal",
          "content", "unlink", "state", "write"}

Record == [item: Items, file: FileNos, ver: Nat, count: Nat, revoked: BOOLEAN]
Op == [kind: Kinds, item: Items \cup {None}, step: Steps, file: Nat, ver: Nat,
       todo: SUBSET Items, err: BOOLEAN]

Slot == [at: Nat, ver: Nat, over: BOOLEAN]
Sealed == [serial: Nat, count: Nat]

ASSUME NoneAssumption == None \notin Op \cup Slot \cup Sealed

CATypeOK ==
  /\ records \in Seq(Record)
  /\ header \in [count: Nat, size: Nat]
  /\ content \in [FileNos -> Nat \cup {None, Empty}]
  /\ state \in Sealed \cup {None}
  /\ up \in {"run", "down", "refused"}
  /\ index \in [Items -> Slot \cup {None}]
  /\ count \in Nat /\ next \in Nat /\ serial \in Nat
  /\ op \in Op \cup {None}
  /\ expired \in SUBSET Nat
  /\ ops \in Nat /\ failures \in Nat /\ stops \in Nat
  /\ answer \in {"ok", "err"}
  /\ acked \in [Items -> Nat \cup {None}]
  /\ issued \in Seq(Nat)
  /\ orphans \in SUBSET Items

(* A new authority has stored its key pair and saved its state. *)
CAInit ==
  /\ records = <<>>
  /\ header = [count |-> 1, size |-> 0]
  /\ content = [f \in FileNos |-> None]
  /\ state = [serial |-> 2, count |-> 1]
  /\ up = "run"
  /\ index = [i \in Items |-> None]
  /\ count = 1 /\ next = 1 /\ serial = 2
  /\ op = None
  /\ expired = {}
  /\ ops = 0 /\ failures = 0 /\ stops = 0
  /\ answer = "ok"
  /\ acked = [i \in Items |-> Gone]
  /\ issued = <<>>
  /\ orphans = {}

-----------------------------------------------------------------------------
(* What a start reads from the disk.                                       *)

Live(k) == ~records[k].revoked /\ k \notin expired
LiveOf(i) == {k \in DOMAIN records : records[k].item = i /\ Live(k)}
LiveFiles == {records[k].file : k \in {j \in DOMAIN records : Live(j)}}

(* Faulty variants, named Bad..., each break one property stated below.    *)
BadLoadedAt(i) == Min(LiveOf(i))

(* loadIndex: of several live records of an item the last one counts. *)
LoadedAt(i) == Max(LiveOf(i))

LoadedEntry(i) ==
  IF LiveOf(i) = {} THEN None
  ELSE [at |-> LoadedAt(i), ver |-> records[LoadedAt(i)].ver, over |-> FALSE]

(* The header opens only under the size it was sealed for, and must not be *)
(* behind the records.                                                     *)
Opens ==
  /\ header.size = Len(records)
  /\ \A k \in DOMAIN records : records[k].count <= header.count

Loads == Opens /\ state # None /\ state.count = header.count

-----------------------------------------------------------------------------
(* An operation takes caLock.                                              *)

Begins(kind, i, step, file, ver) ==
  /\ up = "run" /\ op = None /\ ops < MaxOps
  /\ ops' = ops + 1
  /\ op' = [kind |-> kind, item |-> i, step |-> step, file |-> file,
            ver |-> ver, todo |-> {}, err |-> FALSE]
  /\ acked' = [acked EXCEPT ![i] = None]
  /\ UNCHANGED <<disk, up, index, count, serial, expired, failures, stops,
                 answer, issued, orphans>>

(* save: refuses an entry it knows, and takes the next file number. *)
Saving(kind, i, ver) ==
  /\ index[i] = None
  /\ Begins(kind, i, "create", next, ver)
  /\ next' = next + 1

Updating(kind, i, ver) ==
  /\ index[i] # None
  /\ Begins(kind, i, "truncate", records[index[i].at].file, ver)
  /\ UNCHANGED next

IssueCertificate(c) == Saving("issue", c, serial)

(* UpdateCertificate: the handshake verified the certificate it replaces. *)
UpdateCertificate(c) ==
  index[c] # None /\ ~index[c].over /\ Updating("renew", c, serial)

SaveOrUpdateKeyPair(k) ==
  Saving("put", k, ops + 1) \/ Updating("reput", k, ops + 1)

(* RevokeCertificate, DeleteKeyPair *)
RevokeCertificate(i) ==
  /\ index[i] # None
  /\ Begins("revoke", i, "revoke", records[index[i].at].file, Gone)
  /\ UNCHANGED next

(* DeleteExpired goes through the entries that are over in no given order; *)
(* when one could not be deleted the state is not saved.                   *)
ExpiredFrom(o, todo, err) ==
  \/ \E i \in todo :
       /\ op' = [o EXCEPT !.item = i, !.step = "revoke", !.todo = todo \ {i},
                          !.file = records[index[i].at].file, !.err = err]
       /\ UNCHANGED answer
  \/ todo = {} /\ err /\ op' = None /\ answer' = "err"
  \/ /\ todo = {} /\ ~err
     /\ op' = [o EXCEPT !.item = None, !.step = "state", !.todo = {}]
     /\ UNCHANGED answer

DeleteExpiredCertificates ==
  /\ up = "run" /\ op = None /\ ops < MaxOps
  /\ ops' = ops + 1
  /\ ExpiredFrom([kind |-> "gc", item |-> None, step |-> "state", file |-> 0,
                  ver |-> Gone, todo |-> {}, err |-> FALSE],
                 {i \in Items : index[i] # None /\ index[i].over}, FALSE)
  /\ UNCHANGED <<disk, memory, expired, failures, stops, acked, issued, orphans>>

-----------------------------------------------------------------------------
(* The writes of the operation under way, in their order.                  *)

At(s) == op # None /\ op.step = s
Go(s) == op' = [op EXCEPT !.step = s] /\ UNCHANGED answer

(* caLock is released with the answer r. *)
Ends(r) == op' = None /\ answer' = r

Entry == [item |-> op.item, file |-> op.file, ver |-> op.ver,
          count |-> count + 1, revoked |-> FALSE]
Stored(at) == [at |-> at, ver |-> op.ver, over |-> FALSE]

(* saveContent: O_EXCL, so a file that is there already fails the save. *)
CreateFile ==
  /\ At("create")
  /\ IF content[op.file] = None
     THEN content' = [content EXCEPT ![op.file] = Empty] /\ Go("append")
     ELSE Ends("err") /\ UNCHANGED content
  /\ UNCHANGED <<records, header, state, memory, expired, bounds,
                 acked, issued, orphans>>

AppendRecord ==
  /\ At("append") /\ Go("seal")
  /\ count' = count + 1
  /\ records' = Append(records, Entry)
  /\ UNCHANGED <<header, content, state, up, index, next, serial, expired,
                 bounds, acked, issued, orphans>>

(* updateContent *)
TruncateFile ==
  /\ At("truncate") /\ Go("rewrite")
  /\ content' = [content EXCEPT ![op.file] = Empty]
  /\ UNCHANGED <<records, header, state, memory, expired, bounds,
                 acked, issued, orphans>>

RewriteRecord ==
  /\ At("rewrite") /\ Go("seal")
  /\ count' = count + 1
  /\ records' = [records EXCEPT ![index[op.item].at] = Entry]
  /\ expired' = expired \ {index[op.item].at}
  /\ UNCHANGED <<header, content, state, up, index, next, serial, bounds,
                 acked, issued, orphans>>

BadRevokedRecord(r) == [r EXCEPT !.count = count + 1]
BadBlankedRecord(r) == [r EXCEPT !.item = None, !.revoked = TRUE, !.count = count + 1]

RevokedRecord(r) == [r EXCEPT !.revoked = TRUE, !.count = count + 1]

(* deleteInternal *)
RevokeRecord ==
  /\ At("revoke") /\ Go("seal")
  /\ count' = count + 1
  /\ records' = [records EXCEPT ![index[op.item].at] = RevokedRecord(@)]
  /\ UNCHANGED <<header, content, state, up, index, next, serial, expired,
                 bounds, acked, issued, orphans>>

(* rewriteHeaderUnlocked, then updateContent's update(). *)
SealHeader ==
  /\ At("seal")
  /\ header' = [count |-> count, size |-> Len(records)]
  /\ index' = IF op.kind \in Updates
              THEN [index EXCEPT ![op.item] = Stored(@.at)] ELSE index
  /\ Go(IF op.kind \in Saves \cup Updates THEN "content" ELSE "unlink")
  /\ UNCHANGED <<records, content, state, up, count, next, serial, expired,
                 bounds, acked, issued, orphans>>

(* The content is written and synced; save adds its entry, the authority   *)
(* counts its serial up.  SaveOrUpdateKeyPair falls from a successful      *)
(* UpdateKeyPair into the error return of SaveKeyPair: no state is saved.  *)
WriteContent ==
  /\ At("content")
  /\ content' = [content EXCEPT ![op.file] = op.ver]
  /\ index' = IF op.kind \in Saves
              THEN [index EXCEPT ![op.item] = Stored(Len(records))] ELSE index
  /\ serial' = IF op.kind \in {"issue", "renew"} THEN serial + 1 ELSE serial
  /\ IF op.kind = "reput" THEN Ends("err") ELSE Go("state")
  /\ UNCHANGED <<records, header, state, up, count, next, expired, bounds,
                 acked, issued, orphans>>

BadRemoveFile ==
  /\ At("unlink")
  /\ content' = [content EXCEPT ![op.file] = None]
  /\ index' = [index EXCEPT ![op.item] = None]
  /\ IF op.kind = "gc" THEN ExpiredFrom(op, op.todo, op.err) ELSE Ends("ok")
  /\ UNCHANGED <<records, header, state, up, count, next, serial, expired,
                 bounds, acked, issued, orphans>>

(* The file goes, whether or not its removal fails, and the entry with it. *)
RemoveFile ==
  /\ At("unlink")
  /\ \/ content' = [content EXCEPT ![op.file] = None] /\ UNCHANGED failures
     \/ /\ failures < MaxFailures
        /\ failures' = failures + 1
        /\ UNCHANGED content
  /\ index' = [index EXCEPT ![op.item] = None]
  /\ IF op.kind = "gc" THEN ExpiredFrom(op, op.todo, op.err) ELSE Go("state")
  /\ UNCHANGED <<records, header, state, up, count, next, serial, expired,
                 ops, stops, acked, issued, orphans>>

(* saveCAState: the file is truncated, then written. *)
TruncateState ==
  /\ At("state") /\ Go("write")
  /\ state' = None
  /\ UNCHANGED <<records, header, content, memory, expired, bounds,
                 acked, issued, orphans>>

BadSavedState ==
  [serial |-> IF op.kind = "issue" THEN serial - 1 ELSE serial, count |-> count]

SavedState == [serial |-> serial, count |-> count]

WriteState ==
  /\ At("write") /\ Ends("ok")
  /\ state' = SavedState
  /\ issued' = IF op.kind \in {"issue", "renew"} THEN Append(issued, op.ver)
               ELSE issued
  /\ acked' = IF op.item = None THEN acked ELSE [acked EXCEPT ![op.item] = op.ver]
  /\ UNCHANGED <<records, header, content, memory, expired, bounds, orphans>>

(* A write fails: nothing of it is on the disk, the record counter was     *)
(* counted up before, and the operation returns the error (DeleteExpired   *)
(* goes on with its other entries).                                        *)
WriteFails ==
  /\ op # None /\ ~At("unlink") /\ failures < MaxFailures
  /\ failures' = failures + 1
  /\ count' = IF op.step \in {"append", "rewrite", "revoke"} THEN count + 1
              ELSE count
  /\ orphans' = IF op.kind \in Saves /\ op.step \in {"seal", "content"}
                THEN orphans \cup {op.item} ELSE orphans
  /\ IF op.kind = "gc" /\ op.step \in {"revoke", "seal"}
     THEN ExpiredFrom(op, op.todo, TRUE) ELSE Ends("err")
  /\ UNCHANGED <<disk, up, index, next, serial, expired, ops, stops,
                 acked, issued>>

-----------------------------------------------------------------------------
(* Time, and the ends and starts of the process.                           *)

Expire(k) ==
  /\ Live(k) /\ op = None
  /\ expired' = expired \cup {k}
  /\ index' = [i \in Items |-> IF index[i] # None /\ index[i].at = k
                               THEN [index[i] EXCEPT !.over = TRUE] ELSE index[i]]
  /\ acked' = [acked EXCEPT ![records[k].item] = None]
  /\ UNCHANGED <<disk, up, count, next, serial, op, bounds,
                 answer, issued, orphans>>

Crash ==
  /\ up = "run" /\ stops < MaxStops
  /\ op = None \/ MidCrash
  /\ stops' = stops + 1
  /\ up' = "down" /\ op' = None
  /\ index' = [i \in Items |-> None]
  /\ count' = 0 /\ next' = 0 /\ serial' = 0
  /\ answer' = IF op = None THEN answer ELSE "err"
  /\ orphans' = IF op # None /\ op.kind \in Saves THEN orphans \cup {op.item}
                ELSE orphans
  /\ UNCHANGED <<disk, expired, ops, failures, acked, issued>>

(* setupCA: NewDirStorage and NewFromCAState; a failure to load is fatal. *)
Boot ==
  /\ up = "down"
  /\ \/ /\ Loads
        /\ up' = "run"
        /\ index' = [i \in Items |-> LoadedEntry(i)]
        /\ count' = header.count
        /\ next' = Max({1} \cup {f + 1 : f \in LiveFiles})
        /\ serial' = state.serial
     \/ ~Loads /\ up' = "refused" /\ UNCHANGED <<index, count, next, serial>>
  /\ UNCHANGED <<disk, op, expired, bounds, history>>

CAStep ==
  \/ CreateFile \/ AppendRecord \/ TruncateFile \/ RewriteRecord
  \/ RevokeRecord \/ SealHeader \/ WriteContent \/ RemoveFile
  \/ TruncateState \/ WriteState \/ WriteFails

CANext ==
  \/ \E c \in Certs : IssueCertificate(c) \/ UpdateCertificate(c)
  \/ \E k \in Keys : SaveOrUpdateKeyPair(k)
  \/ \E i \in Items : RevokeCertificate(i)
  \/ DeleteExpiredCertificates
  \/ CAStep
  \/ \E k \in DOMAIN records : Expire(k)
  \/ Crash \/ Boot

CASpec == CAInit /\ [][CANext]_caVars

-----------------------------------------------------------------------------
(* Properties.                                                             *)

(* No two certificates the authority handed out have one serial number,    *)
(* over restarts, kills and failed writes: the state file never lags       *)
(* behind a certificate that was answered.                                 *)
SerialsUnique ==
  \A m, n \in DOMAIN issued : m # n => issued[m] # issued[n]

(* After an operation that was answered with success a restart succeeds,   *)
(* provided that the header on the disk carries the record counter of the  *)
(* memory (it does unless the write of a record failed before).            *)
Restartable ==
  (up = "run" /\ op = None /\ answer = "ok" /\ header.count = count) => Loads

(* What an operation stored and answered with success stays what the       *)
(* memory, and any later start that loads, has of the item: index record   *)
(* and content, whatever failed or was killed in between for other items.  *)
Known(i) == acked[i] \notin {None, Gone} /\ ~(op # None /\ op.item = i)
Durable ==
  \A i \in Items : Known(i) =>
    /\ up = "run" => index[i] # None /\ index[i].ver = acked[i]
    /\ Loads => /\ LoadedEntry(i) # None
                /\ LoadedEntry(i).ver = acked[i]
                /\ content[records[LoadedAt(i)].file] = acked[i]

(* A revoked certificate or deleted key does not come back with a restart  *)
(* (unless a save of it failed half-way before, leaving a second record).  *)
DeletedStays ==
  \A i \in Items \ orphans :
    (acked[i] = Gone /\ ~(op # None /\ op.item = i) /\ Loads)
      => LoadedEntry(i) = None

(* "ca_state.dat exists": the control plane finds its authority again.     *)
RestartLoads == up # "refused"
=============================================================================
