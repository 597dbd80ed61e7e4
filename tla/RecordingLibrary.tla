--------------------------- MODULE RecordingLibrary ---------------------------
(***************************************************************************)
(* A project's library of recordings, which is one artifact file for each  *)
(* and one index of all: what finalize(), refinalizeArtifact(),            *)
(* annotateArtifact(), deleteArtifact() and discard() of                   *)
(* recording.service.ts do to it, through recordings-index.service.ts.     *)
(*                                                                         *)
(* An operation on the library is a slot that goes from wait to wait.      *)
(***************************************************************************)
EXTENDS Naturals, FiniteSets

CONSTANTS Names,        \* safe names, as file names
          Slug,         \* what recordingSlugKey() makes of each: its lower case
          Edits,        \* contents that each one's steps and annotations may have
          Slots,        \* bound: operations under way at once
          None, Torn    \* no such thing; a file that cannot be read or parsed

Slugs == {Slug[n] : n \in Names}
Contents(n) == [steps : Edits[n], meta : Edits[n]]
Values == UNION {Edits[n] : n \in Names}
AnyContents == [steps : Values, meta : Values]
Entries == [name : Names, steps : Values, meta : Values]
Indexes == [Slugs -> {None} \cup Entries]
Kinds == {"write", "annotate", "delete"}
Stages == {"read", "write", "written", "look", "remove", "index"}
Operations == [kind : Kinds, name : Names, at : Stages,
               has : {None} \cup AnyContents \cup Entries,
               linked : BOOLEAN, lone : BOOLEAN]

ASSUME LibraryAssumption ==
  /\ Slug \in [Names -> Names] /\ DOMAIN Edits = Names
  /\ None # Torn /\ None \notin Operations \cup Entries \cup Indexes

VARIABLES art,     \* the artifact files
          idx,     \* the index file: the entry under each slug
          op,      \* the operation in each slot
          queue,   \* the index write under way: what its slot has read, or Torn
          upset    \* slugs whose file and entry may disagree (history)

disk == <<art, idx>>
vars == <<disk, op, queue, upset>>

TypeOK ==
  /\ DOMAIN art = Names
  /\ \A n \in Names : art[n] \in {None, Torn} \/ art[n] \in Contents(n)
  /\ idx \in Indexes /\ \A k \in Slugs : idx[k] # None => Slug[idx[k].name] = k
  /\ op \in [Slots -> {None} \cup Operations]
  /\ DOMAIN queue = Slots
  /\ \A i \in Slots : queue[i] # None =>
       op[i] # None /\ op[i].at = "index" /\ queue[i] \in Indexes \cup {Torn}
  /\ upset \subseteq Slugs

Init ==
  /\ art = [n \in Names |-> None] /\ idx = [k \in Slugs |-> None]
  /\ op = [i \in Slots |-> None] /\ queue = [i \in Slots |-> None]
  /\ upset = {}

-----------------------------------------------------------------------------
(* Operations on the library.  has: what the file, later the entry, is to  *)
(* become.  linked: the file that is being written is still in its place.  *)
(* lone: no other operation on the slug was under way, nothing failed, and *)
(* no other spelling of it has a file.                                     *)

Entry(n, new) == [name |-> n, steps |-> new.steps, meta |-> new.meta]

Under(k) == {i \in Slots : op[i] # None /\ Slug[op[i].name] = k}
Spellings(n) == {m \in Names : Slug[m] = Slug[n] /\ m # n /\ art[m] # None}

Begin(kind, n, at, has) ==
  \E i \in Slots :
    /\ op[i] = None
    /\ op' = [j \in Slots |->
         CASE j = i -> [kind |-> kind, name |-> n, at |-> at, has |-> has, linked |-> FALSE,
                        lone |-> Under(Slug[n]) = {} /\ Spellings(n) = {}]
           [] j \in Under(Slug[n]) -> [op[j] EXCEPT !.lone = FALSE]
           [] OTHER -> op[j]]

(* getAll() answers an empty index when the file cannot be read or parsed, *)
(* or fails its schema.                                                    *)
EmptyIndex == [k \in Slugs |-> None]
IndexRead(i) == IF queue[i] = Torn THEN EmptyIndex ELSE queue[i]

(* remove() that finds no entry writes nothing. *)
Finds(i) == op[i].kind # "delete" \/ IndexRead(i)[Slug[op[i].name]] # None

(* What a write over an index that could not be read loses of the others.  *)
Dropped(i) ==
  IF queue[i] = Torn /\ Finds(i) THEN {k \in Slugs \ {Slug[op[i].name]} : idx[k] # None} ELSE {}

(* A lone operation that writes the file and the entry, or removes both,   *)
(* also puts an older disagreement right; annotating does not, nor does a  *)
(* removal that could not read the index.                                  *)
Settle(i) ==
  LET k == Slug[op[i].name]
  IN upset' = (IF ~op[i].lone \/ (op[i].kind = "delete" /\ queue[i] = Torn) THEN upset \cup {k}
               ELSE IF op[i].kind = "annotate" THEN upset ELSE upset \ {k}) \cup Dropped(i)

End(i) == op' = [op EXCEPT ![i] = None] /\ Settle(i)
Spoil(i) == op' = [op EXCEPT ![i] = None] /\ upset' = upset \cup {Slug[op[i].name]}

(* POST /recordings/:safeName/refinalize and PATCH /recordings/:safeName.  *)
Refinalize(n) == Begin("write", n, "read", None) /\ UNCHANGED <<disk, queue, upset>>
Annotate(n) == Begin("annotate", n, "read", None) /\ UNCHANGED <<disk, queue, upset>>

(* finalize() of a session's recording of this name, which no other        *)
(* recording or file is kept from having.                                  *)
Finalize(n, new) == Begin("write", n, "write", new) /\ UNCHANGED <<disk, queue, upset>>

(* DELETE /recordings/:safeName finds the file first; discard() of a       *)
(* session's recording removes whatever has its name.                      *)
Delete(n) == art[n] # None /\ Begin("delete", n, "remove", None) /\ UNCHANGED <<disk, queue, upset>>
Discard(n) == Begin("delete", n, "remove", None) /\ UNCHANGED <<disk, queue, upset>>

(* readFile and JSON.parse.  What is read is what the edit is made to: a   *)
(* refinalize may give new steps and new annotations or keep either, an    *)
(* annotate gives annotations.                                             *)
Reads(i) ==
  /\ op[i] # None /\ op[i].at = "read"
  /\ LET n == op[i].name IN
     IF art[n] \in {None, Torn}
     THEN op' = [op EXCEPT ![i] = None] /\ upset' = upset \cup (IF op[i].lone THEN {} ELSE {Slug[n]})
     ELSE /\ \E m \in Edits[n], t \in Edits[n] :
               /\ op[i].kind = "annotate" => t = art[n].steps
               /\ op' = [op EXCEPT ![i].at = "write", ![i].has = [steps |-> t, meta |-> m]]
          /\ UNCHANGED upset
  /\ UNCHANGED <<disk, queue>>

(* writeFile truncates the file first. *)
Opens(i) ==
  /\ op[i] # None /\ op[i].at = "write"
  /\ art' = [art EXCEPT ![op[i].name] = Torn]
  /\ op' = [op EXCEPT ![i].at = "written", ![i].linked = TRUE]
  /\ UNCHANGED <<idx, queue, upset>>

(* ... and what it writes is lost if the file was removed meanwhile. *)
Wrote(i) ==
  /\ op[i] # None /\ op[i].at = "written"
  /\ art' = IF op[i].linked THEN [art EXCEPT ![op[i].name] = op[i].has] ELSE art
  /\ op' = [op EXCEPT ![i] =
       IF op[i].kind = "annotate" THEN [op[i] EXCEPT !.at = "look", !.linked = FALSE]
       ELSE [op[i] EXCEPT !.at = "index", !.linked = FALSE, !.has = Entry(op[i].name, op[i].has)]]
  /\ UNCHANGED <<idx, queue, upset>>

(* A slip: the entry keeps its old annotations. *)
AnnotatedNot(entry, i) == IF entry = None THEN Entry(op[i].name, op[i].has) ELSE entry

(* annotateArtifact() reads the entry before it asks for its write, and    *)
(* keeps what it finds of it; finding none, or no index that can be read,  *)
(* it builds one from the file.                                            *)
Annotated(entry, i) ==
  IF entry = None THEN Entry(op[i].name, op[i].has) ELSE [entry EXCEPT !.meta = op[i].has.meta]

Looks(i) ==
  /\ op[i] # None /\ op[i].at = "look"
  /\ \E entry \in {idx[Slug[op[i].name]], None} :
       op' = [op EXCEPT ![i].at = "index", ![i].has = Annotated(entry, i)]
  /\ UNCHANGED <<disk, queue, upset>>

(* deleteArtifact(): an error of a removal is swallowed. *)
Removes(i) ==
  /\ op[i] # None /\ op[i].at = "remove"
  /\ \/ /\ art' = [art EXCEPT ![op[i].name] = None]
        /\ op' = [j \in Slots |->
             IF j = i THEN [op[i] EXCEPT !.at = "index"]
             ELSE IF op[j] # None /\ op[j].name = op[i].name
             THEN [op[j] EXCEPT !.linked = FALSE] ELSE op[j]]
     \/ /\ op' = [op EXCEPT ![i].at = "index", ![i].lone = FALSE]
        /\ UNCHANGED art
  /\ UNCHANGED <<idx, queue, upset>>

(* A slip: the writes of the index are not queued. *)
FreeAlways == TRUE

(* withSerializedWrite: the whole index is read and written back, one      *)
(* write at a time for the project.  The read may fail, and is then taken  *)
(* for that of an empty index.                                             *)
Free == \A i \in Slots : queue[i] = None

ReadsIndex(i) ==
  /\ op[i] # None /\ op[i].at = "index" /\ queue[i] = None /\ Free
  /\ \E read \in {idx, Torn} : queue' = [queue EXCEPT ![i] = read]
  /\ UNCHANGED <<disk, op, upset>>

WritesIndex(i) ==
  /\ queue[i] # None /\ queue' = [queue EXCEPT ![i] = None]
  /\ idx' = IF Finds(i) THEN [IndexRead(i) EXCEPT ![Slug[op[i].name]] = op[i].has] ELSE idx
  /\ End(i)
  /\ UNCHANGED art

(* A write fails: the call is refused and what is on disk stays. *)
Fails(i) ==
  /\ op[i] # None /\ op[i].at \in {"write", "written", "index"}
  /\ queue' = [queue EXCEPT ![i] = None] /\ Spoil(i)
  /\ UNCHANGED disk

(* The worker dies and is started again; the files stay. *)
Restarts ==
  /\ op' = [i \in Slots |-> None] /\ queue' = [i \in Slots |-> None]
  /\ upset' = upset \cup {Slug[op[i].name] : i \in {j \in Slots : op[j] # None}}
  /\ UNCHANGED disk

-----------------------------------------------------------------------------
Calls == \E n \in Names : \/ Refinalize(n) \/ Annotate(n) \/ Delete(n) \/ Discard(n)
                          \/ \E new \in Contents(n) : Finalize(n, new)

Step(i) == \/ Reads(i) \/ Opens(i) \/ Wrote(i) \/ Looks(i) \/ Removes(i)
           \/ ReadsIndex(i) \/ WritesIndex(i) \/ Fails(i)

Next == Calls \/ (\E i \in Slots : Step(i)) \/ Restarts

Spec == Init /\ [][Next]_vars

-----------------------------------------------------------------------------
(* The index and the files agree about a recording, in existence and in    *)
(* content, when no operation on it is under way, unless operations on it  *)
(* overlapped, one of them failed or was cut short, its name is also in    *)
(* use in another spelling, or any operation wrote over an index it could  *)
(* not read; and the next lone finalize, refinalize or delete that reads   *)
(* the index puts such a disagreement right.                               *)
LibraryAgrees ==
  \A k \in Slugs \ upset : Under(k) = {} =>
    \A n \in {m \in Names : Slug[m] = k} :
      art[n] = IF idx[k] # None /\ idx[k].name = n
               THEN [steps |-> idx[k].steps, meta |-> idx[k].meta] ELSE None

(* The state is well formed, and index and files agree. *)
LibraryInv == TypeOK /\ LibraryAgrees

(* An operation changes the index entry of its own recording only: what    *)
(* others wrote since it read the index is still there.  The exception is  *)
(* a read that failed: the write then leaves no entry but its own.         *)
OthersKeepTheirEntry ==
  [][\A k \in Slugs : idx'[k] # idx[k] =>
       \E i \in Slots :
         /\ op[i] # None /\ op'[i] = None
         /\ \/ Slug[op[i].name] = k
            \/ queue[i] = Torn /\ idx'[k] = None /\ op[i].kind # "delete"]_vars
=============================================================================
