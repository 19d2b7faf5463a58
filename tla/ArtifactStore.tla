--------------------------- MODULE ArtifactStore ---------------------------
(***************************************************************************)
(* The archive of built binaries (server/artifact_store.cc) with the two   *)
(* transfers of the fleet service, and the workers' caches of it           *)
(* (sandbox/worker/artifact_cache.cc).                                     *)
(*                                                                         *)
(* A blob is written to <digest>.tmp and renamed.  Two uploads of the same *)
(* bytes share that name, so files are modelled as names for inodes: what  *)
(* a writer goes on writing after a rename lands in the renamed file.  The *)
(* bytes are abstracted to their two halves, and are more than a stream    *)
(* buffers, so that a failed write is noticed.  Uploads of other bytes     *)
(* under a digest are refused by its check, and not modelled.              *)
(***************************************************************************)
EXTENDS Integers, FiniteSets

CONSTANTS
  Workers,
  Digests

VARIABLES
  tmp, blob,   \* on the coordinator's disk: digest -> inode, 0 for no file
  half,        \* inode -> which halves of the bytes are in it
  upload,      \* worker -> its PutArtifact call at the coordinator
  short,       \* digests of which some worker's cache keeps a file cut short
  contended    \* history: digests one upload opened while another was writing

archiveVars == <<tmp, blob, half, upload, short, contended>>

Halves == {1, 2}
(* Bound: one for every name and every upload, so that one is always free.    *)
Inodes == 1 .. 2 * Cardinality(Digests) + Cardinality(Workers)
NoUpload == [at |-> "none", digest |-> CHOOSE d \in Digests : TRUE, inode |-> 0]

ArchiveInit ==
  /\ tmp = [d \in Digests |-> 0] /\ blob = [d \in Digests |-> 0]
  /\ half = [i \in Inodes |-> {}]
  /\ upload = [w \in Workers |-> NoUpload]
  /\ short = {} /\ contended = {}

Has(d) == blob[d] # 0
Whole(d) == Has(d) /\ half[blob[d]] = Halves
InUse(i) ==
  \/ \E d \in Digests : i \in {tmp[d], blob[d]}
  \/ \E w \in Workers : upload[w].inode = i
Free == {i \in Inodes : ~InUse(i)}
Writing(w) == upload[w].at \in {"first", "second", "rename"}
Writers(d) == {w \in Workers : Writing(w) /\ upload[w].digest = d}
Goes(w, at) == upload' = [upload EXCEPT ![w].at = at]

(* The worker's side sends chunks until the digest is complete; then Put.     *)
StartUpload(w, d) ==
  /\ upload[w] = NoUpload
  /\ upload' = [upload EXCEPT ![w] = [at |-> IF Has(d) THEN "ok" ELSE "open",
                                      digest |-> d, inode |-> 0]]
  /\ UNCHANGED <<tmp, blob, half, short, contended>>

(* ofstream truncates a file that is there, whoever is writing it.            *)
Open(w) ==
  LET d == upload[w].digest
      i == IF tmp[d] # 0 THEN tmp[d] ELSE CHOOSE i \in Free : TRUE
  IN  /\ upload[w].at = "open" /\ Free # {}
      /\ tmp' = [tmp EXCEPT ![d] = i]
      /\ half' = [half EXCEPT ![i] = {}]
      /\ upload' = [upload EXCEPT ![w].at = "first", ![w].inode = i]
      /\ contended' = contended \cup {e \in {d} : Writers(e) # {}}
      /\ UNCHANGED <<blob, short>>

WriteHalf(w, at, n, then) ==
  /\ upload[w].at = at
  /\ half' = [half EXCEPT ![upload[w].inode] = @ \cup {n}]
  /\ Goes(w, then)
  /\ UNCHANGED <<tmp, blob, short, contended>>
Write(w) == WriteHalf(w, "first", 1, "second") \/ WriteHalf(w, "second", 2, "rename")

(* A write that fails is an error; what was written stays in <digest>.tmp.    *)
FailedWriteUnseen(w) ==                                                \* slip
  /\ upload[w].at \in {"first", "second"} /\ Goes(w, "rename")
  /\ UNCHANGED <<tmp, blob, half, short, contended>>
FailedWrite(w) ==
  /\ upload[w].at \in {"first", "second"} /\ Goes(w, "error")
  /\ UNCHANGED <<tmp, blob, half, short, contended>>

(* The name is gone when the other upload has renamed it: an error.           *)
RenameBlob(w) ==
  LET d == upload[w].digest
  IN  /\ upload[w].at = "rename"
      /\ IF tmp[d] = 0
         THEN Goes(w, "error") /\ UNCHANGED <<tmp, blob>>
         ELSE /\ blob' = [blob EXCEPT ![d] = tmp[d]]
              /\ tmp' = [tmp EXCEPT ![d] = 0]
              /\ Goes(w, "ok")
      /\ UNCHANGED <<half, short, contended>>

(* The process may die while a file is half written: what is in it stays.     *)
ArchiveDies ==
  /\ upload' = [w \in Workers |-> NoUpload]
  /\ UNCHANGED <<tmp, blob, half, short, contended>>

(* Fetch, of a worker that does not have it: bytes that are not the digest's  *)
(* are refused; those that are, are written to the cache by a stream nobody   *)
(* looks at, so that the file that stays may be short.                        *)
Fetch(d) ==
  /\ Whole(d)
  /\ short' \in {short, short \cup {d}}
  /\ UNCHANGED <<tmp, blob, half, upload, contended>>

ArchiveStep ==
  \E w \in Workers : Open(w) \/ Write(w) \/ RenameBlob(w)

=============================================================================
