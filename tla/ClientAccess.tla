---------------------------- MODULE ClientAccess ----------------------------
(* Who is asking, and what they are shown: the registry of client tokens,    *)
(* a file that arena_admin edits and the coordinator reads, and the answers  *)
(* of ArenaService that depend on the caller.  A token stands for its hash.  *)
EXTENDS Integers, FiniteSets, SequencesExt

None == [id |-> ""]

-----------------------------------------------------------------------------
(* client_registry.h, called by arena_admin and at the coordinator.          *)

MakeClient(id, token, quota) ==
    [id |-> id, token |-> token, disabled |-> FALSE,
     quota |-> IF quota.active > 0 \/ quota.queued > 0 THEN quota
               ELSE [active |-> 0, queued |-> 0]]

(* Refused for an id that is there already.                                  *)
AppendClientToRegistry(file, client) ==
    IF \E i \in DOMAIN file : file[i].id = client.id THEN file ELSE Append(file, client)

(* Only the token of an entry that is there changes.                         *)
SetClientToken(file, client) ==
    IF \E i \in DOMAIN file : file[i].id = client.id
    THEN [i \in DOMAIN file |-> IF file[i].id = client.id
                                THEN [file[i] EXCEPT !.token = client.token] ELSE file[i]]
    ELSE AppendClientToRegistry(file, client)

(* arena_admin mint, with and without --overwrite.                           *)
Mint(file, client, overwrite) ==
    IF overwrite THEN SetClientToken(file, client) ELSE AppendClientToRegistry(file, client)

(* Reading the file keeps the registry in memory when an entry is malformed. *)
Loads(file) == \A i \in DOMAIN file : file[i].id # "" /\ file[i].token # "malformed"
Load(file, registry) == IF Loads(file) THEN file ELSE registry

MergeQuota(defaults, own) ==
    [active |-> IF own.active > 0 THEN own.active ELSE defaults.active,
     queued |-> IF own.queued > 0 THEN own.queued ELSE defaults.queued]

(* The first entry with the token decides, a disabled one for no.            *)
Resolve(registry, token, defaults) ==
    LET at == SelectInSeq(registry, LAMBDA client: client.token = token) IN
    IF token = "" \/ at = 0 THEN None
    ELSE IF registry[at].disabled THEN None
    ELSE [id |-> registry[at].id, quota |-> MergeQuota(defaults, registry[at].quota)]

-----------------------------------------------------------------------------
(* arena_service.cc.                                                         *)

(* A token the registry in memory does not resolve makes it be read again.   *)
Authenticate(file, registry, token, defaults) ==
    LET known  == Resolve(registry, token, defaults)
        reread == Load(file, registry)
    IN  IF token = "" THEN [identity |-> None, registry |-> registry]
        ELSE IF known # None THEN [identity |-> known, registry |-> registry]
        ELSE [identity |-> Resolve(reread, token, defaults), registry |-> reread]

MayReadSource(visibility, author, reader) ==
    CASE visibility = "NONE" -> FALSE
      [] visibility = "OWN"  -> reader # "" /\ author = reader
      [] OTHER               -> TRUE

(* The listings ask who reads only where it matters.                         *)
Reader(visibility, identity) == IF visibility = "OWN" THEN identity.id ELSE ""

NoPatch == <<>>
Redact(visibility, reader, candidate) ==
    IF MayReadSource(visibility, candidate.author, reader) THEN candidate
    ELSE [candidate EXCEPT !.patch = NoPatch]

(* The newest version of an author that built; the later id of two at once.  *)
Latest(store, author) ==
    LET built == {c \in store : c.author = author /\ c.status = "READY"}
    IN  {c \in built : \A d \in built : <<d.at, d.version>> = <<c.at, c.version>>
                          \/ d.at < c.at \/ (d.at = c.at /\ d.version < c.version)}

(* A path is the directory it is in and the name of a file.                  *)
Moved(path, from, to) == IF path[1] = from THEN <<to, path[2]>> ELSE path

Get(store, id) == {c \in store : c.id = id}

(* A participant's name stands for their newest version, under the name.     *)
ResolveName(store, versions, id) ==
    IF Get(store, id) # {} \/ ~versions THEN Get(store, id)
    ELSE {[c EXCEPT !.id = id, !.files = {Moved(f, c.id, id) : f \in @}]
          : c \in Latest(store, id)}

(* The candidate as the reader sees it; none when it is unknown.             *)
GetCandidate(store, versions, visibility, identity, id) ==
    {Redact(visibility, Reader(visibility, identity), c) : c \in ResolveName(store, versions, id)}

(* A name's paths are its version's, moved: back to where they are stored.   *)
StoredPath(store, id, path) ==
    IF Get(store, id) # {} THEN [id |-> id, path |-> path]
    ELSE LET latest == CHOOSE c \in Latest(store, id) : TRUE
         IN  [id |-> latest.id, path |-> Moved(path, id, latest.id)]

(* "asked" is whether the arena asks its callers for a token at all.         *)
GetSource(store, versions, visibility, asked, identity, id, path) ==
    LET found  == ResolveName(store, versions, id)
        stored == StoredPath(store, id, path)
    IN  IF visibility = "OWN" /\ asked /\ identity = None THEN "UNAUTHENTICATED"
        ELSE IF found = {} THEN "NOT_FOUND"
        ELSE IF \A c \in found :
                    ~MayReadSource(visibility, c.author, Reader(visibility, identity))
        THEN "PERMISSION_DENIED"
        ELSE IF \E c \in Get(store, stored.id) : stored.path \in c.files THEN "OK"
        ELSE "NOT_FOUND"

(* The best first: the score, higher first, then the id; READY entries only. *)
RankReady(store, score, idOrder, limit) ==
    LET rows == SetToSortSeq({c \in store : c.status = "READY"},
                    LAMBDA a, b: \/ score[a.id] > score[b.id]
                                 \/ score[a.id] = score[b.id] /\ idOrder[a.id] < idOrder[b.id])
    IN  IF limit > 0 /\ Len(rows) > limit THEN SubSeq(rows, 1, limit) ELSE rows

Leaderboard(store, score, idOrder, limit, visibility, identity) ==
    LET rows == SelectSeq(RankReady(store, score, idOrder, limit),
                          LAMBDA c: Get(store, c.id) # {} /\ c.status = "READY")
    IN  [i \in DOMAIN rows |-> Redact(visibility, Reader(visibility, identity), rows[i])]

(* Newest first, or by rank with those that have none behind.                *)
ListCandidates(store, author, order, score, idOrder, limit, visibility, identity) ==
    LET mine     == {c \in store : author = "" \/ c.author = author}
        ranked   == RankReady(store, score, idOrder, 0)
        RankOf(c) == IF \E i \in DOMAIN ranked : ranked[i].id = c.id
                     THEN SelectInSeq(ranked, LAMBDA r: r.id = c.id) ELSE Len(ranked) + 1
        Before(a, b) == \/ order = "BEST_FIRST" /\ RankOf(a) < RankOf(b)
                        \/ /\ order = "BEST_FIRST" => RankOf(a) = RankOf(b)
                           /\ \/ a.at > b.at
                              \/ a.at = b.at /\ idOrder[a.id] < idOrder[b.id]
        rows     == SetToSortSeq(mine, Before)
        shown    == IF Len(rows) > limit THEN SubSeq(rows, 1, limit) ELSE rows
    IN  [i \in DOMAIN shown |-> Redact(visibility, Reader(visibility, identity), shown[i])]

=============================================================================
