--------------------------- MODULE SubmissionCheck --------------------------
(* What becomes of a submission before anything is stored: the checks of     *)
(* CandidateStore::Validate, the id it gets, and the patch that is built,    *)
(* which is the submitter's own or is made from a list of source files.  A   *)
(* text is a sequence of symbols and a diff a sequence of lines; a symbol    *)
(* of a path is "/" or a piece of a name between two of them.                *)
EXTENDS Integers, FiniteSets, SequencesExt

CONSTANTS MaxPathSize,     (* symbols of a path (200 characters)               *)
          MaxSlugSize,     (* symbols of a slug (40 characters)                *)
          IsSource(_),     (* a file's name ends as a source file's does       *)
          Before(_, _)     (* the order of std::string on labels and names     *)

-----------------------------------------------------------------------------
(* unified_diff.h: paths, and the lines of a diff.                           *)

DevNull == <<"/", "dev", "/", "null">>

(* The timestamp of a plain diff follows a tab; git's side comes first.      *)
CleanPath(raw) ==
    LET tab   == SelectInSeq(raw, LAMBDA c: c = "tab")
        path  == IF tab = 0 THEN raw ELSE SubSeq(raw, 1, tab - 1)
        sided == Len(path) > 1 /\ path[1] \in {"a", "b"} /\ path[2] = "/"
    IN  IF path = DevNull THEN <<>>
        ELSE IF sided THEN SubSeq(path, 3, Len(path)) ELSE path

IsUsablePath(path) ==
    /\ path # <<>> /\ Head(path) # "/"
    /\ ToSet(path) \cap {".", ".."} = {}

NoFile == [old |-> <<>>, new |-> <<>>, isNew |-> FALSE, content |-> <<>>]

(* What the lines read so far come to.                                       *)
Reading == [files |-> <<>>, current |-> NoFile, inFile |-> FALSE,
            collecting |-> FALSE, hunks |-> 0, good |-> TRUE]

Flush(r) ==
    IF r.inFile THEN [r EXCEPT !.files = Append(@, r.current), !.current = NoFile,
                               !.inFile = FALSE, !.collecting = FALSE]
    ELSE [r EXCEPT !.collecting = FALSE]

(* A line is taken for what its first characters say, a line of content too. *)
ReadLine(r, line) ==
    CASE line.kind = "git"     -> [Flush(r) EXCEPT !.inFile = TRUE]
      [] line.kind = "newFile" -> [r EXCEPT !.current.isNew = TRUE]
      [] line.kind = "---"     -> LET path == CleanPath(line.text) IN
                                  [r EXCEPT !.inFile = TRUE, !.current.old = path,
                                            !.current.isNew = @ \/ path = <<>>]
      [] line.kind = "+++"     -> [r EXCEPT !.current.new = CleanPath(line.text)]
      [] line.kind = "@@"      -> IF r.inFile
                                  THEN [r EXCEPT !.hunks = @ + 1,
                                                 !.collecting = r.current.isNew]
                                  ELSE [r EXCEPT !.good = FALSE]
      [] line.kind = "+" /\ r.collecting ->
             [r EXCEPT !.current.content = @ \o line.text \o <<"nl">>]
      [] line.kind = "noNewline" /\ r.collecting /\ r.current.content # <<>> ->
             [r EXCEPT !.current.content = Front(@)]
      [] OTHER -> r

(* The files and hunks of a diff; "good" says whether it parses.             *)
ParseUnifiedDiff(diff) ==
    LET read == Flush(FoldLeft(ReadLine, Reading, diff)) IN
    [files |-> read.files, hunks |-> read.hunks,
     good  |-> /\ read.good
               /\ read.files # <<>>
               /\ \A f \in ToSet(read.files) :
                      /\ \A path \in {f.old, f.new} \ {<<>>} : IsUsablePath(path)
                      /\ {f.old, f.new} # {<<>>}]

TouchedPaths(patch) ==
    UNION {{f.old, f.new} : f \in ToSet(patch.files)} \ {<<>>}

Line(kind, text) == [kind |-> kind, text |-> text]

(* The lines of a text; a final newline starts no empty one.                 *)
SplitLines(content) ==
    LET cut == FoldLeft(LAMBDA done, c:
                    IF c = "nl" THEN [lines |-> Append(done.lines, done.open), open |-> <<>>]
                    ELSE [done EXCEPT !.open = Append(@, c)],
                    [lines |-> <<>>, open |-> <<>>], content)
    IN  IF cut.open = <<>> THEN cut.lines ELSE Append(cut.lines, cut.open)

(* "+" before a line of content that starts with "++ " reads as a header.    *)
PlusLine(text) ==
    IF text # <<>> /\ Head(text) = "++ " THEN Line("+++", Tail(text)) ELSE Line("+", text)

AddedFile(file) ==
    LET lines == SplitLines(file.content) IN
    <<Line("git", <<>>), Line("newFile", <<>>), Line("---", DevNull),
      Line("+++", <<"b", "/">> \o file.path), Line("@@", <<>>)>>
    \o [i \in DOMAIN lines |-> PlusLine(lines[i])]
    \o (IF lines # <<>> /\ Last(file.content) # "nl"
        THEN <<Line("noNewline", <<>>)>> ELSE <<>>)

MakeAddOnlyPatch(files) == FlattenSeq([i \in DOMAIN files |-> AddedFile(files[i])])

(* "**" is any text, "**/" none or one that ends at a separator, "*" any     *)
(* text without one; every other symbol is itself.                           *)
RECURSIVE PathMatchesGlob(_, _)
PathMatchesGlob(path, pattern) ==
    LET From(rest, reach) ==
            \E skip \in 0 .. reach : PathMatchesGlob(SubSeq(path, skip + 1, Len(path)), rest)
        separator == SelectInSeq(path, LAMBDA c: c = "/")
    IN  CASE pattern = <<>> -> path = <<>>
          [] IsPrefix(<<"*", "*">>, pattern) ->
                 LET rest == SubSeq(pattern, 3, Len(pattern)) IN
                 \/ rest # <<>> /\ Head(rest) = "/" /\ PathMatchesGlob(path, Tail(rest))
                 \/ From(rest, Len(path))
          [] Head(pattern) = "*" /\ ~IsPrefix(<<"*", "*">>, pattern) ->
                 From(Tail(pattern), IF separator = 0 THEN Len(path) ELSE separator - 1)
          [] OTHER -> /\ path # <<>> /\ Head(path) = Head(pattern)
                      /\ PathMatchesGlob(Tail(path), Tail(pattern))

-----------------------------------------------------------------------------
(* generated_build.h: the BUILD file of a list of files, as the lists it     *)
(* prints; NoBuild is the empty text.                                        *)

NoBuild == [hdrs |-> <<>>, srcs |-> <<>>, deps |-> <<>>, botDeps |-> <<>>]

(* The first entry stays first; the others are sorted and each kept once,    *)
(* and the first is dropped a second time only right behind itself.          *)
NormalizeDeps(deps) ==
    LET others == SetToSortSeq(ToSet(Tail(deps)), Before)
    IN  IF others # <<>> /\ Head(others) = Head(deps) THEN others
        ELSE <<Head(deps)>> \o others

GenerateCandidateBuild(harness, files, entry, extraDeps) ==
    LET InOrder(S) == SetToSortSeq(S, Before) IN
    IF entry = <<>> \/ entry \notin files \/ harness.apiDep = "" \/ harness.mainSrc = ""
    THEN NoBuild
    ELSE [hdrs    |-> InOrder({f \in files : ~IsSource(f)}),
          srcs    |-> InOrder({f \in files : IsSource(f)}),
          deps    |-> NormalizeDeps(<<harness.apiDep>> \o extraDeps),
          botDeps |-> NormalizeDeps(<<":strategy", harness.apiDep>> \o harness.botDeps)]

-----------------------------------------------------------------------------
(* candidate_store.cc: names and ids.                                        *)

(* Only what the generated BUILD compiles; extension is of the last piece.   *)
Allowed == {".h", ".hpp", ".cc", ".cpp", ".inl"}

ValidateSourcePath(path, extension) ==
    /\ path # <<>> /\ Len(path) <= MaxPathSize
    /\ Head(path) # "/" /\ Last(path) # "/"
    /\ ToSet(path) \cap {"..", "\\", "odd"} = {}
    /\ \A i \in 1 .. Len(path) - 1 : <<path[i], path[i + 1]>> # <<"/", "/">>
    /\ extension[Last(path)] \in Allowed

(* A name's symbols are letters and digits, or "?" for any other.            *)
Slugify(name, lower) ==
    LET Add(slug, c) ==
            IF c \in DOMAIN lower THEN Append(slug, lower[c])
            ELSE IF slug # <<>> /\ Last(slug) # "-" THEN Append(slug, "-") ELSE slug
        whole == FoldLeft(Add, <<>>, name)
        short == IF Len(whole) > MaxSlugSize THEN SubSeq(whole, 1, MaxSlugSize) ELSE whole
        slug  == IF short # <<>> /\ Last(short) = "-" THEN Front(short) ELSE short
    IN  IF slug = <<>> THEN <<"candidate">> ELSE slug

(* The participant of a request: its author, or its display name.            *)
CandidateIdFor(request, lower) ==
    Slugify(IF request.author = <<>> THEN request.name ELSE request.author, lower)

(* Version n of a participant; the digits of n are one symbol.               *)
Version(base, n) == base \o <<"-", "v", ToString(n)>>
Numbers == 0 .. 99

IdFor(base, versions, known) ==
    IF ~versions THEN base
    ELSE LET taken == {n \in Numbers : Version(base, n) \in known}
         IN  Version(base, 1 + Max(taken \cup {0}))

LooksLikeAVersion(base) ==
    \E b \in Prefixes(base), n \in Numbers : base = Version(b, n)

ExpandSubmissionId(text, id) == FlattenSeq([i \in DOMAIN text |->
    IF text[i] = "{submission_id}" THEN id ELSE <<text[i]>>])

-----------------------------------------------------------------------------
(* candidate_store.cc: the patch, and what is checked of a request.          *)

(* Deny wins; without an allow pattern all is allowed.                       *)
PathAllowed(policy, id, path) ==
    LET Matches(pattern) == PathMatchesGlob(path, ExpandSubmissionId(pattern, id))
    IN  /\ \A pattern \in policy.denyPaths : ~Matches(pattern)
        /\ policy.allowPaths # {} => \E pattern \in policy.allowPaths : Matches(pattern)

Under(policy, id, path) == policy.submitDir \o <<"/">> \o id \o <<"/">> \o path

(* The submitter's patch, or one that adds its files and a BUILD file made   *)
(* for them; none when no BUILD file can be made.                            *)
PatchFor(request, policy, id) ==
    IF request.patch # <<>> THEN request.patch
    ELSE IF request.entry \notin {f.path : f \in ToSet(request.files)} THEN <<>>
    ELSE MakeAddOnlyPatch(
             [i \in DOMAIN request.files |->
                 [request.files[i] EXCEPT !.path = Under(policy, id, @)]]
             \o <<[path |-> Under(policy, id, <<"BUILD">>), content |-> <<"rules", "nl">>]>>)

RECURSIVE Replaced(_, _, _)
Replaced(text, old, new) ==
    IF Len(text) < Len(old) THEN text
    ELSE IF IsPrefix(old, text)
         THEN new \o Replaced(SubSeq(text, Len(old) + 1, Len(text)), old, new)
         ELSE <<Head(text)>> \o Replaced(Tail(text), old, new)

(* Every mention of the participant's directory becomes the version's.       *)
MovePatchDir(patch, policy, from, to) == [i \in DOMAIN patch |->
    [patch[i] EXCEPT !.text = Replaced(@, Under(policy, from, <<>>), Under(policy, to, <<>>))]]

FinalPatch(request, policy, base, id) ==
    IF policy.versions THEN MovePatchDir(PatchFor(request, policy, base), policy, base, id)
    ELSE PatchFor(request, policy, id)

(* The checks of a request that sends files rather than a patch.             *)
FilesAreFine(request, policy, extension) ==
    LET files == request.files
        paths == {f.path : f \in ToSet(files)}
    IN  /\ policy.submitDir # <<>>
        /\ Len(files) <= policy.maxSourceFiles
        /\ \A path \in paths : ValidateSourcePath(path, extension)
        /\ Cardinality(paths) = Len(files)
        /\ \A f \in ToSet(files) : Len(f.content) <= policy.maxFileSize
        /\ request.entry \in paths
        /\ request.deps \subseteq policy.allowedDeps

Validate(request, policy, lower, extension, known) ==
    LET base   == CandidateIdFor(request, lower)
        id     == IdFor(base, policy.versions, known)
        patch  == FinalPatch(request, policy, base, id)
        parsed == ParseUnifiedDiff(patch)
    IN  /\ request.name # <<>>
        /\ request.patch # <<>> \/ request.files # <<>>
        /\ request.patch = <<>> => FilesAreFine(request, policy, extension)
        /\ ~(policy.versions /\ LooksLikeAVersion(base))
        /\ patch # <<>>
        /\ policy.maxPatchSize > 0 => Len(patch) <= policy.maxPatchSize
        /\ parsed.good
        /\ policy.maxFiles > 0 => Len(parsed.files) <= policy.maxFiles
        /\ policy.maxHunks > 0 => parsed.hunks <= policy.maxHunks
        /\ \A path \in TouchedPaths(parsed) : PathAllowed(policy, id, path)
        /\ request.parent # <<>> => request.parent \in known

(* The candidate Create stores of a valid request.                           *)
Candidate(request, policy, lower, known) ==
    LET base  == CandidateIdFor(request, lower)
        id    == IdFor(base, policy.versions, known)
        patch == FinalPatch(request, policy, base, id)
    IN  [id      |-> id,
         author  |-> IF policy.versions /\ request.author = <<>> THEN base ELSE request.author,
         parent  |-> request.parent,
         status  |-> "PENDING",
         patch   |-> patch,
         touched |-> TouchedPaths(ParseUnifiedDiff(patch))]

=============================================================================
