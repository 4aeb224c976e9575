------------------------------ MODULE FileOps ------------------------------
(***************************************************************************)
(* The algorithms of the file handlers: how a path is normalised           *)
(* (path.cpp), what one fs.read returns and one fs.write leaves, with the  *)
(* client's loops over them, fs.find over a directory tree and fs.grep     *)
(* over the lines of a file.                                               *)
(***************************************************************************)
EXTENDS Naturals, Sequences, SequencesExt, FiniteSets

CONSTANTS MaxWalkDepth,  \* kMaxWalkDepth
          MaxScan,       \* FindCtx::max_scan
          CHUNK          \* units of data in one request of a transfer

ASSUME FileOpsAssumption ==
    MaxWalkDepth \in Nat /\ MaxScan \in Nat \ {0} /\ CHUNK \in Nat \ {0}

(***************************************************************************)
(* Paths, as sequences of the segments between slashes                     *)
(***************************************************************************)
Rejected(absolute, segments) == ~absolute \/ ".." \in ToSet(segments)

\* Mutant: "." segments stay.
KeepDots(absolute, segments) ==
    IF Rejected(absolute, segments) THEN <<"none">>
    ELSE SelectSeq(segments, LAMBDA seg : seg # "")

\* "none" stands for a path that is rejected.
NormalizePath(absolute, segments) ==
    LET parts[i \in 0..Len(segments)] ==
            IF i = 0 THEN <<>>
            ELSE IF segments[i] \in {"", "."} THEN parts[i - 1]
            ELSE Append(parts[i - 1], segments[i])
    IN IF Rejected(absolute, segments) THEN <<"none">> ELSE parts[Len(segments)]

(***************************************************************************)
(* fs.find. A tree is the sequence of its entries in the order of a        *)
(* depth-first walk, each with its depth (0 for what lies in the directory *)
(* searched), whether it is a directory that can be opened ("dir"), one    *)
(* that cannot ("closed") or a file, and whether its name matches.         *)
(***************************************************************************)
\* Mutant: one more match than the limit.
VisitMore(walk, entry, limit) ==
    IF walk.found > limit \/ walk.scanned >= MaxScan \/ entry.depth > walk.inside
    THEN walk
    ELSE [found |-> walk.found + (IF entry.matches THEN 1 ELSE 0),
          scanned |-> walk.scanned + 1,
          inside |-> entry.depth + (IF entry.kind = "dir" THEN 1 ELSE 0)]

\* One entry of a directory: nothing below a directory that was not entered is
\* visited, and at either limit every level of the recursion ends.
Visit(walk, entry, limit) ==
    IF \/ walk.found >= limit \/ walk.scanned >= MaxScan
       \/ entry.depth > walk.inside
    THEN walk
    ELSE [found |-> walk.found + (IF entry.matches THEN 1 ELSE 0),
          scanned |-> walk.scanned + 1,
          inside |-> IF entry.kind = "dir" /\ entry.depth < MaxWalkDepth
                     THEN entry.depth + 1 ELSE entry.depth]

WalkFind(tree, limit) ==
    LET walk[i \in 0..Len(tree)] ==
            IF i = 0 THEN [found |-> 0, scanned |-> 0, inside |-> 0]
            ELSE Visit(walk[i - 1], tree[i], limit)
    IN walk[Len(tree)]

FsFind(tree, limit) ==
    LET walk == WalkFind(tree, limit) IN
    [count |-> walk.found,
     truncated_by_limit |-> walk.found >= limit,
     truncated_by_scan_cap |-> walk.scanned >= MaxScan]

(***************************************************************************)
(* fs.grep. Of a line only the first 4096 characters are kept, so the      *)
(* pattern may lie "beyond" what is looked at; the last line may lack its  *)
(* newline, and is then never looked at.                                   *)
(***************************************************************************)
LineKinds == {"plain", "match", "beyond"}

FsGrep(lines, terminated, limit) ==
    LET ended == IF terminated \/ lines = <<>> THEN lines ELSE Front(lines)
        hits == Cardinality({i \in DOMAIN ended : ended[i] = "match"})
    IN [count |-> IF hits > limit THEN limit ELSE hits,
        truncated |-> hits > limit]

(***************************************************************************)
(* Transfers. A request moves at most CHUNK units of a file, or fewer when *)
(* the card fails: fread and fwrite then fall short and the request is     *)
(* answered like any other. A file that cannot be opened for update is     *)
(* opened "anew", which truncates it.                                      *)
(***************************************************************************)
IoOutcomes == [moved : 0..CHUNK, anew : BOOLEAN]

\* Up to len units from an offset; fewer, or none, at the end.
Slice(data, offset, len) ==
    SubSeq(data, offset + 1, IF offset + len < Len(data) THEN offset + len ELSE Len(data))

\* Mutant: a full buffer is taken for the end of the file.
ReadToEnd(file, offset, len, moved) ==
    LET data == Slice(file, offset, moved) IN
    [data |-> data, eof |-> Len(data) <= len]

\* fread of exactly what is left has not met the end of the file yet, and one
\* that fails looks like the end; "eof" is what ends a client's loop.
FsReadResult(file, offset, len, moved) ==
    LET data == Slice(file, offset, moved) IN
    [data |-> data, eof |-> Len(data) < len]

\* Offset 0 truncates or creates; a file that is missing is created at any
\* offset, and what is skipped past the end of a file is zeros.
Written(old, offset, payload, io) ==
    LET base == IF offset = 0 \/ io.anew THEN <<>> ELSE old
        moved == Slice(payload, 0, io.moved)
        end == offset + Len(moved)
    IN [i \in 1..(IF moved = <<>> \/ end < Len(base) THEN Len(base) ELSE end) |->
            IF i \in offset + 1..end THEN moved[i - offset]
            ELSE IF i <= Len(base) THEN base[i] ELSE 0]

\* One round of the loops of AgentClient.read_file and write_file: a request for
\* what follows the data got so far, and the request for the i-th chunk. The
\* number of units fs.write answers with is looked at by nobody.
ReadMore(file, got, moved) ==
    IF got.eof THEN got
    ELSE LET reply == FsReadResult(file, Len(got.data), CHUNK, moved)
         IN [data |-> got.data \o reply.data, eof |-> reply.eof]

WriteMore(file, data, i, io) ==
    LET offset == (i - 1) * CHUNK IN
    IF offset < Len(data) \/ offset = 0
    THEN Written(file, offset, Slice(data, offset, CHUNK), io)
    ELSE file

\* Both, with what the card does to each request.
ReadFile(file, reads) ==
    LET got[i \in 0..Len(reads)] ==
            IF i = 0 THEN [data |-> <<>>, eof |-> FALSE]
            ELSE ReadMore(file, got[i - 1], reads[i])
    IN got[Len(reads)]

WriteFile(old, data, writes) ==
    LET file[i \in 0..Len(writes)] ==
            IF i = 0 THEN old ELSE WriteMore(file[i - 1], data, i, writes[i])
    IN file[Len(writes)]

(***************************************************************************)
(* Properties                                                              *)
(***************************************************************************)
\* Trees of up to n entries: an entry is one level below a directory before it
\* or at the level of something before it.
Trees(n) ==
    {t \in UNION {[1..m -> [depth : 0..2, kind : {"dir", "closed", "file"},
                            matches : BOOLEAN]] : m \in 0..n} :
        /\ t # <<>> => t[1].depth = 0
        /\ \A i \in 2..Len(t) : t[i].depth <= t[i - 1].depth
                                  + (IF t[i - 1].kind = "file" THEN 0 ELSE 1)}

\* An entry below a directory that cannot be opened.
Sealed(tree, i) ==
    \E j \in 1..i - 1 :
        tree[j].kind = "closed" /\ \A k \in j + 1..i : tree[k].depth > tree[j].depth

\* An entry fs.find can never see: below kMaxWalkDepth, or sealed.
Hidden(tree, i) == tree[i].depth > MaxWalkDepth \/ Sealed(tree, i)

\* "Say so rather than quietly returning a partial answer" (fs.cpp:468), as far as
\* it goes: an fs.find that tells of neither limit has missed the hidden matches
\* and no other one, whatever the order of depths, limits and closed directories.
FindMissesTheHidden ==
    \A tree \in Trees(3), limit \in 1..2 :
        LET answer == FsFind(tree, limit)
            matching == {i \in DOMAIN tree : tree[i].matches}
            hidden == {i \in matching : Hidden(tree, i)}
        IN /\ answer.count <= limit
           /\ \/ answer.truncated_by_limit \/ answer.truncated_by_scan_cap
              \/ answer.count = Cardinality(matching \ hidden)

\* A matching line fs.grep can never see: it matches past the characters kept, or
\* is the last one and has no newline.
CutOff(lines, terminated, i) ==
    lines[i] = "beyond" \/ (i = Len(lines) /\ ~terminated)

\* fs.grep says there are more exactly when there are more matches it can see,
\* so an answer that does not say so has missed the matches cut off, and no others.
GrepMissesTheCutOff ==
    \A n \in 0..3 : \A lines \in [1..n -> LineKinds] :
        \A terminated \in BOOLEAN, limit \in 1..2 :
            LET answer == FsGrep(lines, terminated, limit)
                matching == {i \in 1..n : lines[i] # "plain"}
                cut == {i \in matching : CutOff(lines, terminated, i)}
            IN /\ answer.count <= limit
               /\ answer.truncated <=> answer.count # Cardinality(matching \ cut)
               /\ answer.count = Cardinality(matching) => cut = {}

\* A download ends, whatever the card does, with a beginning of the file; with
\* all of it unless a read fell short.
DownloadsAreBeginnings ==
    \A n \in 0..2 * CHUNK : \A reads \in [1..3 -> 0..CHUNK] :
        LET data == [i \in 1..n |-> i]
            got == ReadFile(data, reads)
        IN /\ got.eof /\ IsPrefix(got.data, data)
           /\ (\A i \in 1..3 : reads[i] = CHUNK) => got.data = data

\* The c-th chunk of a transfer, and a write of it that was not cut short and is
\* not undone by opening the file anew for a later one.
ChunkOf(data, c) == {i \in DOMAIN data : (c - 1) * CHUNK < i /\ i <= c * CHUNK}
WrittenForGood(writes, c) ==
    writes[c].moved = CHUNK /\ \A later \in c + 1..Len(writes) : ~writes[later].anew

\* An upload leaves nothing of the file it replaces and nothing out of place: there
\* is the data or a hole of zeros, and holes only where a request was not
\* written for good.
UploadsAreInPlace ==
    \A n, m \in 0..2 * CHUNK : \A writes \in [1..2 -> IoOutcomes] :
        LET data == [i \in 1..n |-> i]
            old == [i \in 1..m |-> n + i]
            file == WriteFile(old, data, writes)
        IN /\ Len(file) <= n /\ \A i \in DOMAIN file : file[i] \in {data[i], 0}
           /\ \A c \in 1..2 : WrittenForGood(writes, c) =>
                 \A i \in ChunkOf(data, c) : i <= Len(file) /\ file[i] = data[i]

\* Whatever is asked for, a path that is accepted names something below the
\* root of its device, and normalising it again changes nothing.
NormalizedBelow ==
    \A n \in 0..4 : \A segments \in [1..n -> {"", ".", "..", "dir"}] :
        LET norm == NormalizePath(TRUE, segments) IN
        norm # <<"none">> =>
            /\ ToSet(norm) \subseteq {"dir"}
            /\ Len(norm) = Cardinality({i \in 1..n : segments[i] = "dir"})
            /\ NormalizePath(TRUE, norm) = norm
=============================================================================
