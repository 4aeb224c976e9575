--------------------------- MODULE MemSearchProofs ---------------------------
(***************************************************************************)
(* Theorems about MemSearch, for any mappings, any chunk size, cap and     *)
(* budget, and any values the game keeps writing meanwhile.                *)
(***************************************************************************)
EXTENDS MemSearch, FiniteSetTheorems, TLAPS

LEMMA Constants ==
  /\ kScanChunk \in Nat \ {0} /\ kMaxCandidates \in Nat \ {0}
  /\ MaxGeneration \in Nat \ {0}
  /\ IsFiniteSet(Regions)
  /\ \A r \in Regions : r.base \in Nat /\ r.size \in Nat
BY SearchAssumption

\* The widths that divide a chunk.
GoodWidth == {w \in Widths \cap {1, 2, 4, 8} : kScanChunk % w = 0}

LEMMA WidthsAreGood ==
  ASSUME NEW width \in Widths, width \in {1, 2, 4, 8}
  PROVE  width \in GoodWidth
BY SearchAssumption DEF GoodWidth

\* What the game can have mapped is finite.
LEMMA BytesFinite == IsFiniteSet(Bytes) /\ Bytes \subseteq Nat
<1> DEFINE Span(r) == r.base..r.base + r.size - 1
           Spans == {Span(r) : r \in Regions}
<1>1. IsFiniteSet(Spans)
  <2> DEFINE f == [r \in Regions |-> Span(r)]
  <2>1. f \in Surjection(Regions, Spans)
    BY DEF Surjection
  <2>2. IsFiniteSet(Regions)
    BY Constants
  <2> HIDE DEF f, Spans
  <2> QED BY <2>1, <2>2, FS_Surjection
<1>2. \A s \in Spans : IsFiniteSet(s) /\ s \subseteq Nat
  <2> SUFFICES ASSUME NEW r \in Regions PROVE IsFiniteSet(Span(r)) /\ Span(r) \subseteq Nat
    OBVIOUS
  <2>1. r.base \in Nat /\ r.size \in Nat
    BY Constants
  <2>2. r.base + r.size - 1 \in Int
    BY <2>1
  <2>3. IsFiniteSet(Span(r))
    BY <2>1, <2>2, FS_Interval
  <2>4. Span(r) \subseteq Nat
    BY <2>1
  <2> QED BY <2>3, <2>4
<1>3. Bytes = UNION Spans
  BY DEF Bytes
<1> HIDE DEF Spans
<1>4. IsFiniteSet(UNION Spans)
  BY <1>1, <1>2, FS_UNION
<1> QED BY <1>2, <1>3, <1>4

-----------------------------------------------------------------------------
(***************************************************************************)
(* The cap.                                                                *)
(***************************************************************************)

\* The first n of a finite set of addresses are at most n: their ranks differ.
LEMMA FirstAreFew ==
  ASSUME NEW hits \in SUBSET Nat, IsFiniteSet(hits), NEW n \in Nat
  PROVE  IsFiniteSet(FirstOf(hits, n)) /\ Cardinality(FirstOf(hits, n)) <= n
<1> DEFINE Below(a) == {b \in hits : b < a}
           rank == [a \in FirstOf(hits, n) |-> Cardinality(Below(a)) + 1]
<1>1. \A a \in hits : IsFiniteSet(Below(a)) /\ Cardinality(Below(a)) \in Nat
  <2> TAKE a \in hits
  <2>1. Below(a) \in SUBSET hits
    OBVIOUS
  <2> QED BY <2>1, FS_Subset, FS_CardinalityType
<1>2. FirstOf(hits, n) = {a \in hits : Cardinality(Below(a)) < n}
  BY DEF FirstOf
<1>3. ASSUME NEW a \in hits, NEW c \in hits, a < c
      PROVE  Cardinality(Below(a)) < Cardinality(Below(c))
  <2>0. a \in Nat /\ c \in Nat /\ hits \subseteq Nat
    OBVIOUS
  <2>1. Below(a) \in SUBSET Below(c) /\ a \in Below(c) /\ a \notin Below(a)
    <3>1. \A b \in hits : b < a => b < c
      BY <1>3, <2>0
    <3>2. ~(a < a)
      BY <2>0
    <3> QED BY <1>3, <3>1, <3>2, Zenon
  <2>2. Cardinality(Below(a)) <= Cardinality(Below(c))
        /\ Cardinality(Below(a)) # Cardinality(Below(c))
    BY <1>1, <2>1, FS_Subset
  <2> QED BY <1>1, <2>2
<1> HIDE DEF Below
<1>4. \A a \in FirstOf(hits, n) : a \in Nat /\ a \in hits /\ Cardinality(Below(a)) + 1 \in 1..n
  <2> TAKE a \in FirstOf(hits, n)
  <2>1. a \in hits /\ Cardinality(Below(a)) < n
    BY <1>2
  <2>2. Cardinality(Below(a)) \in Nat
    BY <1>1, <2>1
  <2> QED BY <2>1, <2>2
<1>5. rank \in [FirstOf(hits, n) -> 1..n]
  BY <1>4
<1>6. \A a, c \in FirstOf(hits, n) : rank[a] = rank[c] => a = c
  <2> SUFFICES ASSUME NEW a \in FirstOf(hits, n), NEW c \in FirstOf(hits, n),
                      rank[a] = rank[c], a # c
               PROVE  FALSE
    OBVIOUS
  <2>1. Cardinality(Below(a)) = Cardinality(Below(c))
    BY <1>1, <1>4
  <2>2. a < c \/ c < a
    BY <1>4
  <2> QED BY <1>1, <1>3, <1>4, <2>1, <2>2
<1>7. rank \in Injection(FirstOf(hits, n), 1..n)
  BY <1>5, <1>6 DEF Injection, IsInjective
<1>8. IsFiniteSet(1..n) /\ Cardinality(1..n) = n
  BY FS_Interval
<1> QED BY <1>7, <1>8, FS_Injection

-----------------------------------------------------------------------------
(***************************************************************************)
(* What a first scan finds.  d is where an address lies in its region, and *)
(* K = kScanChunk a multiple of the width w.                               *)
(***************************************************************************)

LEMMA Multiple ==
  ASSUME NEW w \in {1, 2, 4, 8}, NEW k \in Int, k % w = 0
  PROVE  \E p \in Int : k = w * p
<1>1. k \div w \in Int /\ k = w * (k \div w)
  OBVIOUS
<1> QED BY <1>1

LEMMA OfMultiple ==
  ASSUME NEW w \in {1, 2, 4, 8}, NEW p \in Int
  PROVE  (w * p) % w = 0
OBVIOUS

\* An address aligned in its chunk is aligned in its region.
LEMMA AlignedInRegion ==
  ASSUME NEW w \in {1, 2, 4, 8}, NEW K \in Nat \ {0}, K % w = 0,
         NEW off \in Nat, off % K = 0, NEW e \in Nat, e % w = 0
  PROVE  (off + e) % w = 0
<1>0. K \in Int /\ off \in Int /\ e \in Int
  OBVIOUS
<1>1. PICK p \in Int : K = w * p
  BY <1>0, Multiple
<1>2. PICK q \in Int : off = K * q
  <2>1. off = K * (off \div K) /\ off \div K \in Int
    OBVIOUS
  <2> QED BY <2>1
<1>3. PICK s \in Int : e = w * s
  BY <1>0, Multiple
<1> DEFINE m == p * q + s
<1>4. off + e = w * m
  <2>1. off = w * (p * q)
    BY <1>1, <1>2
  <2>2. p * q \in Int
    OBVIOUS
  <2> QED BY <1>3, <2>1, <2>2
<1>5. m \in Int
  OBVIOUS
<1> HIDE DEF m
<1>6. (w * m) % w = 0
  BY <1>5, OfMultiple
<1> QED BY <1>4, <1>6

\* An address aligned in its region lies, with its whole value, in one chunk's worth of
\* bytes from the last multiple of the chunk size, and is aligned there.
LEMMA AlignedInChunk ==
  ASSUME NEW w \in {1, 2, 4, 8}, NEW K \in Nat \ {0}, K % w = 0,
         NEW d \in Nat, d % w = 0
  PROVE  \E off \in Nat : /\ off <= d /\ off % K = 0
                         /\ (d - off) % w = 0 /\ d - off <= K - w
<1>0. K \in Int /\ d \in Int
  OBVIOUS
<1>1. PICK p \in Int : K = w * p
  BY <1>0, Multiple
<1>2. PICK s \in Int : d = w * s
  BY <1>0, Multiple
<1> DEFINE q == d \div K
           off == K * q
           t == s - p * q
<1>3. d = off + (d % K) /\ d % K \in 0..K - 1 /\ q \in Nat
  OBVIOUS
<1> HIDE DEF q
<1>4. off \in Nat /\ off <= d
  BY <1>3
<1>5. off % K = 0
  BY <1>3
<1>6. off = w * (p * q)
  BY <1>1, <1>3
<1>7. d - off = w * t /\ t \in Int
  <2>1. p * q \in Int
    BY <1>3
  <2> QED BY <1>2, <1>6, <2>1
<1>8. d - off < K /\ d - off \in Int
  BY <1>3, <1>4
<1> HIDE DEF off, t
<1>9. (d - off) % w = 0
  BY <1>7, OfMultiple
<1>10. w * t < w * p => w * t <= w * p - w
  BY <1>7
<1>11. d - off <= K - w
  BY <1>1, <1>7, <1>8, <1>10
<1> QED BY <1>4, <1>5, <1>9, <1>11

LEMMA RegionsHaveSize ==
  ASSUME NEW request \in Requests, NEW r \in RegionsOf(request)
  PROVE  r.base \in Nat /\ r.size \in Nat
BY SearchAssumption DEF RegionsOf

\* The chunk of region r that begins at offset off.
ChunkAt(r, off) ==
  [base |-> r.base + off,
   len |-> IF r.size - off < kScanChunk THEN r.size - off ELSE kScanChunk]

LEMMA ChunksAre ==
  ASSUME NEW regions
  PROVE  /\ \A c \in ChunksOf(regions) :
              \E r \in regions : \E off \in 0..r.size - 1 :
                 off % kScanChunk = 0 /\ c = ChunkAt(r, off)
         /\ \A r \in regions : \A off \in 0..r.size - 1 :
              off % kScanChunk = 0 => ChunkAt(r, off) \in ChunksOf(regions)
BY DEF ChunksOf, ChunkAt

\* Every value found in a chunk that can be read is one that a complete scan finds.
LEMMA HitsMatch ==
  ASSUME NEW request \in Requests, NEW width \in GoodWidth, NEW value,
         NEW c \in ChunksOf(RegionsOf(request)), c.base..c.base + c.len - 1 \subseteq Bytes
  PROVE  HitsIn(c, width, value) \subseteq Matching(RegionsOf(request), width, value)
<1> SUFFICES ASSUME NEW a \in HitsIn(c, width, value)
             PROVE  a \in Matching(RegionsOf(request), width, value)
  OBVIOUS
<1>1. PICK r \in RegionsOf(request) : \E off \in 0..r.size - 1 :
         off % kScanChunk = 0 /\ c = ChunkAt(r, off)
  BY ChunksAre
<1>2. PICK off \in 0..r.size - 1 : off % kScanChunk = 0 /\ c = ChunkAt(r, off)
  BY <1>1
<1>3. r.base \in Nat /\ r.size \in Nat /\ off \in Nat
  BY RegionsHaveSize
<1>4. kScanChunk \in Nat \ {0} /\ width \in {1, 2, 4, 8} /\ kScanChunk % width = 0
  BY Constants DEF GoodWidth
<1>5. /\ c.base = r.base + off /\ c.len \in Nat
      /\ off + c.len <= r.size
  BY <1>2, <1>3, <1>4 DEF ChunkAt
<1>6. /\ a \in c.base..c.base + c.len - width
      /\ (a - c.base) % width = 0 /\ LoadValue(a, width) = value
  BY DEF HitsIn
<1>7. a \in r.base..r.base + r.size - width
  BY <1>3, <1>4, <1>5, <1>6
<1>8. (a - r.base) % width = 0
  <2> DEFINE e == a - c.base
  <2>1. e \in Nat /\ e % width = 0 /\ a - r.base = off + e
    BY <1>3, <1>4, <1>5, <1>6
  <2> HIDE DEF e
  <2>2. (off + e) % width = 0
    BY <1>2, <1>3, <1>4, <2>1, AlignedInRegion
  <2> QED BY <2>1, <2>2
<1>9. a..a + width - 1 \subseteq c.base..c.base + c.len - 1
  BY <1>3, <1>4, <1>5, <1>6
<1>10. a..a + width - 1 \subseteq Bytes /\ a \in Bytes
  <2>1. a \in a..a + width - 1
    BY <1>3, <1>4, <1>5, <1>6
  <2> QED BY <1>9, <2>1
<1> QED BY <1>6, <1>7, <1>8, <1>10 DEF Matching

\* Every value that a complete scan finds is found in a chunk.
LEMMA MatchesHit ==
  ASSUME NEW request \in Requests, NEW width \in GoodWidth, NEW value,
         NEW a \in Matching(RegionsOf(request), width, value)
  PROVE  \E c \in ChunksOf(RegionsOf(request)) : a \in HitsIn(c, width, value)
<1>1. PICK r \in RegionsOf(request) :
         /\ a \in r.base..r.base + r.size - width
         /\ (a - r.base) % width = 0
         /\ LoadValue(a, width) = value
  BY DEF Matching
<1>2. r.base \in Nat /\ r.size \in Nat
  BY RegionsHaveSize
<1>3. kScanChunk \in Nat \ {0} /\ width \in {1, 2, 4, 8} /\ kScanChunk % width = 0
  BY Constants DEF GoodWidth
<1> DEFINE d == a - r.base
<1>4. d \in Nat /\ d % width = 0 /\ a = r.base + d /\ d + width <= r.size
  BY <1>1, <1>2, <1>3
<1> HIDE DEF d
<1>5. PICK off \in Nat : /\ off <= d /\ off % kScanChunk = 0
                         /\ (d - off) % width = 0 /\ d - off <= kScanChunk - width
  BY <1>3, <1>4, AlignedInChunk
<1> DEFINE c == ChunkAt(r, off)
<1>6. off \in 0..r.size - 1
  <2>1. width \in Nat /\ 1 <= width
    BY <1>3
  <2>2. off <= d /\ d < r.size
    BY <1>2, <1>4, <1>5, <2>1
  <2> QED BY <1>2, <1>4, <1>5, <2>2
<1>7. c \in ChunksOf(RegionsOf(request))
  BY <1>5, <1>6, ChunksAre
<1>8. /\ c.base = r.base + off
      /\ c.len = IF r.size - off < kScanChunk THEN r.size - off ELSE kScanChunk
  BY DEF ChunkAt
<1> HIDE DEF c
<1>9. a \in c.base..c.base + c.len - width /\ a - c.base = d - off
  BY <1>2, <1>3, <1>4, <1>5, <1>8
<1>10. a \in HitsIn(c, width, value)
  BY <1>1, <1>5, <1>9 DEF HitsIn
<1> QED BY <1>7, <1>10

-----------------------------------------------------------------------------
(***************************************************************************)
(* The table over the requests.                                            *)
(***************************************************************************)
TableInv ==
  /\ DOMAIN g_candidates \subseteq Bytes
  /\ NarrowSound
  /\ NarrowKeeps

LEMMA TableQuiet ==
  ASSUME TableInv, UNCHANGED <<g_candidates, truth, whole>>
  PROVE  TableInv'
BY DEF TableInv, NarrowSound, NarrowKeeps

\* A new table: the first candidates of those found in the chunks that were read.
LEMMA BeginsSoundly ==
  ASSUME TableInv, NEW request \in Requests, NEW width \in Widths, NEW value, NEW budget,
         NEW gone, SearchBegin(request, width, value, budget, gone)
  PROVE  TableInv'
<1> DEFINE regions == RegionsOf(request)
           chunks == ChunksOf(regions)
           readable == {c \in chunks : ReadMem(c.base, c.len, gone)}
           reached == {c \in chunks : ScannedBefore(c, readable) < budget}
           hits == UNION {HitsIn(c, width, value) : c \in readable \cap reached}
           kept == FirstOf(hits, kMaxCandidates)
           truncated == hits # kept
           budgetHit == ~truncated /\ reached # chunks
           found == Matching(regions, width, value)
<1>1. CASE Unsearched
  BY <1>1, TableQuiet DEF Unsearched, tableVars
<1>2. CASE /\ width \in {1, 2, 4, 8}
           /\ g_candidates' = [a \in kept |-> value]
           /\ truth' = [a \in found |-> value]
           /\ whole' = (readable = chunks /\ ~truncated /\ ~budgetHit)
  <2>0. width \in GoodWidth
    BY <1>2, WidthsAreGood
  <2>1. \A c \in readable : HitsIn(c, width, value) \subseteq found
    <3> TAKE c \in readable
    <3>1. c.base..c.base + c.len - 1 \subseteq Bytes
      BY DEF ReadMem
    <3> QED BY <2>0, <3>1, HitsMatch
  <2>2. found \subseteq Bytes
    BY DEF Matching
  <2>3. hits \subseteq found
    BY <2>1
  <2>4. kept \subseteq hits
    BY DEF FirstOf
  <2>5. whole' => found \subseteq hits
    <3> SUFFICES ASSUME whole', NEW a \in found PROVE a \in hits
      OBVIOUS
    <3>1. readable = chunks /\ reached = chunks
      BY <1>2
    <3>2. PICK c \in chunks : a \in HitsIn(c, width, value)
      BY <2>0, MatchesHit
    <3> QED BY <3>1, <3>2
  <2>6. whole' => hits = kept
    BY <1>2
  <2>7. IsFiniteSet(hits) /\ hits \in SUBSET Nat
    BY <2>2, <2>3, BytesFinite, FS_Subset
  <2>8. Cardinality(kept) <= kMaxCandidates
    BY <2>7, Constants, FirstAreFew
  <2>9. DOMAIN g_candidates' = kept /\ DOMAIN truth' = found
    BY <1>2
  <2> HIDE DEF kept, hits, found, readable, reached, chunks, regions, truncated, budgetHit
  <2>10. \A a \in kept : a \in found /\ g_candidates'[a] = truth'[a]
    BY <1>2, <2>3, <2>4
  <2>11. whole' => found \subseteq kept
    BY <2>5, <2>6
  <2> QED BY <2>2, <2>3, <2>4, <2>8, <2>9, <2>10, <2>11 DEF TableInv, NarrowSound, NarrowKeeps
<1> QED BY <1>1, <1>2, Zenon DEF SearchBegin, EnsureCheatProcess

\* A filter keeps the same addresses of the table and of the complete one.
LEMMA NextSoundly ==
  ASSUME TableInv, NEW op, NEW want, NEW gone, SearchNext(op, want, gone)
  PROVE  TableInv'
<1> DEFINE readable == {a \in DOMAIN g_candidates : ReadMem(a, g_width, gone)}
           all == {a \in DOMAIN truth : ReadMem(a, g_width, gone)}
<1>1. CASE Unsearched
  BY <1>1, TableQuiet DEF Unsearched, tableVars
<1>2. CASE /\ g_candidates' = Filtered(g_candidates, readable, op, want, g_width)
           /\ truth' = Filtered(truth, all, op, want, g_width)
           /\ UNCHANGED whole
  <2>1. /\ DOMAIN g_candidates' =
             {c \in readable : Keep(op, LoadValue(c, g_width), want, g_candidates[c])}
        /\ \A a \in DOMAIN g_candidates' : g_candidates'[a] = LoadValue(a, g_width)
    BY <1>2 DEF Filtered
  <2>2. /\ DOMAIN truth' = {c \in all : Keep(op, LoadValue(c, g_width), want, truth[c])}
        /\ \A a \in DOMAIN truth' : truth'[a] = LoadValue(a, g_width)
    BY <1>2 DEF Filtered
  <2>3. DOMAIN g_candidates' \subseteq DOMAIN g_candidates
    BY <2>1
  <2>4. Cardinality(DOMAIN g_candidates') <= kMaxCandidates
    <3>1. IsFiniteSet(DOMAIN g_candidates)
      BY BytesFinite, FS_Subset DEF TableInv
    <3>2. Cardinality(DOMAIN g_candidates') <= Cardinality(DOMAIN g_candidates)
      BY <2>3, <3>1, FS_Subset
    <3>3. Cardinality(DOMAIN g_candidates') \in Nat /\ Cardinality(DOMAIN g_candidates) \in Nat
      BY <2>3, <3>1, FS_Subset, FS_CardinalityType
    <3> QED BY <3>2, <3>3, Constants DEF TableInv, NarrowSound
  <2>5. \A a \in DOMAIN g_candidates : a \in DOMAIN truth /\ g_candidates[a] = truth[a]
    BY DEF TableInv, NarrowSound
  <2>6. \A a \in DOMAIN g_candidates' : a \in DOMAIN truth' /\ g_candidates'[a] = truth'[a]
    BY <2>1, <2>2, <2>5
  <2>7. whole' => DOMAIN truth' \subseteq DOMAIN g_candidates'
    <3>1. whole' => DOMAIN truth \subseteq DOMAIN g_candidates
      BY <1>2 DEF TableInv, NarrowKeeps
    <3> QED BY <2>1, <2>2, <2>5, <3>1
  <2> QED BY <2>3, <2>4, <2>6, <2>7 DEF TableInv, NarrowSound, NarrowKeeps
<1> QED BY <1>1, <1>2, Zenon DEF SearchNext, EnsureCheatProcess

LEMMA TableInvariant == MemSpec => []TableInv
<1>1. MemInit => TableInv
  <2>1. DOMAIN NoTable = {}
    BY DEF NoTable
  <2>2. Cardinality({}) = 0
    BY FS_EmptySet
  <2> QED BY <2>1, <2>2, Constants DEF MemInit, SearchInit, TableInv, NarrowSound, NarrowKeeps
<1>2. TableInv /\ [MemNext]_<<procVars, searchVars>> => TableInv'
  <2> SUFFICES ASSUME TableInv, [MemNext]_<<procVars, searchVars>> PROVE TableInv'
    OBVIOUS
  <2>1. ASSUME UNCHANGED <<g_candidates, truth, whole>> PROVE TableInv'
    BY <2>1, TableQuiet
  <2>2. CASE CheatReads
    BY <2>1, <2>2 DEF CheatReads, EnsureCheatProcess, Unsearched, tableVars
  <2>3. ASSUME NEW a, NEW byte, CheatWriteMem(a, byte) PROVE TableInv'
    BY <2>1, <2>2, <2>3 DEF CheatWriteMem, EnsureCheatProcess, Unsearched, tableVars
  <2>4. CASE SearchReset
    <3>1. DOMAIN NoTable = {} /\ Cardinality({}) = 0
      BY FS_EmptySet DEF NoTable
    <3> QED BY <2>4, <3>1, Constants DEF SearchReset, TableInv, NarrowSound, NarrowKeeps
  <2>5. CASE MemCommands
    BY <2>1, <2>2, <2>3, <2>4, <2>5, BeginsSoundly, NextSoundly
    DEF MemCommands, CheatReadMem, CheatMeta, CheatMappings, SearchResults, Unsearched,
        tableVars
  <2>6. CASE GameWrites \/ GameStarts
    BY <2>1, <2>6 DEF GameWrites, GameStarts, tableVars
  <2>7. ASSUME NEW p, GameExits(p) PROVE TableInv'
    BY <2>1, <2>7 DEF GameExits, tableVars
  <2> QED BY <2>1, <2>5, <2>6, <2>7 DEF MemNext, searchVars, tableVars
<1> QED BY <1>1, <1>2, PTL DEF MemSpec

\* The table of candidates never outgrows its cap, and whatever chunks, caps, budgets and
\* vanished regions cost, no address in it is one that a complete search would not have
\* kept (handlers/memsearch.cpp:286-428), however the game writes meanwhile.
THEOREM NarrowingIsSound == MemSpec => []NarrowSound
BY TableInvariant, PTL DEF TableInv

\* A first scan that read every chunk and reported neither cap nor budget has found every
\* match, those next to the end of a chunk or a region included, and no later filter loses
\* one (handlers/memsearch.cpp:338-356 and 396-417).
THEOREM NarrowingKeepsAll == MemSpec => []NarrowKeeps
BY TableInvariant, PTL DEF TableInv

-----------------------------------------------------------------------------
(***************************************************************************)
(* Types.                                                                  *)
(***************************************************************************)

\* A request leaves the cheat service on a process that exists, and the table with a
\* width and a generation that the code can load.
LEMMA RequestTypes ==
  ASSUME MemTypeOK, NEW Rest, EnsureCheatProcess(Rest),
         Rest => g_width' \in {1, 2, 4, 8} /\ g_generation' \in 0..MaxGeneration
  PROVE  /\ cheat' \in alive \cup {NoPid}
         /\ g_width' \in {1, 2, 4, 8} /\ g_generation' \in 0..MaxGeneration
<1>1. cheat' \in {cheat, fg}
  BY DEF EnsureCheatProcess, ForegroundPid
<1>2. Rest \/ Unsearched
  BY DEF EnsureCheatProcess
<1> QED BY <1>1, <1>2 DEF MemTypeOK, ProcTypeOK, Unsearched, tableVars

\* The processes, the memory of the game, the cheat service and the table keep their types.
THEOREM SearchTypes == MemSpec => []MemTypeOK
<1> DEFINE RestOK == /\ cheat' \in alive' \cup {NoPid}
                     /\ g_width' \in {1, 2, 4, 8} /\ g_generation' \in 0..MaxGeneration
<1>0. MaxPid \in Nat \ {0}
  BY MaxPidAssumption
<1>1. MemInit => MemTypeOK
  <2> SUFFICES ASSUME MemInit PROVE MemTypeOK
    OBVIOUS
  <2>1. ProcTypeOK /\ cheat \in alive \cup {NoPid}
    BY <1>0 DEF MemInit, ProcInit, SearchInit, ProcTypeOK
  <2>2. mem \in [Bytes -> ByteValues] /\ DOMAIN g_candidates \subseteq Bytes
    BY DEF MemInit, SearchInit, NoTable
  <2>3. g_width \in {1, 2, 4, 8} /\ g_generation \in 0..MaxGeneration
    BY Constants DEF MemInit, SearchInit
  <2> QED BY <2>1, <2>2, <2>3 DEF MemTypeOK
<1>2. MemTypeOK /\ TableInv' /\ [MemNext]_<<procVars, searchVars>> => MemTypeOK'
  <2> SUFFICES ASSUME MemTypeOK, TableInv', [MemNext]_<<procVars, searchVars>>
               PROVE  MemTypeOK'
    OBVIOUS
  <2>0. DOMAIN g_candidates' \subseteq Bytes
    BY DEF TableInv
  <2>a. ASSUME UNCHANGED procVars, mem' = mem \/ mem' \in [Bytes -> ByteValues], RestOK
        PROVE  MemTypeOK'
    BY <2>0, <2>a DEF MemTypeOK, ProcTypeOK, procVars
  <2>b. ASSUME NEW a \in Bytes, NEW byte \in ByteValues, mem' = [mem EXCEPT ![a] = byte]
        PROVE  mem' \in [Bytes -> ByteValues]
    BY <2>b DEF MemTypeOK
  <2>c. cheat \in alive \cup {NoPid} /\ g_width \in {1, 2, 4, 8}
        /\ g_generation \in 0..MaxGeneration
    BY DEF MemTypeOK
  <2>1. ASSUME NEW request \in Requests, NEW width \in Widths, NEW value, NEW budget, NEW gone,
               SearchBegin(request, width, value, budget, gone), UNCHANGED procVars
        PROVE  RestOK
    <3>1. 1 \in 0..MaxGeneration
      BY Constants
    <3> QED BY <2>1, <2>c, <3>1, RequestTypes, Zenon
            DEF SearchBegin, Unsearched, tableVars, procVars
  <2>2. ASSUME NEW op, NEW want, NEW gone, g_generation < MaxGeneration,
               SearchNext(op, want, gone), UNCHANGED procVars
        PROVE  RestOK
    <3>1. g_generation + 1 \in 0..MaxGeneration
      BY <2>2, <2>c, Constants
    <3> QED BY <2>2, <2>c, <3>1, RequestTypes, Zenon
            DEF SearchNext, Unsearched, tableVars, procVars
  <2>3. ASSUME CheatReads, UNCHANGED procVars PROVE RestOK
    <3>1. EnsureCheatProcess(Unsearched) /\ UNCHANGED alive
      BY <2>3 DEF CheatReads, procVars
    <3>2. Unsearched => g_width' \in {1, 2, 4, 8} /\ g_generation' \in 0..MaxGeneration
      BY <2>c DEF Unsearched, tableVars
    <3> QED BY <3>1, <3>2, RequestTypes
  <2>4. CASE MemCommands /\ UNCHANGED procVars
    <3>1. ASSUME NEW a \in Bytes, NEW byte \in ByteValues, CheatWriteMem(a, byte)
          PROVE  MemTypeOK'
      <4>1. CheatReads
        BY <3>1 DEF CheatWriteMem, CheatReads
      <4> QED BY <2>3, <2>4, <2>a, <2>b, <3>1, <4>1 DEF CheatWriteMem
    <3>2. CASE SearchResults \/ SearchReset
      <4>1. UNCHANGED <<mem, cheat, g_width>> /\ g_generation' \in {g_generation, 0}
        BY <3>2 DEF SearchResults, SearchReset, Unsearched, tableVars
      <4>2. RestOK
        BY <2>4, <2>c, <4>1, Constants DEF procVars
      <4> QED BY <2>4, <2>a, <4>1, <4>2
    <3> QED BY <2>1, <2>2, <2>3, <2>4, <2>a, <3>1, <3>2
            DEF MemCommands, CheatReadMem, CheatMeta, CheatMappings
  <2>5. CASE GameWrites
    <3>1. mem' \in [Bytes -> ByteValues]
      BY <2>5, <2>b DEF GameWrites
    <3>2. UNCHANGED <<cheat, g_width, g_generation, procVars>>
      BY <2>5 DEF GameWrites, tableVars
    <3> QED BY <2>a, <2>c, <3>1, <3>2 DEF procVars
  <2>6. CASE GameStarts
    <3>1. /\ born < MaxPid /\ born' = born + 1 /\ alive' = alive \cup {born + 1}
          /\ fg' \in {fg, born + 1} /\ UNCHANGED <<cheat, g_width, g_generation>>
      BY <2>6 DEF GameStarts, Launch, Starts, tableVars
    <3>2. mem' \in [Bytes -> ByteValues]
      BY <2>6 DEF GameStarts, MemTypeOK
    <3>3. ProcTypeOK'
      BY <1>0, <3>1 DEF MemTypeOK, ProcTypeOK
    <3> QED BY <2>0, <2>c, <3>1, <3>2, <3>3 DEF MemTypeOK
  <2>7. ASSUME NEW p, GameExits(p) PROVE MemTypeOK'
    <3>1. /\ alive' = alive \ {p} /\ fg' = (IF fg = p THEN NoPid ELSE fg) /\ born' = born
          /\ cheat' = (IF cheat = p THEN NoPid ELSE cheat)
          /\ UNCHANGED <<mem, g_width, g_generation>>
      BY <2>7 DEF GameExits, Terminate, Exits, tableVars
    <3>2. ProcTypeOK'
      BY <3>1 DEF MemTypeOK, ProcTypeOK
    <3> QED BY <2>0, <3>1, <3>2 DEF MemTypeOK
  <2>8. CASE UNCHANGED <<procVars, searchVars>>
    BY <2>0, <2>8 DEF MemTypeOK, ProcTypeOK, procVars, searchVars, tableVars
  <2> QED BY <2>4, <2>5, <2>6, <2>7, <2>8 DEF MemNext
<1> QED BY <1>1, <1>2, TableInvariant, PTL DEF MemSpec
=============================================================================
