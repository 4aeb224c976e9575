----------------------------- MODULE MemSearch -----------------------------
(***************************************************************************)
(* The narrowing value search over the memory of the running game,         *)
(* handlers/memsearch.cpp: a first scan in chunks collects candidates,     *)
(* later requests filter them, the table stays on the console in between.  *)
(*                                                                         *)
(* The cheat service dmnt:cht is external, modelled from its use here: it  *)
(* is attached to the foreground application or to nothing, reads memory   *)
(* of a game that keeps running, and refuses to read what is not mapped.   *)
(* One variable, mem, is the memory of the foreground application; what of *)
(* it cannot be read any more is chosen anew at every request.             *)
(*                                                                         *)
(* A scan reads chunk after chunk of a game that goes on running, and is   *)
(* one step here. Nothing is lost by that: no byte is read twice in a scan *)
(* and no value straddles two chunks, so a scan between whose chunks the   *)
(* game writes finds what a scan at once finds in the memory put together  *)
(* of each byte as it was when it was read; the game writes any byte at    *)
(* any moment (GameWrites), so that memory comes about before the step and *)
(* the one the game leaves after it. A game that ends during a scan leaves *)
(* the later chunks unreadable, which is one of the choices of "gone".     *)
(***************************************************************************)
EXTENDS Processes, Sequences, FiniteSetsExt, Functions

CONSTANTS Regions,        \* the mappings: [base, size, scannable, part] each, part
                          \* the named extent it lies in: "heap", "main", "none"
          ByteValues,     \* what a byte can hold: 0..k
          Widths,         \* widths a client asks for; 3 stands for a bad one
          Requests,       \* regions asked for: [explicit, region]
          Budgets,        \* values of max_bytes
          Gones,          \* which ranges, [base, size], cannot be read at a request
          kScanChunk,     \* bytes read per call; a multiple of every width
          kMaxCandidates, \* the cap of the table
          MaxGeneration   \* bound: filters applied to one table

Bytes == UNION {r.base..r.base + r.size - 1 : r \in Regions}

ASSUME SearchAssumption ==
    /\ IsFiniteSet(Regions)
    /\ \A r \in Regions : r.base \in Nat /\ r.size \in Nat \ {0}
    /\ \A q \in Requests : \A r \in q.explicit : r.base \in Nat /\ r.size \in Nat
    /\ \A r, s \in Regions : r # s => r.base + r.size <= s.base \/ s.base + s.size <= r.base
    /\ \A w \in Widths \ {3} : w \in {1, 2, 4, 8} /\ kScanChunk % w = 0
    /\ kScanChunk \in Nat \ {0} /\ kMaxCandidates \in Nat \ {0}
    /\ MaxGeneration \in Nat \ {0}

VARIABLES mem,          \* memory of the foreground application
          cheat,        \* the process dmnt:cht is attached to, or NoPid
          g_candidates, \* the table: address -> value at the last scan
          g_width, g_generation,
          truth,        \* history: what the table would be without cap, budget
                        \* and unreadable chunks
          whole         \* history: the first scan read every chunk, and its
                        \* answer told of neither cap nor budget

tableVars == <<g_candidates, g_width, g_generation>>
searchVars == <<mem, cheat, tableVars, truth, whole>>

NoTable == [a \in {} |-> 0]

SearchInit ==
    /\ mem \in [Bytes -> ByteValues]
    /\ cheat = NoPid
    /\ g_candidates = NoTable /\ g_width = 4 /\ g_generation = 0
    /\ truth = NoTable /\ whole = TRUE

(***************************************************************************)
(* Reading the game                                                        *)
(***************************************************************************)
\* Little-endian; the radix is the number of byte values.
LoadValue(a, width) ==
    LET v[i \in 0..width] ==
            IF i = 0 THEN 0 ELSE Cardinality(ByteValues) * v[i - 1] + mem[a + width - i]
    IN v[width]

\* ReadMem of "size" bytes, when the ranges in "gone" cannot be read any more.
ReadMem(a, size, gone) ==
    a..a + size - 1 \subseteq Bytes \ UNION {r.base..r.base + r.size - 1 : r \in gone}

\* The request is answered from the table, or with an error.
Unsearched == UNCHANGED <<tableVars, truth, whole>>

\* Attach the cheat service to the foreground application unless it is
\* attached; then do Rest. No service, no application, a refused attach and a
\* call that fails after it are one answer here.
EnsureCheatProcess(Rest) ==
    \/ /\ IF cheat # NoPid THEN cheat' = cheat
          ELSE ForegroundPid # NoPid /\ cheat' = ForegroundPid
       /\ Rest \/ Unsearched
    \/ cheat' = cheat /\ Unsearched

(***************************************************************************)
(* search.begin                                                            *)
(***************************************************************************)
ScannableRegion(r) == r.scannable

\* The regions of a request: given outright, or the mappings that qualify.
RegionsOf(request) ==
    IF request.explicit # {} THEN request.explicit
    ELSE {r \in Regions : /\ ScannableRegion(r)
                          /\ request.region \in {"heap", "main"} => r.part = request.region}

ChunksOf(regions) ==
    UNION {{[base |-> r.base + off,
             len |-> IF r.size - off < kScanChunk THEN r.size - off ELSE kScanChunk] :
            off \in {o \in 0..r.size - 1 : o % kScanChunk = 0}} : r \in regions}

\* Mutant: the last value of a chunk is not looked at.
HitsShort(chunk, width, value) ==
    {a \in chunk.base..chunk.base + chunk.len - width - 1 :
        (a - chunk.base) % width = 0 /\ LoadValue(a, width) = value}

HitsIn(chunk, width, value) ==
    {a \in chunk.base..chunk.base + chunk.len - width :
        (a - chunk.base) % width = 0 /\ LoadValue(a, width) = value}

\* Chunks are read in order until max_bytes have been scanned; a chunk that
\* cannot be read is skipped and costs nothing.
ScannedBefore(chunk, readable) ==
    MapThenSumSet(LAMBDA c : c.len, {c \in readable : c.base < chunk.base})

\* Mutant: the cap is tested after the candidate is stored.
FirstAnd(hits, n) ==
    {a \in hits : Cardinality({b \in hits : b < a}) <= n}

FirstOf(hits, n) ==
    {a \in hits : Cardinality({b \in hits : b < a}) < n}

\* What a complete scan of the regions would find.
Matching(regions, width, value) ==
    {a \in Bytes : \E r \in regions :
        /\ a \in r.base..r.base + r.size - width
        /\ (a - r.base) % width = 0
        /\ a..a + width - 1 \subseteq Bytes
        /\ LoadValue(a, width) = value}

SearchBegin(request, width, value, budget, gone) ==
    LET regions == RegionsOf(request)
        chunks == ChunksOf(regions)
        readable == {c \in chunks : ReadMem(c.base, c.len, gone)}
        reached == {c \in chunks : ScannedBefore(c, readable) < budget}
        hits == UNION {HitsIn(c, width, value) : c \in readable \cap reached}
        kept == FirstOf(hits, kMaxCandidates)
        truncated == hits # kept
        budgetHit == ~truncated /\ reached # chunks
    IN EnsureCheatProcess(
          IF width \notin {1, 2, 4, 8} THEN Unsearched
          ELSE IF regions = {} THEN Unsearched
          ELSE /\ g_candidates' = [a \in kept |-> value]
               /\ g_width' = width /\ g_generation' = 1
               /\ truth' = [a \in Matching(regions, width, value) |-> value]
               /\ whole' = (readable = chunks /\ ~truncated /\ ~budgetHit))

(***************************************************************************)
(* search.next, search.results, search.reset                               *)
(***************************************************************************)
Ops == {"eq", "ne", "gt", "lt", "changed", "unchanged", "increased", "decreased"}

Keep(op, now, want, before) ==
    CASE op = "eq" -> now = want
      [] op = "ne" -> now # want
      [] op = "gt" -> now > want
      [] op = "lt" -> now < want
      [] op = "changed" -> now # before
      [] op = "unchanged" -> now = before
      [] op = "increased" -> now > before
      [] op = "decreased" -> now < before
      [] OTHER -> FALSE

Filtered(table, readable, op, want, width) ==
    [a \in {c \in readable : Keep(op, LoadValue(c, width), want, table[c])}
        |-> LoadValue(a, width)]

\* An unknown op is noticed at the first candidate that can be read.
SearchNext(op, want, gone) ==
    LET readable == {a \in DOMAIN g_candidates : ReadMem(a, g_width, gone)}
        kept == Filtered(g_candidates, readable, op, want, g_width)
    IN EnsureCheatProcess(
          IF DOMAIN g_candidates = {} THEN Unsearched
          ELSE IF op \notin Ops /\ readable # {} THEN Unsearched
          ELSE /\ g_candidates' = kept
               /\ g_generation' = g_generation + 1
               /\ truth' = Filtered(truth, {a \in DOMAIN truth : ReadMem(a, g_width, gone)},
                                    op, want, g_width)
               /\ UNCHANGED <<g_width, whole>>)

SearchResults ==
    /\ Unsearched
    /\ UNCHANGED <<mem, cheat>>

SearchReset ==
    /\ g_candidates' = NoTable /\ g_generation' = 0
    /\ truth' = NoTable /\ whole' = TRUE
    /\ UNCHANGED <<mem, cheat, g_width>>

(***************************************************************************)
(* The commands that read or write the game directly                       *)
(***************************************************************************)
\* cheat.read_mem, cheat.meta and cheat.mappings attach and answer.
CheatReads == EnsureCheatProcess(Unsearched)

CheatReadMem == CheatReads
CheatMeta == CheatReads
CheatMappings == CheatReads

\* Of the bytes written the model keeps one; all of them are written or none.
CheatWriteMem(a, byte) ==
    \/ CheatReads /\ UNCHANGED mem
    \/ /\ EnsureCheatProcess(Unsearched)
       /\ cheat' # NoPid /\ a \in Bytes
       /\ mem' = [mem EXCEPT ![a] = byte]

(***************************************************************************)
(* The game                                                                *)
(***************************************************************************)
GameWrites ==
    /\ fg # NoPid
    /\ \E a \in Bytes, byte \in ByteValues : mem' = [mem EXCEPT ![a] = byte]
    /\ UNCHANGED <<cheat, tableVars, truth, whole, procVars>>

\* Its memory is what it put there by the time anybody looks.
GameStarts ==
    /\ Launch
    /\ IF fg' = fg THEN mem' = mem ELSE mem' \in [Bytes -> ByteValues]
    /\ UNCHANGED <<cheat, tableVars, truth, whole>>

\* dmnt:cht lets go of a process that ends; the table of candidates stays.
GameExits(p) ==
    /\ Terminate(p)
    /\ cheat' = IF cheat = p THEN NoPid ELSE cheat
    /\ UNCHANGED <<mem, tableVars, truth, whole>>

MemCommands ==
    \/ /\ \/ \E request \in Requests, width \in Widths, value \in ByteValues,
               budget \in Budgets, gone \in Gones :
                SearchBegin(request, width, value, budget, gone)
          \/ /\ g_generation < MaxGeneration
             /\ \E op \in Ops \cup {"other"}, want \in ByteValues, gone \in Gones :
                    SearchNext(op, want, gone)
          \/ CheatReadMem \/ CheatMeta \/ CheatMappings
       /\ UNCHANGED mem
    \/ \E a \in Bytes, byte \in ByteValues : CheatWriteMem(a, byte)
    \/ SearchResults
    \/ SearchReset

MemNext ==
    \/ MemCommands /\ UNCHANGED procVars
    \/ GameWrites
    \/ GameStarts
    \/ \E p \in Pids : GameExits(p)

MemInit == ProcInit /\ SearchInit
MemSpec == MemInit /\ [][MemNext]_<<procVars, searchVars>>

(***************************************************************************)
(* Properties                                                              *)
(***************************************************************************)
MemTypeOK ==
    /\ ProcTypeOK
    /\ mem \in [Bytes -> ByteValues]
    /\ cheat \in alive \cup {NoPid}
    /\ DOMAIN g_candidates \subseteq Bytes
    /\ g_width \in {1, 2, 4, 8} /\ g_generation \in 0..MaxGeneration

\* The table outgrows its cap neither in one scan of many chunks nor over the
\* requests that follow (kMaxCandidates: a larger table kept the sysmodule
\* from booting), and every address in it is one a complete search of readable
\* memory would have kept, with the same last value: chunks, caps, budgets
\* and regions that vanish only lose candidates, they never invent one.
NarrowSound ==
    /\ Cardinality(DOMAIN g_candidates) <= kMaxCandidates
    /\ \A a \in DOMAIN g_candidates :
          a \in DOMAIN truth /\ g_candidates[a] = truth[a]

\* A first scan that read every chunk and told of neither cap nor budget has
\* missed nothing, and no filter after it loses a match: the table is all the
\* addresses that satisfy everything asked since.
NarrowKeeps == whole => DOMAIN truth \subseteq DOMAIN g_candidates

=============================================================================
