------------------------------- MODULE Config -------------------------------
(***************************************************************************)
(* The agent's settings, config.cpp: config.ini is read once at every      *)
(* start; a file without a token is written anew. The power may go at any  *)
(* moment, also between truncating the file and writing it.                *)
(***************************************************************************)
EXTENDS Naturals

CONSTANTS Tokens,     \* the tokens a user may choose
          UserFiles,  \* the files a user puts on the card
          MaxEdits    \* bound: how often that happens

Tiers == {"observe", "control", "invasive"}
RandomToken == "random"

\* A missing file and an empty one read as the defaults. A tier that is none of
\* the three names is written "?".
Files == [token : Tokens \cup {"", RandomToken}, tier : Tiers \cup {"?"},
          allow_nand_write : BOOLEAN]
Defaults == [token |-> "", tier |-> "observe", allow_nand_write |-> FALSE]

ASSUME UserFilesAssumption == UserFiles \subseteq Files

VARIABLES ini,     \* config.ini; a key that is missing has its default value
          cfg,     \* the settings of the running agent
          phase,   \* "off", "parsed", "opened" (for writing), "up"
          edits,   \* how often the user has written the file
          misread  \* history: this start has not found the token that is in the file

configVars == <<ini, cfg, phase, edits, misread>>

Rank(tier) == CASE tier = "observe" -> 0 [] tier = "control" -> 1 [] tier = "invasive" -> 2

ParseTier(written) == IF written \in Tiers THEN written ELSE "observe"

\* What a reading finds of the file: the keys that stand before the place where it
\* breaks off, in the order of the generated file, and the defaults of the others.
\* A file that cannot be opened reads as none.
Readings == {Defaults, [Defaults EXCEPT !.token = ini.token],
             [ini EXCEPT !.allow_nand_write = FALSE], ini}

\* The parsing loop.
Parsed(read) == [read EXCEPT !.tier = ParseTier(@)]

\* What the generated file says, whatever the file before it said.
Generated(token) == [Defaults EXCEPT !.token = token]

ConfigInit ==
    /\ ini \in UserFiles \cup {Defaults}
    /\ cfg = Defaults
    /\ phase = "off" /\ edits = 0 /\ misread = FALSE

\* Mutant: the file is written anew at every start.
LoadAfresh ==
    /\ phase = "off" /\ phase' = "parsed"
    /\ cfg' = [Parsed(ini) EXCEPT !.token = RandomToken]
    /\ misread' = FALSE
    /\ UNCHANGED <<ini, edits>>

\* A file that does not give its token when it is read is taken for one that has
\* none: it is going to be written anew, with the tier and the opt-ins it had.
LoadConfig ==
    /\ phase = "off"
    /\ \E read \in Readings :
          /\ IF read.token # ""
             THEN cfg' = Parsed(read) /\ phase' = "up"
             ELSE cfg' = [Parsed(read) EXCEPT !.token = RandomToken] /\ phase' = "parsed"
          /\ misread' = (read.token # ini.token)
    /\ UNCHANGED <<ini, edits>>

\* fopen(path, "w") truncates; a card that cannot be written leaves the agent
\* with a token of this boot alone.
OpenConfig ==
    /\ phase = "parsed"
    /\ \/ ini' = Defaults /\ phase' = "opened"
       \/ ini' = ini /\ phase' = "up"
    /\ UNCHANGED <<cfg, edits, misread>>

WriteConfig ==
    /\ phase = "opened"
    /\ ini' = Generated(cfg.token) /\ phase' = "up"
    /\ UNCHANGED <<cfg, edits, misread>>

ConfigLost ==
    /\ phase' = "off" /\ cfg' = Defaults /\ misread' = FALSE
    /\ UNCHANGED <<ini, edits>>

\* The user edits the file, also while the agent runs with the settings it read
\* before; not within the moments of a start.
UserEdits ==
    /\ phase \in {"off", "up"} /\ edits < MaxEdits
    /\ ini' \in UserFiles
    /\ edits' = edits + 1
    /\ UNCHANGED <<cfg, phase, misread>>

ConfigNext == LoadConfig \/ OpenConfig \/ WriteConfig \/ UserEdits
=============================================================================
