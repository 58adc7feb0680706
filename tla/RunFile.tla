------------------------------- MODULE RunFile -------------------------------
(***************************************************************************)
(* What the runs package knows about a .refleks file once it is parsed: a  *)
(* file is named by its content (its SHA-256), and its content determines  *)
(* the player, the player's display name and the scenario it belongs to.   *)
(***************************************************************************)

CONSTANTS
    Files,      \* the contents that may be uploaded; a hash names one content
    SteamIDs,   \* non-blank steam ids
    Names,      \* non-blank display names
    Titles,     \* non-blank scenario names, "unknown" included
    Anonymous,  \* the blank steam id
    NoName,     \* the blank display name (NULL in the players table)
    Blank,      \* the blank scenario name
    Unknown,    \* the scenario name "unknown"
    Absent,     \* a players row that does not exist
    SteamOf, NameOf, TitleOf    \* the parsed metadata of each file

ASSUME MetadataAssumption ==
    /\ SteamOf \in [Files -> SteamIDs \cup {Anonymous}]
    /\ NameOf \in [Files -> Names \cup {NoName}]
    /\ TitleOf \in [Files -> Titles \cup {Blank}]
    /\ Unknown \in Titles
    /\ Blank \notin Titles
    /\ Anonymous \notin SteamIDs
    /\ NoName \notin Names
    /\ Absent \notin Names \cup {NoName}

\* The scenarios row of a file: a blank scenario name is stored as "unknown".
ScenarioOf(f) == IF TitleOf[f] = Blank THEN Unknown ELSE TitleOf[f]

\* A username column: never filled, filled, or no row at all.
Username == Names \cup {NoName, Absent}

\* Slips: the name column is set outright, or left alone when the row is new.
LatestName(old, new) == new
RowlessName(old, new) == IF new # NoName THEN new ELSE old

\* The username an upsert leaves: a blank new name keeps the stored one.
MergedName(old, new) ==
    IF new # NoName THEN new ELSE IF old = Absent THEN NoName ELSE old

=============================================================================
