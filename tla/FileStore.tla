------------------------------ MODULE FileStore ------------------------------
(***************************************************************************)
(* FileConfigStore (stores/file) and its formats JSON, XML, INI, TOML and  *)
(* CSV: all configs in one file, which store.set reads, changes and writes *)
(* back with fs.writeFile.  writeFile empties the file before it writes,   *)
(* and nothing locks the file, so a crash or another program in between    *)
(* meets an empty file; of two writes that overlap, the shorter leaves the *)
(* tail of the longer behind it, which some formats parse.                 *)
(***************************************************************************)
EXTENDS Naturals, FiniteSets

CONSTANTS
    Program,         \* programs with a store on the same file
    Query,           \* the pairs of a set and a key
    Root,            \* the root set
    Value,           \* non-empty config values
    Empty,           \* the empty string
    Missing,         \* the file does not exist
    Blank,           \* it has no contents
    Garbled,         \* it has contents no parser accepts
    Setups,          \* the formats to check and the programs that use the file
    Batches,         \* what UpsertCommand hands to store.set
    MaxSets,         \* sets in a behaviour
    MaxCrashes       \* crashes in a behaviour

Content == Value \cup {Empty}
Tables == UNION {[D -> Value] : D \in SUBSET Query}
NoRows == [q \in {} |-> Empty]

(* What tells the formats apart.  blankParses: INI, TOML and CSV read an   *)
(* empty file as "no configs".  singleBreaks: an XML file of one config    *)
(* does not parse to an array.  grouped: INI and TOML write the configs of *)
(* a set as an object among the root keys.  scalars: the values INI reads  *)
(* back as a boolean or null.  mixture: what the parser may do with the    *)
(* text two overlapping writes leave: INI parses it, JSON and XML reject   *)
(* what follows the array or the root element, and TOML and CSV do either. *)
IsFormat(f) ==
    /\ DOMAIN f = {"blankParses", "singleBreaks", "grouped", "scalars", "mixture"}
    /\ f.blankParses \in BOOLEAN /\ f.singleBreaks \in BOOLEAN /\ f.grouped \in BOOLEAN
    /\ f.scalars \subseteq Value
    /\ f.mixture \subseteq {"rejected", "parsed"}

ASSUME FileAssumption ==
    /\ Empty \notin Value
    /\ \A s \in Setups : IsFormat(s.format) /\ s.users \subseteq Program /\ IsFiniteSet(s.users)
    /\ {Missing, Blank, Garbled} \cap Tables = {}
    /\ Cardinality({Missing, Blank, Garbled}) = 3
    /\ Batches \subseteq UNION {[D -> Content] : D \in SUBSET Query}
    /\ MaxSets \in Nat /\ MaxCrashes \in Nat

VARIABLES
    format,     \* the format of the file
    users,      \* the programs that use it
    file,       \* what the file holds: Missing, Blank, Garbled or its rows
    pc,         \* pc[p]: where p's store is
    batch,      \* batch[p]: the configs of its set
    seen,       \* seen[p]: the rows it parsed
    sets,       \* sets begun so far
    crashes,    \* crashes so far
    offered,    \* history: what was stored at first, and what was given for it
    expected,   \* history: what the sets that ended have stored
    raced,      \* history: programs whose set overlapped another
    mixed       \* history: a parser may have met the mixture of two writes

setup == <<format, users>>
vars == <<setup, file, pc, batch, seen, sets, crashes, offered, expected, raced, mixed>>

-----------------------------------------------------------------------------
(* The formats. *)

ValueIn(rows, q) == IF q \in DOMAIN rows THEN rows[q] ELSE Empty

(* The rows that _.merge overwrites: a root key, by the set of that name.  *)
Shadowed(rows) ==
    {q \in DOMAIN rows : /\ format.grouped /\ q[1] = Root
                         /\ \E r \in DOMAIN rows : r[1] # Root /\ r[1] = q[2]}

Kept(rows) == [q \in DOMAIN rows \ Shadowed(rows) |-> rows[q]]

(* stringify *)
Serialized(rows) == IF Kept(rows) = NoRows /\ format.blankParses THEN Blank ELSE Kept(rows)

(* parse, and the iteration over what it returns. *)
Parses(contents) ==
    \/ contents = Blank /\ format.blankParses
    \/ contents \in Tables /\ (format.singleBreaks => Cardinality(DOMAIN contents) # 1)

Parsed(contents) ==
    IF contents = Blank THEN NoRows
    ELSE [q \in {r \in DOMAIN contents : contents[r] \notin format.scalars} |-> contents[q]]

(* Mutant: get compares the keys, not the sets. *)
GetByKey(contents, q) ==
    LET rows == {r \in DOMAIN contents : r[2] = q[2]}
    IN  IF Parses(contents) /\ contents # Blank /\ rows # {}
        THEN contents[CHOOSE r \in rows : TRUE] ELSE Empty

(* A value as it is read back. *)
Readback(v) == IF v \in format.scalars THEN Empty ELSE v

(* get: the value returned for a query, Empty standing for no config. *)
Get(contents, q) ==
    IF Parses(contents) /\ q \in DOMAIN Parsed(contents) THEN Parsed(contents)[q] ELSE Empty

(* Mutant: the configs are appended to the stored ones. *)
StoredFirst(configs, rows) ==
    LET value(q) == IF q \in DOMAIN rows THEN rows[q] ELSE configs[q]
    IN  [q \in {r \in DOMAIN configs \cup DOMAIN rows : value(r) # Empty} |-> value(q)]

(* Mutant: the stored rows are left out. *)
WithoutStored(configs, rows) ==
    [q \in {r \in DOMAIN configs : configs[r] # Empty} |-> configs[q]]

(* uniqBy keeps the first, so the configs win over the stored rows. *)
NextRows(configs, rows) ==
    LET value(q) == IF q \in DOMAIN configs THEN configs[q] ELSE rows[q]
    IN  [q \in {r \in DOMAIN configs \cup DOMAIN rows : value(r) # Empty} |-> value(q)]

(* What contents and the tail of a longer text after it may parse to: rows *)
(* of the tail are added, or replace some, cut or in another set.          *)
Mixtures(contents) ==
    {Garbled : x \in format.mixture \cap {"rejected"}} \cup
    {t \in Tables : /\ "parsed" \in format.mixture
                    /\ DOMAIN contents \subseteq DOMAIN t /\ Shadowed(t) = {}}

(* What the file may hold once contents is written: another program may    *)
(* have written since this one emptied it.                                 *)
Outcomes(contents) ==
    IF contents = Blank THEN {file}
    ELSE {contents} \cup (IF file = Blank THEN {} ELSE Mixtures(contents))

(* The write of contents. *)
Put(contents) ==
    /\ file' \in Outcomes(contents)
    /\ mixed' = (mixed \/ ("parsed" \in format.mixture /\ file # Blank))

-----------------------------------------------------------------------------

Init ==
    /\ \E s \in Setups : format = s.format /\ users = s.users
    /\ file \in Tables \cup {Missing}
    /\ file \in Tables => Shadowed(file) = {}
    /\ Parses(file) \/ file = Missing
    /\ pc = [p \in Program |-> "idle"]
    /\ batch = [p \in Program |-> NoRows]
    /\ seen = [p \in Program |-> NoRows]
    /\ sets = 0
    /\ crashes = 0
    /\ expected = [q \in Query |-> Get(file, q)]
    /\ offered = {<<q, expected[q]>> : q \in Query}
    /\ raced = {}
    /\ mixed = FALSE

Active == {p \in Program : pc[p] # "idle"}

Goto(p, stage) == pc' = [pc EXCEPT ![p] = stage]

(* A command begins: store.init, then store.set(configs). *)
Start(p, configs) ==
    /\ p \in users
    /\ pc[p] = "idle"
    /\ sets < MaxSets
    /\ sets' = sets + 1
    /\ batch' = [batch EXCEPT ![p] = configs]
    /\ offered' = offered \cup {<<q, configs[q]>> : q \in DOMAIN configs}
    /\ raced' = (raced \ {p}) \cup Active \cup {r \in {p} : Active # {}}
    /\ Goto(p, "init")
    /\ UNCHANGED <<setup, file, seen, crashes, expected, mixed>>

(* Mutant: an empty file is initialised again. *)
AccessOrRepair(p) ==
    /\ pc[p] = "init"
    /\ Goto(p, IF file \in {Missing, Blank} THEN "create" ELSE "ready")
    /\ UNCHANGED <<setup, file, batch, seen, sets, crashes, offered, expected, raced, mixed>>

(* fs.access *)
Access(p) ==
    /\ pc[p] = "init"
    /\ Goto(p, IF file = Missing THEN "create" ELSE "ready")
    /\ UNCHANGED <<setup, file, batch, seen, sets, crashes, offered, expected, raced, mixed>>

(* fs.writeFile opens the file, which creates or empties it. *)
OpenFile(p) ==
    /\ \/ pc[p] = "create" /\ Goto(p, "initialise")
       \/ pc[p] = "read" /\ Goto(p, "write")
    /\ file' = Blank
    /\ UNCHANGED <<setup, batch, seen, sets, crashes, offered, expected, raced, mixed>>

(* fs.writeFile writes the initial file state. *)
Initialise(p) ==
    /\ pc[p] = "initialise"
    /\ Put(Serialized(NoRows))
    /\ Goto(p, "ready")
    /\ UNCHANGED <<setup, batch, seen, sets, crashes, offered, expected, raced>>

(* fs.readFile and parse, which may throw and reject the set. *)
ReadFile(p) ==
    /\ pc[p] = "ready"
    /\ \/ /\ Parses(file)
          /\ seen' = [seen EXCEPT ![p] = Parsed(file)]
          /\ Goto(p, "read")
       \/ /\ ~Parses(file)
          /\ Goto(p, "idle")
          /\ UNCHANGED seen
    /\ UNCHANGED <<setup, file, batch, sets, crashes, offered, expected, raced, mixed>>

(* What a set of p stores. *)
Written(p) == NextRows(batch[p], seen[p])

(* fs.writeFile writes the next rows. *)
WriteFile(p) ==
    /\ pc[p] = "write"
    /\ Put(Serialized(Written(p)))
    /\ expected' = [q \in Query |-> IF q \in DOMAIN batch[p] \cup Shadowed(Written(p))
                                    THEN ValueIn(Kept(Written(p)), q) ELSE expected[q]]
    /\ Goto(p, "written")
    /\ UNCHANGED <<setup, batch, seen, sets, crashes, offered, raced>>

(* The set resolves. *)
EndSet(p) ==
    /\ pc[p] = "written"
    /\ Goto(p, "idle")
    /\ UNCHANGED <<setup, file, batch, seen, sets, crashes, offered, expected, raced, mixed>>

Crash(p) ==
    /\ pc[p] # "idle"
    /\ crashes < MaxCrashes
    /\ crashes' = crashes + 1
    /\ Goto(p, "idle")
    /\ UNCHANGED <<setup, file, batch, seen, sets, offered, expected, raced, mixed>>

Next ==
    \E p \in Program :
        \/ \E configs \in Batches : Start(p, configs)
        \/ Access(p) \/ OpenFile(p) \/ Initialise(p) \/ ReadFile(p) \/ WriteFile(p)
        \/ EndSet(p)
        \/ Crash(p)

Spec == Init /\ [][Next]_vars

-----------------------------------------------------------------------------

(* Whatever crashes and races, a readable file holds for each config only  *)
(* a value that was given for it, unless two writes have overlapped in a   *)
(* format whose parser takes the mixture.                                  *)
ValuesStayHome ==
    ~mixed => \A q \in Query : Get(file, q) # Empty => <<q, Get(file, q)>> \in offered

(* A set that no other overlapped, once it resolves, has stored all it was *)
(* given as far as the format gives it back, and left the file readable    *)
(* unless it is an XML file of one config.  The exception in INI and TOML  *)
(* is a root key with the name of a stored set.                            *)
AckedIsStored ==
    [][\A p \in Program \ raced :
        pc[p] = "written" /\ pc'[p] = "idle" /\ crashes' = crashes =>
            \/ /\ Parses(file)
               /\ \A q \in DOMAIN batch[p] \ Shadowed(Written(p)) :
                     Get(file, q) = Readback(batch[p][q])
            \/ format.singleBreaks /\ Cardinality(DOMAIN Kept(Written(p))) = 1]_vars

Alone == Cardinality(users) = 1

(* A program has the file open for writing. *)
Open == \E p \in Program : pc[p] \in {"initialise", "write"}

(* One program: a crash in the middle of a set, or of the creation of the  *)
(* file, never passes for a change of configs: what can be read is what    *)
(* the last set stored.  Only a format that takes an empty file for no     *)
(* configs may lose some, and only while the file is open or once a        *)
(* program has crashed; even then no older value returns.                  *)
CrashIsNoticed ==
    Alone /\ (file = Missing \/ Parses(file)) =>
        \A q \in Query :
            \/ Get(file, q) = Readback(expected[q])
            \/ /\ format.blankParses /\ (Open \/ crashes > 0)
               /\ Get(file, q) = Empty

-----------------------------------------------------------------------------

(* While the file is open, or refused by parse, nobody can read anything   *)
(* else than what the last set stored.                                     *)
Abstract == INSTANCE ConfigStore WITH
    Client <- Program,
    store <- [q \in Query |-> IF Open \/ ~Parses(file) THEN expected[q] ELSE Get(file, q)],
    busy <- Active,
    pending <- [p \in Program |->
                    IF p \in Active /\ pc[p] # "written" THEN batch[p] ELSE NoRows],
    orphans <- {}

Shadows == \E p \in Program : pc[p] = "write" /\ pc'[p] = "written" /\ Shadowed(Written(p)) # {}

(* One program, crashes included, has a ConfigStore on a file whose format *)
(* gives every value back: a set takes effect at once, when the file is    *)
(* written, and one that crashes or cannot read the file changes nothing.  *)
(* A format that reads an empty file is excepted once a program crashed,   *)
(* and so is a write to INI or TOML in which a set has a root key's name.  *)
ImplementsConfigStore ==
    /\ Abstract!StoreInit
    /\ [][Alone /\ format.scalars = {} /\ (format.blankParses => crashes' = 0) /\ ~Shadows
            => Abstract!StoreNext]_Abstract!storeVars

=============================================================================
