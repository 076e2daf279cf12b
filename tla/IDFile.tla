------------------------------- MODULE IDFile -------------------------------
(***************************************************************************)
(* nfs/pkg/volume/util.go: a map of used IDs under one mutex, and the file *)
(* with one block per ID under another.  The exporter keeps export blocks  *)
(* this way, the quotaer its projects.  Map and file are changed in        *)
(* separate steps.                                                         *)
(***************************************************************************)
EXTENDS Integers, FiniteSets

CONSTANTS
    Volumes,
    NoVolume,   \* owner of the block of the default ganesha configuration
    MaxID       \* math.MaxUint16

VARIABLES
    ids,       \* exportIDs or projectIDs
    file,      \* the blocks in the file
    toWrite,   \* what removeFromFile is about to write back, at most one content
    hung,      \* generateID has all IDs in use: it loops, the mutex held
    lost       \* rewriting lost blocks: "none", or "unread" until a new
               \* process or server is filled from what is left, then "read"

IDs == 0..MaxID
Block == [id : IDs, owner : Volumes \cup {NoVolume}]

IDFileTypeOK ==
    /\ ids \subseteq IDs
    /\ file \subseteq Block
    /\ toWrite \subseteq SUBSET Block
    /\ hung \in BOOLEAN
    /\ lost \in {"none", "unread", "read"}

Full == IDs \subseteq ids

\* The loop counts from 1 and wraps around to 0; with every ID in use it goes
\* round for ever, the mutex held.
IsNext(id) ==
    IF Full THEN id = 0
    ELSE id \notin ids /\ \A i \in IDs \ ids : i = 0 \/ (id # 0 /\ id <= i)

generateID(id) ==
    /\ ~hung
    /\ IsNext(id)
    /\ ids' = ids \cup {id}
    /\ hung' = Full
    /\ UNCHANGED <<file, toWrite, lost>>

deleteID(id) ==
    /\ ~hung
    /\ ids' = ids \ {id}
    /\ UNCHANGED <<file, toWrite, hung, lost>>

\* The file's mutex is held exactly while a removal is half done.
addToFile(block) ==
    /\ toWrite = {}
    /\ file' = file \cup {block}
    /\ UNCHANGED <<ids, toWrite, hung, lost>>

\* removeFromFile: WriteFile truncates the file, then writes.
truncate_Nothing(block) ==
    /\ toWrite = {}
    /\ toWrite' = {{}}
    /\ file' = {}
    /\ UNCHANGED <<ids, hung, lost>>
truncate(block) ==
    /\ toWrite = {}
    /\ toWrite' = {file \ {block}}
    /\ file' = {}
    /\ UNCHANGED <<ids, hung, lost>>

writeBack ==
    /\ \E content \in toWrite : file' = content
    /\ toWrite' = {}
    /\ UNCHANGED <<ids, hung, lost>>

\* What the loss of the blocks missing leaves of the file's record.
Loses(missing) == lost' = IF missing = {} \/ lost # "none" THEN lost ELSE "unread"

\* The write fails, with whatever it has written, and the process goes on.
writeFails ==
    /\ \E content \in toWrite : \E rest \in SUBSET content :
         file' = rest /\ Loses(content \ rest)
    /\ toWrite' = {}
    /\ UNCHANGED <<ids, hung>>

getExistingIDs(blocks) == {b.id : b \in blocks}

\* Whoever reads the file gets what earlier rewriting has left of it, and
\* nothing of a removal that it cuts off.
Reads == IF lost = "none" /\ toWrite = {} THEN lost ELSE "read"

\* A new process reads the file and, at its start, removes the blocks dropped;
\* errors of these removals are ignored, and mayFail allows for them.
reload_Empty(dropped, mayFail) ==
    /\ ids' = {}
    /\ file' = file \ dropped
    /\ lost' = Reads
    /\ toWrite' = {}
    /\ hung' = FALSE
reload(dropped, mayFail) ==
    /\ ids' = getExistingIDs(file) \ getExistingIDs(dropped)
    /\ \/ file' = file \ dropped /\ lost' = Reads
       \/ /\ mayFail /\ dropped # {}
          /\ \E rest \in SUBSET file :
               /\ file' = rest
               /\ lost' = IF Reads = "none" /\ ~(file \ dropped \subseteq rest)
                          THEN "unread" ELSE Reads
    /\ toWrite' = {}
    /\ hung' = FALSE

\* No two blocks of the file have the same ID.
Unambiguous == \A b, c \in file : b.id = c.id => b = c

\* The block is in the file, or will be when the removal under way is done.
Kept(block) == block \in file \/ \E content \in toWrite : block \in content
=============================================================================
