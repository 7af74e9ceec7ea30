------------------------------- MODULE FileOrder -------------------------------
(***************************************************************************)
(* The order in which the files of a version are shown: by sortOrder, then   *)
(* by the time of creation (FULL_INCLUDE, assets.service.ts).  An upload     *)
(* takes the number of files it counted before it creates its row; a         *)
(* reordering numbers all files it has read by their places in the list it   *)
(* was sent, whatever else that list names (nextSortOrder, reorderFiles,     *)
(* files.service.ts).                                                        *)
(***************************************************************************)
EXTENDS Naturals, FiniteSets, Sequences, SequencesExt

CONSTANTS
    Arrivals,       \* files, in no order
    Sorters,        \* reorderings in flight
    MaxListed,      \* bound: ids in a reordering's list
    NotCounted

ASSUME FileOrderAssumption == NotCounted \notin Nat /\ MaxListed \in Nat

VARIABLES
    born,           \* the rows created, in that order
    kept,           \* those not deleted
    sortOrder,      \* each row's number
    counted,        \* the number each initiation has read
    sorting,        \* each reordering: the files it read, the ids it was sent
    sorted,         \* history: files numbered by a reordering
    padded,         \* history: those of them whose list was longer than the files were many
    raced,          \* history: files created after others than those counted
    thinned         \* history: whether a file was deleted

orderVars == <<born, kept, sortOrder, counted, sorting, sorted, padded, raced, thinned>>

Unborn == Arrivals \ ToSet(born)
NoSorting == [files |-> {}, listed |-> <<>>]
Before(f, g) == \E i, j \in DOMAIN born : i < j /\ born[i] = f /\ born[j] = g

OrderInit ==
    /\ born = <<>> /\ kept = {} /\ sortOrder = [f \in Arrivals |-> 0]
    /\ counted = [f \in Arrivals |-> NotCounted]
    /\ sorting = [t \in Sorters |-> NoSorting]
    /\ sorted = {} /\ padded = {} /\ raced = {} /\ thinned = FALSE

\* nextSortOrder
CountFiles(f) ==
    /\ f \in Unborn /\ counted[f] = NotCounted
    /\ counted' = [counted EXCEPT ![f] = Cardinality(kept)]
    /\ UNCHANGED <<born, kept, sortOrder, sorting, sorted, padded, raced, thinned>>

InsertFileRow(f) ==
    /\ f \in Unborn /\ counted[f] # NotCounted
    /\ born' = Append(born, f) /\ kept' = kept \cup {f}
    /\ sortOrder' = [sortOrder EXCEPT ![f] = counted[f]]
    /\ raced' = IF counted[f] = Cardinality(kept) THEN raced ELSE raced \cup {f}
    /\ UNCHANGED <<counted, sorting, sorted, padded, thinned>>

\* deleteFile, abortMultipart: the others keep their numbers.
DeleteFile(f) ==
    /\ f \in kept /\ kept' = kept \ {f} /\ thinned' = TRUE
    /\ UNCHANGED <<born, sortOrder, counted, sorting, sorted, padded, raced>>

\* reorderFiles reads the files; the list may leave some out, name one twice, and name
\* files that are gone, not there yet, or of another version.
ReadFiles(t, listed) ==
    /\ sorting[t] = NoSorting /\ kept # {}
    /\ sorting' = [sorting EXCEPT ![t] = [files |-> kept, listed |-> listed]]
    /\ UNCHANGED <<born, kept, sortOrder, counted, sorted, padded, raced, thinned>>

Places(f, listed) == {i \in 1 .. Len(listed) : listed[i] = f}

\* Mutant of Rank: those not listed are numbered from the number of all files on.
RankBehind(f, listed) ==
    IF Places(f, listed) # {} THEN CHOOSE i \in Places(f, listed) : TRUE ELSE Cardinality(kept) + 1

\* The last place in the list, counted from 0; those not listed all get the list's length.
Rank(f, listed) ==
    IF Places(f, listed) # {}
    THEN (CHOOSE i \in Places(f, listed) : \A j \in Places(f, listed) : j <= i) - 1
    ELSE Len(listed)

\* One transaction: it fails if a file it read is gone.
WriteOrder(t) ==
    /\ sorting[t] # NoSorting
    /\ IF sorting[t].files \subseteq kept
       THEN /\ sortOrder' = [f \in Arrivals |-> IF f \in sorting[t].files THEN Rank(f, sorting[t].listed)
                                                ELSE sortOrder[f]]
            /\ sorted' = sorted \cup sorting[t].files
            /\ padded' = IF Len(sorting[t].listed) > Cardinality(sorting[t].files)
                         THEN padded \cup sorting[t].files ELSE padded
       ELSE UNCHANGED <<sortOrder, sorted, padded>>
    /\ sorting' = [sorting EXCEPT ![t] = NoSorting]
    /\ UNCHANGED <<born, kept, counted, raced, thinned>>

OrderNext ==
    \/ \E f \in Arrivals : CountFiles(f) \/ InsertFileRow(f) \/ DeleteFile(f)
    \/ \E t \in Sorters : WriteOrder(t) \/ \E n \in 0 .. MaxListed : \E o \in [1 .. n -> Arrivals] : ReadFiles(t, o)

OrderSpec == OrderInit /\ [][OrderNext]_orderVars

-----------------------------------------------------------------------------
(* Properties.                                                             *)

\* A file that no reordering has placed is shown after those created before it
\* ("new uploads append to the end", FilesService.nextSortOrder), unless a file of the
\* version was deleted, others were created while they were counted, or the earlier one
\* was numbered from a list of more ids than there were files, which reorderFiles takes as
\* it is sent.
AppendsExplained ==
    \A f \in kept \ (sorted \cup raced), g \in kept :
        Before(g, f) => sortOrder[g] <= sortOrder[f] \/ thinned \/ g \in padded
=============================================================================
