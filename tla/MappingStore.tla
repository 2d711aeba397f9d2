---------------------------- MODULE MappingStore ----------------------------
(***************************************************************************)
(* The eni-manager's InterfaceMappingStore: the mappings of a node's ENIs, *)
(* two lookup maps (by PCI address and by interface name, which behave     *)
(* alike and are modelled by one), and the file that mirrors them.         *)
(*                                                                         *)
(* An operation changes the maps and writes the file under one mutex; the  *)
(* write truncates the file before it fills it, so it can fail, and the    *)
(* process can stop, with the file in between.                             *)
(***************************************************************************)
EXTENDS Naturals, FiniteSets

CONSTANTS
  ENIs,
  Addresses,   \* PCI addresses, or interface names
  None         \* no mapping, no entry; also an empty address

VARIABLES
  mappings,   \* the address in the mapping of an ENI; "absent" if it has no mapping
  index,      \* the lookup map: the ENI filed under an address
  file,       \* the mappings on disk
  torn,       \* the last write of the file was cut short: it holds no mappings
  saving,     \* an operation holds the mutex and has still to fill the file
  saved       \* history: the last operation returned without an error

vars == <<mappings, index, file, torn, saving, saved>>

Mappings == [ENIs -> Addresses \cup {None, "absent"}]

TypeOK ==
  /\ mappings \in Mappings
  /\ index \in [Addresses -> ENIs \cup {None}]
  /\ file \in Mappings
  /\ torn \in BOOLEAN
  /\ saving \in BOOLEAN
  /\ saved \in BOOLEAN

Empty == [e \in ENIs |-> "absent"]

NoIndex == [a \in Addresses |-> None]

Init ==
  /\ mappings = Empty /\ index = NoIndex
  /\ file = Empty /\ torn = FALSE
  /\ saving = FALSE /\ saved = TRUE

Has(e) == mappings[e] # "absent"

\* The entry a mapping makes in the lookup map; an empty address makes none.
Filed(idx, e, a) == IF a = None THEN idx ELSE [idx EXCEPT ![a] = e]

\* save begins: the file is opened and truncated, or cannot be opened.
BeginSave ==
  \/ saving' = TRUE /\ file' = Empty /\ torn' = TRUE /\ UNCHANGED saved
  \/ saved' = FALSE /\ UNCHANGED <<file, torn, saving>>

\* Mutant of AddMapping: an entry that is there is left alone.
AddMappingKept(e, a) ==
  /\ ~saving
  /\ mappings' = [mappings EXCEPT ![e] = a]
  /\ index' = IF a # None /\ index[a] # None THEN index ELSE Filed(index, e, a)
  /\ BeginSave

\* Stores the mapping and makes its entry, whichever ENI had one under the address.  The
\* entry of the ENI's former address, if there is one, stays.
AddMapping(e, a) ==
  /\ ~saving
  /\ mappings' = [mappings EXCEPT ![e] = a]
  /\ index' = Filed(index, e, a)
  /\ BeginSave

UpdateMapping(e, a) ==
  /\ Has(e)
  /\ AddMapping(e, a)

\* Mutant of RemoveMapping: the file is not written.
RemoveMappingUnsaved(e) ==
  /\ ~saving /\ Has(e)
  /\ mappings' = [mappings EXCEPT ![e] = "absent"]
  /\ index' = IF mappings[e] = None THEN index ELSE [index EXCEPT ![mappings[e]] = None]
  /\ saved' = TRUE
  /\ UNCHANGED <<file, torn, saving>>

\* The entry under the ENI's present address goes, whichever ENI it names.
RemoveMapping(e) ==
  /\ ~saving /\ Has(e)
  /\ mappings' = [mappings EXCEPT ![e] = "absent"]
  /\ index' = IF mappings[e] = None THEN index ELSE [index EXCEPT ![mappings[e]] = None]
  /\ BeginSave

\* save ends: the file is filled, or the write fails and the operation returns an error;
\* the maps keep the change either way.
EndSave ==
  /\ saving
  /\ saving' = FALSE
  /\ \/ file' = mappings /\ torn' = FALSE /\ saved' = TRUE
     \/ saved' = FALSE /\ UNCHANGED <<file, torn>>
  /\ UNCHANGED <<mappings, index>>

\* The process stops and starts again, in the middle of a save or between operations.
\* load rebuilds the lookup map in the file's order, which is any order; from a file it
\* cannot read it takes nothing.
Restart ==
  /\ mappings' = file
  /\ index' \in {i \in [Addresses -> ENIs \cup {None}] :
                   \A a \in Addresses :
                     LET at == {e \in ENIs : file[e] = a}
                     IN i[a] \in IF at = {} THEN {None} ELSE at}
  /\ saving' = FALSE
  /\ saved' = ~torn
  /\ UNCHANGED <<file, torn>>

Next ==
  \/ \E e \in ENIs, a \in Addresses \cup {None} : AddMapping(e, a) \/ UpdateMapping(e, a)
  \/ \E e \in ENIs : RemoveMapping(e)
  \/ EndSave
  \/ Restart

Spec == Init /\ [][Next]_vars

\* GetMappingByPCIAddress and GetMappingByInterfaceName: the ENI whose mapping the
\* lookup returns, or None.
Lookup(a) == IF index[a] # None /\ Has(index[a]) THEN index[a] ELSE None

-----------------------------------------------------------------------------
(* Properties *)

\* No two mappings have the same address.
Distinct ==
  \A d, e \in ENIs : d # e /\ Has(d) /\ Has(e) /\ mappings[d] # None => mappings[d] # mappings[e]

\* Each mapping is what the lookup by its address returns.
Indexed == \A e \in ENIs : Has(e) /\ mappings[e] # None => Lookup(mappings[e]) = e

\* GetMappingByPCIAddress finds every mapping by its address, although an update leaves the
\* entry of the former address behind and another ENI may get that address: so it is as long
\* as no two mappings ever have one address.  Nothing keeps two from having one; then the one
\* filed later has the entry, and takes it along when it is removed.
EveryMappingIsFound == []Distinct => []Indexed

\* After an operation that returned without an error the file holds the mappings: a
\* restart then loses nothing, and no removed mapping comes back.
SavedMeansDurable == ~saving /\ saved => ~torn /\ file = mappings

=============================================================================
