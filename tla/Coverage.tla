------------------------------- MODULE Coverage -------------------------------
(***************************************************************************)
(* scripts/coverage.py: the targets that the portfolio's manifest names    *)
(* for a probe, the entries that are left out with a reason, and whether   *)
(* both together account for everything the manifest says exists.          *)
(* A manifest is a sequence of entries; a field of an entry is a name, an  *)
(* explicit null, a value that is no name, or not there.                   *)
(***************************************************************************)
LOCAL INSTANCE Naturals
LOCAL INSTANCE Sequences
LOCAL INSTANCE SequencesExt

Null == "null"
Garbled == "garbled"
Lacking == "lacking"

\* The block of the section, if the file can be read and has one.
NoBlock == [readable |-> FALSE, entries |-> <<>>]
Block(entries) == [readable |-> TRUE, entries |-> entries]

\* A null is a statement about a package name, and has no reading for a repository.
Unusable(entry, section) ==
    \/ entry.value \in {Garbled, Lacking}
    \/ entry.value = Null /\ section = "repositories"

\* read_manifest ends the program: there is no list, it is empty, or one of its
\* entries cannot be read.
ManifestError(block, section) ==
    \/ ~block.readable
    \/ block.entries = <<>>
    \/ \E entry \in Range(block.entries) : Unusable(entry, section)

\* null_reason and omit_when: no package on the index, an archived repository.
OmittedBy(entry, section) ==
    \/ entry.value = Null
    \/ section = "repositories" /\ entry.archived

\* The positions of the targets, and of the entries that are left out.
ManifestTargets(block, section) ==
    {i \in DOMAIN block.entries : ~OmittedBy(block.entries[i], section)}
Omissions(block, section) ==
    {i \in DOMAIN block.entries : OmittedBy(block.entries[i], section)}

\* parse_allow_skip: a name without a reason ends the program.
SkipError(skips) == \E skip \in skips : ~skip.reasoned

SkipNames(skips) == {skip.name : skip \in skips}

\* unknown_skips.  An omitted entry is known by one name only: its id when it is
\* null, its value when it is archived.
OmissionName(entry) == IF entry.value = Null THEN entry.id ELSE entry.value
UnknownSkips(skips, block, section) ==
    SkipNames(skips)
        \ (UNION {{block.entries[i].id, block.entries[i].value} :
                      i \in ManifestTargets(block, section)}
            \cup {OmissionName(block.entries[i]) : i \in Omissions(block, section)})

\* split_allowed, by either name.
AllowedBy(entry, skips) == {entry.id, entry.value} \cap SkipNames(skips) # {}

\* Coverage.complete.
Complete(expected, accounted, skipped, missing) ==
    /\ missing = 0
    /\ accounted + skipped = expected
    /\ expected > 0

ExitIncomplete == 1
================================================================================
