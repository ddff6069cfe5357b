---------------------------- MODULE Participants ----------------------------
(***************************************************************************)
(* The participants that COUNT_PERCENT relates to (ma_participants.cpp):   *)
(* groups of applications, and all applications together.                  *)
(***************************************************************************)
EXTENDS Naturals, FiniteSets

NoParticipants == [groups |-> <<>>, all |-> {}]

\* The names that a group of a given size is filled with: the stream that puts them
\* together begins at its start for each, so that the number overwrites the group's
\* name and only what is longer of it is left.
Named(tail, n) == {<<i, tail>> : i \in 0 .. n - 1}

\* add_group(), which throws if there is such a group.
AddGroup(p, group, tail, n) ==
  [groups |-> [g \in DOMAIN p.groups \cup {group} |->
                 IF g = group THEN Named(tail, n) ELSE p.groups[g]],
   all |-> p.all \cup Named(tail, n)]

\* get_group_participant_count(), which throws without the group.
CountOfGroup(p, group) == Cardinality(p.groups[group])

\* What the message analyzer begins with.
InitParticipants ==
  AddGroup(AddGroup(NoParticipants, "dcm", "m", 8), "bn", "", 8)
=============================================================================
