--------------------------- MODULE PackAllocation ---------------------------
(***************************************************************************)
(* allocate_packs(): which audioPackFormats, and which of their channels,  *)
(* the tracks of an audioObject stand for.                                 *)
(*                                                                         *)
(* A problem (Context) is a record                                         *)
(*   packs   a sequence of AllocationPacks, each with the root pack and a  *)
(*           sequence of channels; a channel has a channel format and the  *)
(*           packs that lead to it                                         *)
(*   tracks  a sequence of AllocationTracks with a channel and pack format *)
(*   refs    the packs that must be allocated, a sequence, or NoRefs       *)
(*   silent  the number of silent tracks, which are numbered after the     *)
(*           tracks                                                        *)
(*                                                                         *)
(* The search is recursive; here the calls that have not returned are the  *)
(* elements of a stack.  Each has its TempSolution and the choices that    *)
(* its loops have not tried yet.                                           *)
(***************************************************************************)
EXTENDS Integers, Sequences, FiniteSets

CONSTANTS
  Packs, Formats,   \* audioPackFormats and audioChannelFormats
  Problems,     \* the problems that may have to be solved
  NoRefs,       \* the absence of pack references
  MaxResults    \* max_results

VARIABLES
  problem,      \* the Context
  calls,        \* the calls of allocate_packs that have not returned
  results       \* the allocations found

allocVars == <<problem, calls, results>>

AllocationChannels == [format : Formats, packs : SUBSET Packs]

IsProblem(p) ==
  /\ p.packs \in Seq([root : Packs, channels : Seq(AllocationChannels)])
  /\ p.tracks \in Seq([format : Formats, pack : Packs])
  /\ p.refs # NoRefs => p.refs \in Seq(Packs)
  /\ p.silent \in Nat

ASSUME ProblemsAssumption == \A p \in Problems : IsProblem(p)

-----------------------------------------------------------------------------
(* A TempSolution: the references that have been used, the next track, the  *)
(* packs that may still be possible, and a sequence of parts, each a pack   *)
(* and, for each of its channels, the number of the track there or Free.    *)

Free == 0
TrackCount(p) == Len(p.tracks) + p.silent

EmptySolution(p) ==
  [refsDone |-> {}, next |-> 1, possible |-> DOMAIN p.packs, parts |-> <<>>]

Channels(p, k) == p.packs[k].channels

AllTracksUsed(p, s) == s.next > TrackCount(p)
IsSilent(p, t)      == t > Len(p.tracks)
SilentNow(p, s)     == IsSilent(p, s.next)
FreeChannels(part)  == {c \in DOMAIN part.at : part.at[c] = Free}
PartComplete(part)  == FreeChannels(part) = {}

CompleteSolution(p, s) ==
  /\ AllTracksUsed(p, s)
  /\ p.refs # NoRefs => s.refsDone = DOMAIN p.refs
  /\ \A i \in DOMAIN s.parts : PartComplete(s.parts[i])

\* track_possible()
Fits(channel, track) ==
  /\ channel.format = track.format
  /\ track.pack \in channel.packs

OpenRefs(p, s, k) ==
  {r \in DOMAIN p.refs \ s.refsDone : p.refs[r] = p.packs[k].root}

-----------------------------------------------------------------------------
(* update_packs_possible() *)

OpenChannels(s) == UNION {{i} \X FreeChannels(s.parts[i]) : i \in DOMAIN s.parts}

TracksLeft(p, s) == TrackCount(p) + 1 - s.next

\* Fault: open channels are not set aside.
AllTracksSpare(p, s) == TracksLeft(p, s)

\* Tracks that the channels allocated so far can do without.
SpareTracks(p, s) == TracksLeft(p, s) - Cardinality(OpenChannels(s))

SilentLeft(p, s) ==
  IF SilentNow(p, s) THEN TracksLeft(p, s) ELSE p.silent

\* Channels of pack k that none of the tracks left fits.
SilentRequired(p, s, k) ==
  {c \in DOMAIN Channels(p, k) :
     ~ \E t \in s.next .. Len(p.tracks) : Fits(Channels(p, k)[c], p.tracks[t])}

StillPossible(p, s, k) ==
  /\ p.refs # NoRefs => OpenRefs(p, s, k) # {}
  /\ Len(Channels(p, k)) <= SpareTracks(p, s)
  /\ LET required == Cardinality(SilentRequired(p, s, k))
     IN  required <= SpareTracks(p, s) /\ required <= SilentLeft(p, s)

UpdatePossible(p, s) ==
  [s EXCEPT !.possible = {k \in @ : StillPossible(p, s, k)}]

-----------------------------------------------------------------------------
(* The choices a call of allocate_packs tries, as pairs of a part and a     *)
(* channel; first, parts that are yet to be added.                          *)

NewChoice(k, c) == [new |-> TRUE,  which |-> k, channel |-> c]
OldChoice(i, c) == [new |-> FALSE, which |-> i, channel |-> c]

Before(a, b) ==
  \/ a.new /\ ~b.new
  \/ /\ a.new = b.new
     /\ \/ a.which < b.which
        \/ a.which = b.which /\ a.channel < b.channel

First(choices) == {a \in choices : \A b \in choices \ {a} : Before(a, b)}

\* Fault: a silent track may go to any channel.
AllSilent(choices) == choices

\* A silent track is tried in one place only.
OnlyFirst(choices) == First(choices)

\* try_alloc_new_pack(); s is as UpdatePossible left it
NewPackChoices(p, s) ==
  IF SilentNow(p, s)
  THEN {a \in OnlyFirst({NewChoice(k, 1) : k \in s.possible}) :
          /\ \A i \in DOMAIN s.parts : PartComplete(s.parts[i])
          /\ 1 \in DOMAIN Channels(p, a.which)}
  ELSE UNION {{NewChoice(k, c) :
                 c \in {d \in DOMAIN Channels(p, k) :
                          Fits(Channels(p, k)[d], p.tracks[s.next])}} :
              k \in s.possible}

\* try_alloc_track()
OldPartChoices(p, s) ==
  LET open == {OldChoice(o[1], o[2]) : o \in OpenChannels(s)}
  IN  IF SilentNow(p, s)
      THEN OnlyFirst(open)
      ELSE {a \in open :
              Fits(Channels(p, s.parts[a.which].pack)[a.channel], p.tracks[s.next])}

Untried(p, s) ==
  IF AllTracksUsed(p, s) THEN {}
  ELSE NewPackChoices(p, UpdatePossible(p, s)) \cup OldPartChoices(p, s)

\* What a choice makes of a solution.
AddPart(p, s, k) ==
  LET refs  == IF p.refs = NoRefs THEN {} ELSE OpenRefs(p, s, k)
      taken == {r \in refs : \A q \in refs : r <= q}
  IN  [UpdatePossible(p, s) EXCEPT
         !.refsDone = @ \cup taken,
         !.parts = Append(@, [pack |-> k,
                              at |-> [c \in DOMAIN Channels(p, k) |-> Free]])]

Put(s, i, c) ==
  [s EXCEPT !.parts[i].at[c] = s.next, !.next = @ + 1]

Chosen(p, s, a) ==
  IF a.new
  THEN LET added == AddPart(p, s, a.which)
       IN  Put(added, Len(added.parts), a.channel)
  ELSE Put(s, a.which, a.channel)

-----------------------------------------------------------------------------
(* The search. *)

Call(p, s) == [solution |-> s, choices |-> Untried(p, s)]

StartSearch(p) ==
  /\ problem' = p
  /\ calls' = <<Call(p, EmptySolution(p))>>
  /\ results' = <<>>

AllocInit ==
  \E p \in Problems :
    /\ problem = p
    /\ calls = <<Call(p, EmptySolution(p))>>
    /\ results = <<>>

Current == calls[Len(calls)]
Return  == SubSeq(calls, 1, Len(calls) - 1)

\* The tracks of a complete solution; silent ones have no number in it.
Allocation(p, s) ==
  [i \in DOMAIN s.parts |->
     [s.parts[i] EXCEPT !.at =
        [c \in DOMAIN @ |-> IF IsSilent(p, @[c]) THEN Free ELSE @[c]]]]

\* A solution is handed to the callback, which keeps it or stops the search.
Found ==
  /\ calls # <<>> /\ CompleteSolution(problem, Current.solution)
  /\ IF Len(results) < MaxResults
     THEN /\ results' = Append(results, Allocation(problem, Current.solution))
          /\ calls' = Return
     ELSE calls' = <<>> /\ UNCHANGED results
  /\ UNCHANGED problem

\* The next choice of the innermost call is tried.
Try ==
  /\ calls # <<>> /\ ~CompleteSolution(problem, Current.solution)
  /\ \E a \in First(Current.choices) :
       calls' = Append([calls EXCEPT ![Len(calls)].choices = @ \ {a}],
                       Call(problem, Chosen(problem, Current.solution, a)))
  /\ UNCHANGED <<problem, results>>

\* All have been tried.
GoBack ==
  /\ calls # <<>> /\ ~CompleteSolution(problem, Current.solution)
  /\ Current.choices = {}
  /\ calls' = Return
  /\ UNCHANGED <<problem, results>>

AllocNext == Found \/ Try \/ GoBack
AllocSpec == AllocInit /\ [][AllocNext]_allocVars

-----------------------------------------------------------------------------
(* What is asked for: some packs, one for each reference, such that each    *)
(* track is in a channel it fits and the silent tracks fill the others.     *)

\* Ways to choose packs, in an order that does not matter.
PackLists(p) ==
  IF p.refs # NoRefs
  THEN {f \in [DOMAIN p.refs -> DOMAIN p.packs] :
          \A r \in DOMAIN f : p.packs[f[r]].root = p.refs[r]}
  ELSE UNION {[1 .. n -> DOMAIN p.packs] : n \in 0 .. TrackCount(p)}

Places(p, f) == UNION {{i} \X DOMAIN Channels(p, f[i]) : i \in DOMAIN f}

\* Ways to put the tracks into the channels of these packs.
Placements(p, f) ==
  {g \in [DOMAIN p.tracks -> Places(p, f)] :
     /\ \A t \in DOMAIN g : Fits(Channels(p, f[g[t][1]])[g[t][2]], p.tracks[t])
     /\ \A t, u \in DOMAIN g : t # u => g[t] # g[u]}

Filled(p, f, g) ==
  [i \in DOMAIN f |->
     [pack |-> f[i],
      at |-> [c \in DOMAIN Channels(p, f[i]) |->
                IF \E t \in DOMAIN g : g[t] = <<i, c>>
                THEN CHOOSE t \in DOMAIN g : g[t] = <<i, c>>
                ELSE Free]]]

\* The parts of an allocation and how often each occurs.
AsBag(allocation) ==
  [part \in {allocation[i] : i \in DOMAIN allocation} |->
     Cardinality({i \in DOMAIN allocation : allocation[i] = part})]

ValidAllocations(p) ==
  UNION {{AsBag(Filled(p, f, g)) : g \in Placements(p, f)} :
         f \in {h \in PackLists(p) :
                  /\ Cardinality(Places(p, h)) = TrackCount(p)
                  /\ \A i \in DOMAIN h : Channels(p, h[i]) # <<>>}}

-----------------------------------------------------------------------------
(* Properties. *)

\* The search returns valid allocations, all different, and all there are if
\* there are no more than max_results: none is missed because a pack counted
\* as impossible or a silent track was tried in one place only, and none is
\* found twice, which would make a file ambiguous that is not.
SearchFindsAll ==
  calls = <<>> =>
    LET valid == ValidAllocations(problem)
        found == {AsBag(results[i]) : i \in DOMAIN results}
    IN  /\ found \subseteq valid
        /\ Cardinality(found) = Len(results)
        /\ Len(results) = IF Cardinality(valid) < MaxResults
                          THEN Cardinality(valid) ELSE MaxResults

\* Every track is in one channel, and it fits there.
SoundAllocation(p, a) ==
  /\ \A t \in DOMAIN p.tracks : \E i \in DOMAIN a : \E c \in DOMAIN a[i].at : a[i].at[c] = t
  /\ \A i \in DOMAIN a : \A c \in DOMAIN a[i].at : a[i].at[c] # Free =>
       /\ a[i].at[c] \in DOMAIN p.tracks
       /\ Fits(Channels(p, a[i].pack)[c], p.tracks[a[i].at[c]])
       /\ \A j \in DOMAIN a : \A d \in DOMAIN a[j].at :
            a[j].at[d] = a[i].at[c] => <<j, d>> = <<i, c>>

\* The part of SearchFindsAll that does not need counting: an allocation leaves
\* no track out, uses none twice, and puts none where it does not belong.
ResultsSound == \A r \in DOMAIN results : SoundAllocation(problem, results[r])

\* The assert() of update_packs_possible(): there is a track for each channel
\* that is still open, however packs and tracks were chosen so far.
NeverOvercommits ==
  \A i \in DOMAIN calls :
    Cardinality(OpenChannels(calls[i].solution)) <= TracksLeft(problem, calls[i].solution)
=============================================================================
