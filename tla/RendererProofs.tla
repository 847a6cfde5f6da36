---------------------------- MODULE RendererProofs ----------------------------
(***************************************************************************)
(* Theorems about the renderer, for every set of documents, times, block   *)
(* sizes and delays.  The search of allocate_packs() never overcommits the *)
(* tracks, and what it finds leaves no track out and uses none twice; the  *)
(* output of the renderer is in step with its input and is what the        *)
(* document says.                                                          *)
(*                                                                         *)
(* The last needs four things, one section each: items are of channels on  *)
(* paths of the document; the interpolation points made of the times of an *)
(* item are audible when the document says so; a sample comes out of the   *)
(* adapter and the delay lines exactly DelaySamples after it has gone in;  *)
(* and the process pushes what comes out, from the first sample on.        *)
(***************************************************************************)
EXTENDS Renderer, SequenceLemmas, SequenceTheorems, FiniteSetTheorems

(* The search for allocations. *)

Parts     == [pack : Nat, at : UNION {[1 .. n -> Nat] : n \in Nat}]
Solutions == [refsDone : SUBSET Nat, next : Nat, possible : SUBSET Nat,
              parts : Seq(Parts)]

\* What the search knows of a solution: the tracks before the next one are
\* each in one channel, where they fit; there are tracks for the open channels.
SolutionOK(p, s) ==
  /\ s \in Solutions
  /\ s.next \in 1 .. TrackCount(p) + 1
  /\ s.possible \subseteq DOMAIN p.packs
  /\ \A i \in DOMAIN s.parts :
       /\ s.parts[i].pack \in DOMAIN p.packs
       /\ DOMAIN s.parts[i].at = DOMAIN Channels(p, s.parts[i].pack)
       /\ \A c \in DOMAIN s.parts[i].at : s.parts[i].at[c] < s.next
  /\ \A t \in 1 .. s.next - 1 :
       \E i \in DOMAIN s.parts : \E c \in DOMAIN s.parts[i].at : s.parts[i].at[c] = t
  /\ \A i, j \in DOMAIN s.parts :
       \A c \in DOMAIN s.parts[i].at, d \in DOMAIN s.parts[j].at :
         s.parts[i].at[c] = s.parts[j].at[d] /\ s.parts[i].at[c] # Free
           => i = j /\ c = d
  /\ \A i \in DOMAIN s.parts : \A c \in DOMAIN s.parts[i].at :
       s.parts[i].at[c] \in DOMAIN p.tracks =>
         Fits(Channels(p, s.parts[i].pack)[c], p.tracks[s.parts[i].at[c]])
  /\ IsFiniteSet(OpenChannels(s))
  /\ Cardinality(OpenChannels(s)) <= TracksLeft(p, s)

\* No part is without channels.
PartsUsed(s) == \A i \in DOMAIN s.parts : DOMAIN s.parts[i].at # {}

\* The same of what is returned; its packs are some of those given.
IsAllocation(p, a) ==
  /\ \E n \in Nat : DOMAIN a = 1 .. n
  /\ \A i \in DOMAIN a : a[i].pack \in DOMAIN p.packs /\ DOMAIN Channels(p, a[i].pack) # {}

\* The elements of a sequence.
LEMMA SequenceElement ==
  ASSUME NEW T, NEW r \in Seq(T), NEW j \in DOMAIN r
  PROVE  j \in 1 .. Len(r) /\ j \in Nat /\ r[j] \in T
OBVIOUS

\* The channels of a pack are numbered from 1.
LEMMA ChannelNumbers ==
  ASSUME NEW p, IsProblem(p), NEW k \in DOMAIN p.packs
  PROVE  /\ k \in Nat
         /\ Channels(p, k) \in Seq(AllocationChannels)
         /\ Len(Channels(p, k)) \in Nat
         /\ DOMAIN Channels(p, k) = 1 .. Len(Channels(p, k))
<1>1. p.packs \in Seq([root : Packs, channels : Seq(AllocationChannels)])
  BY DEF IsProblem
<1> DEFINE T == [root : Packs, channels : Seq(AllocationChannels)]
<1>2. p.packs \in Seq(T)
  BY <1>1
<1>3. k \in Nat /\ p.packs[k] \in T
  <2> HIDE DEF T
  <2> QED
    BY <1>2, SequenceElement
<1>4. Channels(p, k) \in Seq(AllocationChannels)
  BY <1>3 DEF Channels
<1> QED
  BY <1>3, <1>4

\* The number of tracks, real and silent.
LEMMA TrackNumbers ==
  ASSUME NEW p, IsProblem(p)
  PROVE  /\ Len(p.tracks) \in Nat /\ DOMAIN p.tracks = 1 .. Len(p.tracks)
         /\ TrackCount(p) \in Nat /\ Len(p.tracks) <= TrackCount(p)
<1>1. p.tracks \in Seq([format : Formats, pack : Packs]) /\ p.silent \in Nat
  BY DEF IsProblem
<1>2. Len(p.tracks) \in Nat /\ DOMAIN p.tracks = 1 .. Len(p.tracks)
  BY <1>1
<1> QED
  BY <1>1, <1>2 DEF TrackCount

\* The search starts with nothing allocated.
LEMMA EmptyOK ==
  ASSUME NEW p, IsProblem(p)
  PROVE  SolutionOK(p, EmptySolution(p)) /\ PartsUsed(EmptySolution(p))
<1> DEFINE s == EmptySolution(p)
<1>1. p.packs \in Seq([root : Packs, channels : Seq(AllocationChannels)])
  BY DEF IsProblem
<1>2. DOMAIN p.packs \subseteq Nat
  BY <1>1
<1>3. s \in Solutions /\ s.parts = <<>> /\ s.next = 1 /\ s.possible = DOMAIN p.packs
  BY <1>2 DEF EmptySolution, Solutions
<1>4. DOMAIN s.parts = {}
  BY <1>3
<1>5. OpenChannels(s) = {}
  BY <1>4 DEF OpenChannels
<1>6. IsFiniteSet(OpenChannels(s)) /\ Cardinality(OpenChannels(s)) = 0
  BY <1>5, FS_EmptySet
<1>7. TracksLeft(p, s) = TrackCount(p) /\ TrackCount(p) \in Nat
  BY <1>3, TrackNumbers DEF TracksLeft
<1> HIDE DEF s
<1>8. 1 .. s.next - 1 = {} /\ s.next \in 1 .. TrackCount(p) + 1
  BY <1>3, <1>7
<1>9. /\ \A i \in DOMAIN s.parts : FALSE
      /\ \A t \in 1 .. s.next - 1 : FALSE
      /\ Cardinality(OpenChannels(s)) <= TracksLeft(p, s)
      /\ s.possible \subseteq DOMAIN p.packs
  BY <1>3, <1>4, <1>6, <1>7, <1>8
<1>10. SolutionOK(p, s) /\ PartsUsed(s)
  BY <1>3, <1>6, <1>8, <1>9 DEF SolutionOK, PartsUsed
<1> QED
  BY <1>10 DEF s

\* Packs are only crossed out.
LEMMA UpdateOK ==
  ASSUME NEW p, IsProblem(p), NEW s, SolutionOK(p, s)
  PROVE  /\ UpdatePossible(p, s) \in Solutions
         /\ UpdatePossible(p, s).parts = s.parts
         /\ UpdatePossible(p, s).next = s.next
         /\ UpdatePossible(p, s).refsDone = s.refsDone
         /\ UpdatePossible(p, s).possible \subseteq DOMAIN p.packs
         /\ \A k \in UpdatePossible(p, s).possible : StillPossible(p, s, k)
<1> DEFINE Q == {k \in s.possible : StillPossible(p, s, k)}
<1>1. s \in Solutions /\ s.possible \subseteq DOMAIN p.packs
  BY DEF SolutionOK
<1>2. UpdatePossible(p, s) = [s EXCEPT !.possible = Q]
  BY DEF UpdatePossible
<1>3. Q \in SUBSET Nat /\ Q \subseteq DOMAIN p.packs /\ \A k \in Q : StillPossible(p, s, k)
  BY <1>1 DEF Solutions
<1> HIDE DEF Q
<1> QED
  BY <1>1, <1>2, <1>3 DEF Solutions

\* Adding a part keeps a track for each open channel; nothing moves.
LEMMA AddPartOK ==
  ASSUME NEW p, IsProblem(p), NEW s, SolutionOK(p, s),
         NEW k \in UpdatePossible(p, s).possible
  PROVE  LET new == AddPart(p, s, k)
             n   == Len(s.parts) + 1
         IN  /\ SolutionOK(p, new)
             /\ new.next = s.next
             /\ n \in DOMAIN new.parts /\ Len(new.parts) = n
             /\ new.parts[n].pack = k
             /\ DOMAIN new.parts[n].at = DOMAIN Channels(p, k)
             /\ \A c \in DOMAIN Channels(p, k) : new.parts[n].at[c] = Free
             /\ \A i \in DOMAIN new.parts : i # n =>
                  i \in DOMAIN s.parts /\ new.parts[i] = s.parts[i]
<1> DEFINE new == AddPart(p, s, k)
           n == Len(s.parts) + 1
           at == [c \in DOMAIN Channels(p, k) |-> Free]
           part == [pack |-> k, at |-> at]
<1>1. /\ s \in Solutions /\ s.parts \in Seq(Parts) /\ n \in Nat
      /\ DOMAIN s.parts = 1 .. (n - 1) /\ Len(s.parts) \in Nat
  BY DEF SolutionOK, Solutions
<1>2. /\ UpdatePossible(p, s) \in Solutions
      /\ UpdatePossible(p, s).parts = s.parts
      /\ UpdatePossible(p, s).next = s.next
      /\ UpdatePossible(p, s).possible \subseteq DOMAIN p.packs
      /\ StillPossible(p, s, k)
  BY UpdateOK
<1>3. k \in DOMAIN p.packs
  BY <1>2
<1>4. /\ k \in Nat /\ Len(Channels(p, k)) \in Nat
      /\ DOMAIN Channels(p, k) = 1 .. Len(Channels(p, k))
  BY <1>3, ChannelNumbers
<1>5. /\ at \in [1 .. Len(Channels(p, k)) -> Nat] /\ part \in Parts
      /\ DOMAIN at = DOMAIN Channels(p, k) /\ \A c \in DOMAIN at : at[c] = Free
  <2>1. /\ at \in [1 .. Len(Channels(p, k)) -> Nat]
        /\ DOMAIN at = DOMAIN Channels(p, k) /\ \A c \in DOMAIN at : at[c] = Free
    BY <1>4 DEF Free
  <2>2. [1 .. Len(Channels(p, k)) -> Nat] \in {[1 .. m -> Nat] : m \in Nat}
    BY <1>4
  <2>3. at \in UNION {[1 .. m -> Nat] : m \in Nat}
    <3> HIDE DEF at
    <3> QED
      BY <2>1, <2>2
  <2>4. part \in Parts
    <3> HIDE DEF at
    <3> QED
      BY <1>4, <2>3 DEF Parts
  <2> QED
    BY <2>1, <2>4
<1>6. \E R : new = [UpdatePossible(p, s) EXCEPT !.refsDone = R, !.parts = Append(s.parts, part)]
            /\ R \in SUBSET Nat
  <2> DEFINE refs == IF p.refs = NoRefs THEN {} ELSE OpenRefs(p, s, k)
             taken == {r \in refs : \A q \in refs : r <= q}
  <2>1. refs \subseteq Nat
    <3>1. CASE p.refs = NoRefs
      BY <3>1
    <3>2. CASE p.refs # NoRefs
      <4>1. p.refs \in Seq(Packs)
        BY <3>2 DEF IsProblem
      <4>2. DOMAIN p.refs \subseteq Nat
        BY <4>1
      <4> QED
        BY <3>2, <4>2 DEF OpenRefs
    <3> QED
      BY <3>1, <3>2
  <2>2. UpdatePossible(p, s).refsDone \cup taken \in SUBSET Nat
    BY <1>2, <2>1 DEF Solutions
  <2> QED
    BY <1>2, <2>2 DEF AddPart
<1>7. PICK R \in SUBSET Nat :
        new = [UpdatePossible(p, s) EXCEPT !.refsDone = R, !.parts = Append(s.parts, part)]
  BY <1>6
<1> HIDE DEF new, part, at
<1>8. /\ new \in Solutions /\ new.parts = Append(s.parts, part) /\ new.next = s.next
      /\ new.possible = UpdatePossible(p, s).possible
  <2>1. Append(s.parts, part) \in Seq(Parts)
    BY <1>1, <1>5
  <2>2. ASSUME NEW u \in Solutions, NEW q \in Seq(Parts),
               new = [u EXCEPT !.refsDone = R, !.parts = q]
        PROVE  new \in Solutions /\ new.parts = q /\ new.next = u.next
               /\ new.possible = u.possible
    BY <2>2 DEF Solutions
  <2> QED
    BY <1>2, <1>7, <2>1, <2>2
<1>9. /\ DOMAIN new.parts = 1 .. n /\ Len(new.parts) = n /\ n \in DOMAIN new.parts
      /\ \A i \in 1 .. n : IF i = n THEN new.parts[i] = part
                          ELSE i \in DOMAIN s.parts /\ new.parts[i] = s.parts[i]
  BY <1>1, <1>5, <1>8
<1>10. part.pack = k /\ part.at = at
  BY DEF part
<1>11. OpenChannels(new) = OpenChannels(s) \cup ({n} \X DOMAIN Channels(p, k))
  <2>1. FreeChannels(part) = DOMAIN Channels(p, k)
    BY <1>5, <1>10 DEF FreeChannels
  <2>2. \A i \in DOMAIN s.parts : i \in DOMAIN new.parts /\ new.parts[i] = s.parts[i]
    BY <1>1, <1>9
  <2>3. \A i \in DOMAIN new.parts : i = n \/ i \in DOMAIN s.parts
    BY <1>1, <1>9
  <2>4. new.parts[n] = part /\ n \in DOMAIN new.parts
    BY <1>9
  <2> QED
    BY <2>1, <2>2, <2>3, <2>4 DEF OpenChannels
<1>12. /\ IsFiniteSet(OpenChannels(new))
       /\ Cardinality(OpenChannels(new)) <= TracksLeft(p, new)
  <2> DEFINE more == {n} \X DOMAIN Channels(p, k)
  <2>1. /\ IsFiniteSet(DOMAIN Channels(p, k))
        /\ Cardinality(DOMAIN Channels(p, k)) = Len(Channels(p, k))
    <3>1. ASSUME NEW m \in Nat  PROVE IsFiniteSet(1 .. m) /\ Cardinality(1 .. m) = m
      BY FS_Interval
    <3> QED
      BY <1>4, <3>1
  <2>2. IsFiniteSet({n}) /\ Cardinality({n}) = 1
    BY FS_Singleton
  <2>3. IsFiniteSet(more) /\ Cardinality(more) = Len(Channels(p, k))
    <3>1. IsFiniteSet(more) /\ Cardinality(more) = 1 * Cardinality(DOMAIN Channels(p, k))
      BY <2>1, <2>2, FS_Product
    <3> QED
      BY <1>4, <2>1, <3>1
  <2>4. OpenChannels(s) \cap more = {}
    BY <1>1 DEF OpenChannels
  <2>5. IsFiniteSet(OpenChannels(s)) /\ Cardinality(OpenChannels(s)) \in Nat
    BY FS_CardinalityType DEF SolutionOK
  <2>6. /\ IsFiniteSet(OpenChannels(new))
        /\ Cardinality(OpenChannels(new)) = Cardinality(OpenChannels(s)) + Cardinality(more)
    <3> HIDE DEF more
    <3>1. /\ IsFiniteSet(OpenChannels(s) \cup more)
          /\ Cardinality(OpenChannels(s) \cup more)
               = Cardinality(OpenChannels(s)) + Cardinality(more)
                 - Cardinality(OpenChannels(s) \cap more)
      BY <2>3, <2>5, FS_Union
    <3>2. Cardinality(OpenChannels(s) \cap more) = 0
      BY <2>4, FS_EmptySet
    <3>3. OpenChannels(new) = OpenChannels(s) \cup more
      BY <1>11 DEF more
    <3> QED
      BY <1>4, <2>3, <2>5, <3>1, <3>2, <3>3
  <2>7. Len(Channels(p, k)) <= TracksLeft(p, s) - Cardinality(OpenChannels(s))
    BY <1>2 DEF StillPossible, SpareTracks
  <2>8. TracksLeft(p, new) = TracksLeft(p, s) /\ TracksLeft(p, s) \in Int
    BY <1>1, <1>8, TrackNumbers DEF TracksLeft, Solutions
  <2> QED
    BY <1>4, <2>3, <2>5, <2>6, <2>7, <2>8
<1>13. \A i \in DOMAIN new.parts :
         /\ new.parts[i].pack \in DOMAIN p.packs
         /\ DOMAIN new.parts[i].at = DOMAIN Channels(p, new.parts[i].pack)
         /\ \A c \in DOMAIN new.parts[i].at : new.parts[i].at[c] < new.next
  <2> TAKE i \in DOMAIN new.parts
  <2>1. CASE i = n
    <3>1. new.parts[i].pack = k /\ new.parts[i].at = at
      BY <1>9, <1>10, <2>1
    <3>2. 0 < new.next
      BY <1>8, TrackNumbers DEF SolutionOK
    <3> QED
      BY <1>3, <1>5, <3>1, <3>2 DEF Free
  <2>2. CASE i # n
    BY <1>8, <1>9, <2>2 DEF SolutionOK
  <2> QED
    BY <2>1, <2>2
<1>14. \A t \in 1 .. new.next - 1 :
         \E i \in DOMAIN new.parts : \E c \in DOMAIN new.parts[i].at : new.parts[i].at[c] = t
  <2> TAKE t \in 1 .. new.next - 1
  <2>1. PICK i \in DOMAIN s.parts : \E c \in DOMAIN s.parts[i].at : s.parts[i].at[c] = t
    BY <1>8 DEF SolutionOK
  <2>2. i \in DOMAIN new.parts /\ new.parts[i] = s.parts[i]
    BY <1>1, <1>9
  <2> QED
    BY <2>1, <2>2
<1>15. \A i, j \in DOMAIN new.parts :
         \A c \in DOMAIN new.parts[i].at, d \in DOMAIN new.parts[j].at :
           new.parts[i].at[c] = new.parts[j].at[d] /\ new.parts[i].at[c] # Free
             => i = j /\ c = d
  <2>1. \A c \in DOMAIN new.parts[n].at : new.parts[n].at[c] = Free
    BY <1>5, <1>9, <1>10
  <2>2. \A i \in DOMAIN new.parts : i # n => i \in DOMAIN s.parts /\ new.parts[i] = s.parts[i]
    BY <1>9
  <2> QED
    BY <2>1, <2>2 DEF SolutionOK
<1>16. \A i \in DOMAIN new.parts : \A c \in DOMAIN new.parts[i].at :
         new.parts[i].at[c] \in DOMAIN p.tracks =>
           Fits(Channels(p, new.parts[i].pack)[c], p.tracks[new.parts[i].at[c]])
  <2>1. \A c \in DOMAIN new.parts[n].at : new.parts[n].at[c] = Free
    BY <1>5, <1>9, <1>10
  <2>2. \A i \in DOMAIN new.parts : i # n => i \in DOMAIN s.parts /\ new.parts[i] = s.parts[i]
    BY <1>9
  <2>3. Free \notin DOMAIN p.tracks
    BY TrackNumbers DEF Free
  <2> QED
    BY <2>1, <2>2, <2>3 DEF SolutionOK
<1>17. SolutionOK(p, new)
  <2>1. new.next \in 1 .. TrackCount(p) + 1 /\ new.possible \subseteq DOMAIN p.packs
    BY <1>2, <1>8 DEF SolutionOK
  <2> QED
    BY <1>8, <1>12, <1>13, <1>14, <1>15, <1>16, <2>1 DEF SolutionOK
<1> QED
  BY <1>5, <1>8, <1>9, <1>10, <1>17 DEF new

\* A track is in one channel.
LEMMA OnePlace ==
  ASSUME NEW p, NEW s, SolutionOK(p, s),
         NEW i \in DOMAIN s.parts, NEW j \in DOMAIN s.parts,
         NEW c \in DOMAIN s.parts[i].at, NEW d \in DOMAIN s.parts[j].at,
         s.parts[i].at[c] = s.parts[j].at[d], s.parts[i].at[c] # Free
  PROVE  i = j /\ c = d
<1>1. \A k, l \in DOMAIN s.parts :
        \A e \in DOMAIN s.parts[k].at, f \in DOMAIN s.parts[l].at :
          s.parts[k].at[e] = s.parts[l].at[f] /\ s.parts[k].at[e] # Free
            => k = l /\ e = f
  BY DEF SolutionOK
<1> QED
  BY <1>1

\* Putting the next track into an open channel it fits.
LEMMA PutOK ==
  ASSUME NEW p, IsProblem(p), NEW s, SolutionOK(p, s),
         NEW i \in DOMAIN s.parts, NEW c \in DOMAIN s.parts[i].at,
         s.parts[i].at[c] = Free, ~AllTracksUsed(p, s),
         ~SilentNow(p, s) =>
           Fits(Channels(p, s.parts[i].pack)[c], p.tracks[s.next])
  PROVE  /\ SolutionOK(p, Put(s, i, c))
         /\ PartsUsed(s) => PartsUsed(Put(s, i, c))
<1> DEFINE new == Put(s, i, c)
           at == [s.parts[i].at EXCEPT ![c] = s.next]
           part == [s.parts[i] EXCEPT !.at = at]
<1>1. /\ s \in Solutions /\ s.parts \in Seq(Parts) /\ s.next \in Nat \ {0}
      /\ TrackCount(p) \in Nat /\ s.next <= TrackCount(p)
  BY TrackNumbers DEF SolutionOK, Solutions, AllTracksUsed
<1>2. s.parts[i] \in Parts
  BY <1>1, SequenceElement
<1>3. PICK m \in Nat : s.parts[i].at \in [1 .. m -> Nat]
  BY <1>2 DEF Parts
<1>4. /\ at \in [1 .. m -> Nat] /\ DOMAIN at = DOMAIN s.parts[i].at
      /\ \A d \in DOMAIN at : at[d] = IF d = c THEN s.next ELSE s.parts[i].at[d]
  BY <1>1, <1>3
<1>5. at \in UNION {[1 .. k -> Nat] : k \in Nat}
  <2>1. [1 .. m -> Nat] \in {[1 .. k -> Nat] : k \in Nat}
    OBVIOUS
  <2> HIDE DEF at
  <2> QED
    BY <1>4, <2>1
<1>6. new = [s EXCEPT !.parts = [s.parts EXCEPT ![i] = part], !.next = s.next + 1]
  BY DEF Put
<1>7. part \in Parts /\ part.at = at /\ part.pack = s.parts[i].pack
  <2> HIDE DEF at
  <2> QED
    BY <1>2, <1>5 DEF Parts
<1> HIDE DEF new, part, at
<1>8. /\ [s.parts EXCEPT ![i] = part] \in Seq(Parts)
      /\ DOMAIN [s.parts EXCEPT ![i] = part] = DOMAIN s.parts
  BY <1>1, <1>7
<1>9. /\ new \in Solutions /\ new.next = s.next + 1 /\ new.possible = s.possible
      /\ new.parts = [s.parts EXCEPT ![i] = part]
  <2>1. ASSUME NEW u \in Solutions, NEW q \in Seq(Parts), NEW t \in Nat,
               new = [u EXCEPT !.parts = q, !.next = t]
        PROVE  new \in Solutions /\ new.next = t /\ new.possible = u.possible
               /\ new.parts = q
    BY <2>1 DEF Solutions
  <2>2. s.next + 1 \in Nat
    BY <1>1
  <2> QED
    BY <1>1, <1>6, <1>8, <2>1, <2>2
<1>10. /\ DOMAIN new.parts = DOMAIN s.parts
       /\ \A j \in DOMAIN s.parts : new.parts[j] = IF j = i THEN part ELSE s.parts[j]
  BY <1>8, <1>9
<1>11. \A j \in DOMAIN s.parts :
         /\ new.parts[j].pack = s.parts[j].pack
         /\ DOMAIN new.parts[j].at = DOMAIN s.parts[j].at
         /\ \A d \in DOMAIN s.parts[j].at :
              new.parts[j].at[d] = IF j = i /\ d = c THEN s.next ELSE s.parts[j].at[d]
  BY <1>4, <1>7, <1>10
<1>12. \A j \in DOMAIN s.parts : \A d \in DOMAIN s.parts[j].at :
         s.parts[j].at[d] \in Nat /\ s.parts[j].at[d] < s.next
  <2> TAKE j \in DOMAIN s.parts
  <2>1. s.parts[j] \in Parts
    BY <1>1, SequenceElement
  <2>2. PICK k \in Nat : s.parts[j].at \in [1 .. k -> Nat]
    BY <2>1 DEF Parts
  <2> QED
    BY <2>2 DEF SolutionOK
<1>13. /\ IsFiniteSet(OpenChannels(new))
       /\ Cardinality(OpenChannels(new)) <= TracksLeft(p, new)
  <2>1. OpenChannels(new) = OpenChannels(s) \ {<<i, c>>}
    <3>1. \A j \in DOMAIN s.parts : \A d \in DOMAIN s.parts[j].at :
            new.parts[j].at[d] = Free <=> s.parts[j].at[d] = Free /\ ~(j = i /\ d = c)
      BY <1>1, <1>11 DEF Free
    <3>2. \A j \in DOMAIN s.parts :
            FreeChannels(new.parts[j]) = {d \in FreeChannels(s.parts[j]) : ~(j = i /\ d = c)}
      BY <1>11, <3>1 DEF FreeChannels
    <3>3. \A j \in DOMAIN s.parts :
            {j} \X FreeChannels(new.parts[j]) = ({j} \X FreeChannels(s.parts[j])) \ {<<i, c>>}
      BY <3>2
    <3>4. OpenChannels(new) = UNION {{j} \X FreeChannels(new.parts[j]) : j \in DOMAIN s.parts}
      BY <1>10 DEF OpenChannels
    <3> HIDE DEF new
    <3> QED
      BY <3>3, <3>4 DEF OpenChannels
  <2>2. <<i, c>> \in OpenChannels(s)
    <3>1. c \in FreeChannels(s.parts[i])
      BY DEF FreeChannels
    <3>2. <<i, c>> \in {i} \X FreeChannels(s.parts[i])
      BY <3>1
    <3> QED
      BY <3>2 DEF OpenChannels
  <2>3. IsFiniteSet(OpenChannels(s)) /\ Cardinality(OpenChannels(s)) \in Nat
        /\ Cardinality(OpenChannels(s)) <= TracksLeft(p, s)
    BY FS_CardinalityType DEF SolutionOK
  <2>4. /\ IsFiniteSet(OpenChannels(new))
        /\ Cardinality(OpenChannels(new)) = Cardinality(OpenChannels(s)) - 1
    <3> DEFINE open == OpenChannels(s)
               e == <<i, c>>
    <3>1. e \in open /\ IsFiniteSet(open) /\ OpenChannels(new) = open \ {e}
      BY <2>1, <2>2, <2>3
    <3> HIDE DEF open, e
    <3>2. IsFiniteSet(open \ {e}) /\ Cardinality(open \ {e}) = Cardinality(open) - 1
      BY <3>1, FS_RemoveElement
    <3> QED
      BY <3>1, <3>2 DEF open
  <2>5. TracksLeft(p, new) = TracksLeft(p, s) - 1 /\ TracksLeft(p, s) \in Int
    <3>1. /\ TracksLeft(p, new) = TrackCount(p) + 1 - new.next
          /\ TracksLeft(p, s) = TrackCount(p) + 1 - s.next
      BY DEF TracksLeft
    <3>2. new.next = s.next + 1 /\ s.next \in Nat /\ TrackCount(p) \in Nat
      BY <1>1, <1>9
    <3> HIDE DEF TracksLeft
    <3> QED
      BY <3>1, <3>2
  <2> QED
    BY <2>3, <2>4, <2>5
<1>14. \A j \in DOMAIN new.parts :
         /\ new.parts[j].pack \in DOMAIN p.packs
         /\ DOMAIN new.parts[j].at = DOMAIN Channels(p, new.parts[j].pack)
         /\ \A d \in DOMAIN new.parts[j].at : new.parts[j].at[d] < new.next
  <2> TAKE j \in DOMAIN new.parts
  <2>1. /\ s.parts[j].pack \in DOMAIN p.packs
        /\ DOMAIN s.parts[j].at = DOMAIN Channels(p, s.parts[j].pack)
    BY <1>10 DEF SolutionOK
  <2>2. \A d \in DOMAIN s.parts[j].at : new.parts[j].at[d] < new.next
    BY <1>1, <1>9, <1>10, <1>11, <1>12
  <2> QED
    BY <1>10, <1>11, <2>1, <2>2
<1>15. \A t \in 1 .. new.next - 1 :
         \E j \in DOMAIN new.parts : \E d \in DOMAIN new.parts[j].at : new.parts[j].at[d] = t
  <2> TAKE t \in 1 .. new.next - 1
  <2>1. CASE t = s.next
    BY <1>10, <1>11, <2>1
  <2>2. CASE t # s.next
    <3>1. t \in 1 .. s.next - 1
      BY <1>1, <1>9, <2>2
    <3>2. PICK j \in DOMAIN s.parts : \E d \in DOMAIN s.parts[j].at : s.parts[j].at[d] = t
      BY <3>1 DEF SolutionOK
    <3>3. PICK d \in DOMAIN s.parts[j].at : s.parts[j].at[d] = t
      BY <3>2
    <3>4. ~(j = i /\ d = c)
      BY <3>1, <3>3 DEF Free
    <3> QED
      BY <1>10, <1>11, <3>3, <3>4
  <2> QED
    BY <2>1, <2>2
<1>16. \A j, k \in DOMAIN new.parts :
         \A d \in DOMAIN new.parts[j].at, e \in DOMAIN new.parts[k].at :
           new.parts[j].at[d] = new.parts[k].at[e] /\ new.parts[j].at[d] # Free
             => j = k /\ d = e
  <2> SUFFICES ASSUME NEW j \in DOMAIN s.parts, NEW k \in DOMAIN s.parts,
                      NEW d \in DOMAIN s.parts[j].at, NEW e \in DOMAIN s.parts[k].at,
                      new.parts[j].at[d] = new.parts[k].at[e],
                      new.parts[j].at[d] # Free
               PROVE  j = k /\ d = e
    BY <1>10, <1>11
  <2>1. /\ s.parts[j].at[d] # s.next /\ s.parts[k].at[e] # s.next
    BY <1>1, <1>12
  <2>2. CASE j = i /\ d = c
    <3>1. new.parts[k].at[e] = s.next
      BY <1>11, <2>2
    <3> QED
      BY <1>11, <2>1, <2>2, <3>1
  <2>3. CASE ~(j = i /\ d = c)
    <3>1. new.parts[j].at[d] = s.parts[j].at[d]
      BY <1>11, <2>3
    <3>2. ~(k = i /\ e = c) /\ new.parts[k].at[e] = s.parts[k].at[e]
      BY <1>11, <2>1, <3>1
    <3>3. s.parts[j].at[d] = s.parts[k].at[e] /\ s.parts[j].at[d] # Free
      BY <3>1, <3>2
    <3> QED
      BY <3>3, OnePlace
  <2> QED
    BY <2>2, <2>3
<1>17. \A j \in DOMAIN new.parts : \A d \in DOMAIN new.parts[j].at :
         new.parts[j].at[d] \in DOMAIN p.tracks =>
           Fits(Channels(p, new.parts[j].pack)[d], p.tracks[new.parts[j].at[d]])
  <2> TAKE j \in DOMAIN new.parts
  <2> TAKE d \in DOMAIN new.parts[j].at
  <2>1. CASE j = i /\ d = c
    <3>1. new.parts[j].at[d] = s.next /\ new.parts[j].pack = s.parts[i].pack
      BY <1>11, <2>1
    <3>2. ASSUME s.next \in DOMAIN p.tracks  PROVE ~SilentNow(p, s)
      BY <3>2, TrackNumbers DEF SilentNow, IsSilent
    <3> QED
      BY <2>1, <3>1, <3>2
  <2>2. CASE ~(j = i /\ d = c)
    BY <1>10, <1>11, <2>2 DEF SolutionOK
  <2> QED
    BY <2>1, <2>2
<1>18. new.next \in 1 .. TrackCount(p) + 1 /\ new.possible \subseteq DOMAIN p.packs
  <2>1. s.next + 1 \in 1 .. TrackCount(p) + 1
    BY <1>1
  <2> QED
    BY <1>9, <2>1 DEF SolutionOK
<1>19. SolutionOK(p, new)
  BY <1>9, <1>13, <1>14, <1>15, <1>16, <1>17, <1>18 DEF SolutionOK
<1>20. PartsUsed(s) => PartsUsed(new)
  BY <1>10, <1>11 DEF PartsUsed
<1> QED
  BY <1>19, <1>20 DEF new

-----------------------------------------------------------------------------
(* The search. *)

\* Whatever a call may try makes another solution of this kind.
LEMMA ChosenOK ==
  ASSUME NEW p, IsProblem(p), NEW s, SolutionOK(p, s), NEW a \in Untried(p, s)
  PROVE  /\ SolutionOK(p, Chosen(p, s, a))
         /\ PartsUsed(s) => PartsUsed(Chosen(p, s, a))
<1>1. ~AllTracksUsed(p, s)
  BY DEF Untried
<1>2. CASE a \in NewPackChoices(p, UpdatePossible(p, s))
  <2> DEFINE u == UpdatePossible(p, s)
             new == AddPart(p, s, a.which)
             n == Len(s.parts) + 1
  <2>1. u.next = s.next /\ u.possible \subseteq DOMAIN p.packs
    BY UpdateOK
  <2>2. SilentNow(p, u) <=> SilentNow(p, s)
    BY <2>1 DEF SilentNow
  <2>3. /\ a.new = TRUE /\ a.which \in u.possible
        /\ a.channel \in DOMAIN Channels(p, a.which)
        /\ ~SilentNow(p, s) => Fits(Channels(p, a.which)[a.channel], p.tracks[s.next])
    <3>1. CASE SilentNow(p, s)
      <4>1. /\ a \in {NewChoice(k, 1) : k \in u.possible}
            /\ 1 \in DOMAIN Channels(p, a.which)
        BY <1>2, <2>2, <3>1 DEF NewPackChoices, OnlyFirst, First
      <4> QED
        BY <3>1, <4>1 DEF NewChoice
    <3>2. CASE ~SilentNow(p, s)
      <4>1. PICK k \in u.possible :
              a \in {NewChoice(k, c) :
                       c \in {d \in DOMAIN Channels(p, k) :
                                Fits(Channels(p, k)[d], p.tracks[u.next])}}
        BY <1>2, <2>2, <3>2 DEF NewPackChoices
      <4> QED
        BY <2>1, <4>1 DEF NewChoice
    <3> QED
      BY <3>1, <3>2
  <2>4. /\ SolutionOK(p, new) /\ new.next = s.next
        /\ n \in DOMAIN new.parts /\ Len(new.parts) = n /\ new.parts[n].pack = a.which
        /\ DOMAIN new.parts[n].at = DOMAIN Channels(p, a.which)
        /\ \A c \in DOMAIN Channels(p, a.which) : new.parts[n].at[c] = Free
        /\ \A i \in DOMAIN new.parts : i # n =>
             i \in DOMAIN s.parts /\ new.parts[i] = s.parts[i]
    BY <2>3, AddPartOK
  <2>5. ~AllTracksUsed(p, new) /\ (SilentNow(p, new) <=> SilentNow(p, s))
    BY <1>1, <2>4 DEF AllTracksUsed, SilentNow
  <2>6. Chosen(p, s, a) = Put(new, n, a.channel)
    BY <2>3, <2>4 DEF Chosen
  <2> HIDE DEF new, u
  <2>7. /\ SolutionOK(p, Put(new, n, a.channel))
        /\ PartsUsed(new) => PartsUsed(Put(new, n, a.channel))
    BY <2>3, <2>4, <2>5, PutOK
  <2>8. PartsUsed(s) => PartsUsed(new)
    <3>1. DOMAIN new.parts[n].at # {}
      BY <2>3, <2>4
    <3> QED
      BY <2>4, <3>1 DEF PartsUsed
  <2> QED
    BY <2>6, <2>7, <2>8
<1>3. CASE a \in OldPartChoices(p, s)
  <2>1. /\ a \in {OldChoice(o[1], o[2]) : o \in OpenChannels(s)}
        /\ ~SilentNow(p, s) =>
             Fits(Channels(p, s.parts[a.which].pack)[a.channel], p.tracks[s.next])
    BY <1>3 DEF OldPartChoices, OnlyFirst, First
  <2>2. PICK o \in OpenChannels(s) : a = OldChoice(o[1], o[2])
    BY <2>1
  <2>3. /\ a.new = FALSE /\ a.which \in DOMAIN s.parts
        /\ a.channel \in DOMAIN s.parts[a.which].at
        /\ s.parts[a.which].at[a.channel] = Free
    BY <2>2 DEF OldChoice, OpenChannels, FreeChannels
  <2>4. Chosen(p, s, a) = Put(s, a.which, a.channel)
    BY <2>3 DEF Chosen
  <2> QED
    BY <1>1, <2>1, <2>3, <2>4, PutOK
<1> QED
  BY <1>1, <1>2, <1>3 DEF Untried

\* A complete solution is an allocation as ResultsSound asks for.
LEMMA CompleteIsSound ==
  ASSUME NEW p, IsProblem(p), NEW s, SolutionOK(p, s), CompleteSolution(p, s)
  PROVE  /\ SoundAllocation(p, Allocation(p, s))
         /\ PartsUsed(s) => IsAllocation(p, Allocation(p, s))
<1> DEFINE a == Allocation(p, s)
<1>1. /\ DOMAIN a = DOMAIN s.parts
      /\ \A i \in DOMAIN s.parts :
           /\ a[i].pack = s.parts[i].pack /\ DOMAIN a[i].at = DOMAIN s.parts[i].at
           /\ \A c \in DOMAIN s.parts[i].at :
                a[i].at[c] = IF IsSilent(p, s.parts[i].at[c]) THEN Free ELSE s.parts[i].at[c]
  <2>1. s.parts \in Seq(Parts)
    BY DEF SolutionOK, Solutions
  <2>2. \A i \in DOMAIN s.parts : s.parts[i] \in Parts
    BY <2>1, SequenceElement
  <2> QED
    BY <2>2 DEF Allocation, Parts
<1> HIDE DEF a
<1>2. /\ Len(p.tracks) \in Nat /\ DOMAIN p.tracks = 1 .. Len(p.tracks)
      /\ TrackCount(p) \in Nat /\ Len(p.tracks) <= TrackCount(p)
  BY TrackNumbers
<1>3. s.next \in Nat /\ s.next = TrackCount(p) + 1
  BY <1>2 DEF SolutionOK, CompleteSolution, AllTracksUsed
<1>4. ASSUME NEW i \in DOMAIN s.parts, NEW c \in DOMAIN s.parts[i].at, a[i].at[c] # Free
      PROVE  /\ a[i].at[c] = s.parts[i].at[c] /\ s.parts[i].at[c] # Free
             /\ ~IsSilent(p, s.parts[i].at[c])
  BY <1>1, <1>4
<1>5. \A i \in DOMAIN s.parts : \A c \in DOMAIN s.parts[i].at : s.parts[i].at[c] \in Nat
  <2> TAKE i \in DOMAIN s.parts
  <2>1. s.parts \in Seq(Parts)
    BY DEF SolutionOK, Solutions
  <2>2. s.parts[i] \in Parts
    BY <2>1, SequenceElement
  <2>3. PICK k \in Nat : s.parts[i].at \in [1 .. k -> Nat]
    BY <2>2 DEF Parts
  <2> QED
    BY <2>3
<1>6. \A t \in DOMAIN p.tracks : \E i \in DOMAIN a : \E c \in DOMAIN a[i].at : a[i].at[c] = t
  <2> TAKE t \in DOMAIN p.tracks
  <2>1. t \in 1 .. s.next - 1 /\ ~IsSilent(p, t)
    BY <1>2, <1>3 DEF IsSilent
  <2>2. PICK i \in DOMAIN s.parts : \E c \in DOMAIN s.parts[i].at : s.parts[i].at[c] = t
    BY <2>1 DEF SolutionOK
  <2> QED
    BY <1>1, <2>1, <2>2
<1>7. ASSUME NEW i \in DOMAIN a, NEW c \in DOMAIN a[i].at, a[i].at[c] # Free
      PROVE  /\ a[i].at[c] \in DOMAIN p.tracks
             /\ Fits(Channels(p, a[i].pack)[c], p.tracks[a[i].at[c]])
             /\ \A j \in DOMAIN a : \A d \in DOMAIN a[j].at :
                  a[j].at[d] = a[i].at[c] => <<j, d>> = <<i, c>>
  <2>1. /\ i \in DOMAIN s.parts /\ c \in DOMAIN s.parts[i].at
        /\ a[i].at[c] = s.parts[i].at[c] /\ s.parts[i].at[c] # Free
        /\ ~IsSilent(p, s.parts[i].at[c]) /\ s.parts[i].at[c] \in Nat
    BY <1>1, <1>4, <1>5, <1>7
  <2>2. a[i].at[c] \in DOMAIN p.tracks
    BY <1>2, <2>1 DEF IsSilent, Free
  <2>3. Fits(Channels(p, a[i].pack)[c], p.tracks[a[i].at[c]])
    BY <1>1, <2>1, <2>2 DEF SolutionOK
  <2>4. ASSUME NEW j \in DOMAIN a, NEW d \in DOMAIN a[j].at, a[j].at[d] = a[i].at[c]
        PROVE  j = i /\ d = c
    <3>1. /\ j \in DOMAIN s.parts /\ d \in DOMAIN s.parts[j].at
          /\ a[j].at[d] = s.parts[j].at[d] /\ s.parts[j].at[d] # Free
      BY <1>1, <1>4, <1>7, <2>4
    <3>2. s.parts[i].at[c] = s.parts[j].at[d]
      BY <2>1, <2>4, <3>1
    <3>3. i = j /\ c = d
      BY <2>1, <3>1, <3>2, OnePlace
    <3> QED
      BY <3>3
  <2> QED
    BY <2>2, <2>3, <2>4
<1>8. SoundAllocation(p, a)
  BY <1>6, <1>7 DEF SoundAllocation
<1>9. PartsUsed(s) => IsAllocation(p, a)
  <2>1. \E n \in Nat : DOMAIN s.parts = 1 .. n
    <3>1. s.parts \in Seq(Parts)
      BY DEF SolutionOK, Solutions
    <3>2. Len(s.parts) \in Nat /\ DOMAIN s.parts = 1 .. Len(s.parts)
      BY <3>1
    <3> QED
      BY <3>2
  <2>2. \A i \in DOMAIN s.parts : s.parts[i].pack \in DOMAIN p.packs
                                /\ DOMAIN s.parts[i].at = DOMAIN Channels(p, s.parts[i].pack)
    BY DEF SolutionOK
  <2> QED
    BY <1>1, <2>1, <2>2 DEF PartsUsed, IsAllocation
<1> QED
  BY <1>8, <1>9 DEF a

\* What holds of the calls that have not returned and of what was found.
Moves == [new : BOOLEAN, which : Nat, channel : Nat]

CallOK(p, call) ==
  /\ SolutionOK(p, call.solution) /\ PartsUsed(call.solution)
  /\ call.choices \subseteq Untried(p, call.solution)

SearchInv ==
  /\ IsProblem(problem)
  /\ calls \in Seq([solution : Solutions, choices : SUBSET Moves])
  /\ \A i \in DOMAIN calls : CallOK(problem, calls[i])
  /\ \E T : results \in Seq(T)
  /\ ResultsSound
  /\ \A r \in DOMAIN results : IsAllocation(problem, results[r])

\* A call starts with choices of its own.
LEMMA CallIsOK ==
  ASSUME NEW p, IsProblem(p), NEW s, SolutionOK(p, s), PartsUsed(s)
  PROVE  /\ Call(p, s) \in [solution : Solutions, choices : SUBSET Moves]
         /\ Call(p, s).solution = s
         /\ CallOK(p, Call(p, s))
<1> DEFINE u == UpdatePossible(p, s)
<1>1. s \in Solutions
  BY DEF SolutionOK
<1>2. NewPackChoices(p, u) \subseteq Moves
  <2> SUFFICES ASSUME NEW a \in NewPackChoices(p, u)  PROVE a \in Moves
    OBVIOUS
  <2>1. \A k \in u.possible : k \in DOMAIN p.packs
    BY UpdateOK
  <2>2. \A k \in u.possible : k \in Nat /\ DOMAIN Channels(p, k) \subseteq Nat
    BY <2>1, ChannelNumbers
  <2> HIDE DEF u
  <2>3. CASE SilentNow(p, u)
    <3>1. PICK k \in u.possible : a = NewChoice(k, 1)
      BY <2>3 DEF NewPackChoices, OnlyFirst, First
    <3> QED
      BY <2>2, <3>1 DEF NewChoice, Moves
  <2>4. CASE ~SilentNow(p, u)
    <3>1. PICK k \in u.possible : \E c \in DOMAIN Channels(p, k) : a = NewChoice(k, c)
      BY <2>4 DEF NewPackChoices
    <3> QED
      BY <2>2, <3>1 DEF NewChoice, Moves
  <2> QED
    BY <2>3, <2>4
<1>3. OldPartChoices(p, s) \subseteq Moves
  <2> SUFFICES ASSUME NEW a \in OldPartChoices(p, s)  PROVE a \in Moves
    OBVIOUS
  <2>1. PICK o \in OpenChannels(s) : a = OldChoice(o[1], o[2])
    BY DEF OldPartChoices, OnlyFirst, First
  <2>2. PICK i \in DOMAIN s.parts : \E c \in DOMAIN s.parts[i].at : o = <<i, c>>
    BY <2>1 DEF OpenChannels, FreeChannels
  <2>3. i \in Nat /\ s.parts[i] \in Parts
    <3>1. s.parts \in Seq(Parts)
      BY <1>1 DEF Solutions
    <3> QED
      BY <3>1, SequenceElement
  <2>4. PICK k \in Nat : s.parts[i].at \in [1 .. k -> Nat]
    BY <2>3 DEF Parts
  <2>5. DOMAIN s.parts[i].at \subseteq Nat
    BY <2>4
  <2> QED
    BY <2>1, <2>2, <2>3, <2>5 DEF OldChoice, Moves
<1>4. Untried(p, s) \subseteq Moves
  BY <1>2, <1>3 DEF Untried
<1> QED
  BY <1>1, <1>4 DEF Call, CallOK

\* The stack without its top.
LEMMA ReturnOK ==
  ASSUME SearchInv, calls # <<>>
  PROVE  /\ Len(calls) \in DOMAIN calls
         /\ Return \in Seq([solution : Solutions, choices : SUBSET Moves])
         /\ \A i \in DOMAIN Return : CallOK(problem, Return[i])
<1> DEFINE n == Len(calls)
           F == [solution : Solutions, choices : SUBSET Moves]
<1>1. calls \in Seq(F) /\ \A i \in DOMAIN calls : CallOK(problem, calls[i])
  BY DEF SearchInv
<1> HIDE DEF F
<1>2. n \in Nat \ {0} /\ DOMAIN calls = 1 .. n
  BY <1>1
<1>3. /\ Return \in Seq(F) /\ DOMAIN Return = 1 .. (n - 1)
      /\ \A i \in 1 .. (n - 1) : Return[i] = calls[i]
  BY <1>1, <1>2 DEF Return
<1> QED
  BY <1>1, <1>2, <1>3 DEF F

\* The first call of a search.
LEMMA FirstCallOK ==
  ASSUME NEW p, IsProblem(p), NEW c, c = <<Call(p, EmptySolution(p))>>
  PROVE  /\ c \in Seq([solution : Solutions, choices : SUBSET Moves])
         /\ \A i \in DOMAIN c : CallOK(p, c[i]) /\ c[i] = Call(p, EmptySolution(p))
<1>1. /\ Call(p, EmptySolution(p)) \in [solution : Solutions, choices : SUBSET Moves]
      /\ CallOK(p, Call(p, EmptySolution(p)))
  BY EmptyOK, CallIsOK
<1> QED
  BY <1>1

LEMMA SearchInit == AllocInit => SearchInv
<1> SUFFICES ASSUME AllocInit  PROVE SearchInv
  OBVIOUS
<1>1. PICK p \in Problems :
        problem = p /\ calls = <<Call(p, EmptySolution(p))>> /\ results = <<>>
  BY DEF AllocInit
<1>2. IsProblem(p)
  BY <1>1, ProblemsAssumption
<1>4. /\ calls \in Seq([solution : Solutions, choices : SUBSET Moves])
      /\ \A i \in DOMAIN calls : CallOK(problem, calls[i])
  BY <1>1, <1>2, FirstCallOK
<1>5. results \in Seq({}) /\ DOMAIN results = {}
  BY <1>1
<1> QED
  BY <1>1, <1>2, <1>4, <1>5 DEF SearchInv, ResultsSound

LEMMA SearchNext == SearchInv /\ [AllocNext]_allocVars => SearchInv'
<1> SUFFICES ASSUME SearchInv, [AllocNext]_allocVars  PROVE SearchInv'
  OBVIOUS
<1> DEFINE F == [solution : Solutions, choices : SUBSET Moves]
           n == Len(calls)
<1>1. IsProblem(problem)
  BY DEF SearchInv
<1>2. calls \in Seq(F) /\ \A i \in DOMAIN calls : CallOK(problem, calls[i])
  BY DEF SearchInv
<1>3. CASE Found
  <2>1. calls # <<>> /\ CompleteSolution(problem, Current.solution) /\ problem' = problem
    BY <1>3 DEF Found
  <2>2. /\ n \in DOMAIN calls /\ Return \in Seq(F)
        /\ \A i \in DOMAIN Return : CallOK(problem, Return[i])
    BY <2>1, ReturnOK
  <2>3. SolutionOK(problem, Current.solution) /\ PartsUsed(Current.solution)
    BY <1>2, <2>2 DEF Current, CallOK
  <2>4. CASE Len(results) < MaxResults
    <3> DEFINE a == Allocation(problem, Current.solution)
    <3>1. results' = Append(results, a) /\ calls' = Return
      BY <1>3, <2>4 DEF Found
    <3>2. SoundAllocation(problem, a) /\ IsAllocation(problem, a)
      BY <1>1, <2>1, <2>3, CompleteIsSound
    <3>3. PICK T : results \in Seq(T)
      BY DEF SearchInv
    <3> HIDE DEF a
    <3>4. results \in Seq(T \cup {a})
      BY <3>3
    <3>5. /\ results' \in Seq(T \cup {a})
          /\ \A r \in DOMAIN results' :
               \/ r \in DOMAIN results /\ results'[r] = results[r]
               \/ results'[r] = a
      BY <3>1, <3>4
    <3>6. ResultsSound' /\ \A r \in DOMAIN results' : IsAllocation(problem, results'[r])
      BY <2>1, <3>2, <3>5 DEF ResultsSound, SearchInv
    <3> QED
      BY <1>1, <2>1, <2>2, <3>1, <3>5, <3>6 DEF SearchInv
  <2>5. CASE ~(Len(results) < MaxResults)
    <3>1. calls' = <<>> /\ results' = results
      BY <1>3, <2>5 DEF Found
    <3>2. calls' \in Seq(F) /\ DOMAIN calls' = {}
      BY <3>1
    <3> QED
      BY <1>1, <2>1, <3>1, <3>2 DEF SearchInv, ResultsSound
  <2> QED
    BY <2>4, <2>5
<1>4. CASE Try
  <2>1. PICK a \in First(Current.choices) :
          calls' = Append([calls EXCEPT ![n].choices = @ \ {a}],
                          Call(problem, Chosen(problem, Current.solution, a)))
    BY <1>4 DEF Try
  <2>2. calls # <<>> /\ problem' = problem /\ results' = results
    BY <1>4 DEF Try
  <2>3. n \in DOMAIN calls
    BY <2>2, ReturnOK
  <2>4. calls[n] \in F /\ CallOK(problem, calls[n]) /\ Current = calls[n]
    <3> HIDE DEF F
    <3> QED
      BY <1>2, <2>3, SequenceElement DEF Current
  <2>5. a \in Untried(problem, Current.solution)
    BY <2>1, <2>4 DEF First, CallOK
  <2> DEFINE call == Call(problem, Chosen(problem, Current.solution, a))
             rest == [calls[n] EXCEPT !.choices = @ \ {a}]
  <2>6. call \in F /\ CallOK(problem, call)
    BY <1>1, <2>4, <2>5, ChosenOK, CallIsOK DEF CallOK
  <2>7. rest \in F /\ CallOK(problem, rest)
    BY <2>4 DEF CallOK
  <2>8. calls' = Append([calls EXCEPT ![n] = rest], call)
    BY <2>1
  <2> HIDE DEF call, rest, F
  <2>9. /\ [calls EXCEPT ![n] = rest] \in Seq(F) /\ n \in Nat
        /\ DOMAIN calls = 1 .. n
        /\ Len([calls EXCEPT ![n] = rest]) = n
        /\ \A i \in 1 .. n : [calls EXCEPT ![n] = rest][i] = IF i = n THEN rest ELSE calls[i]
    BY <1>2, <2>3, <2>7
  <2>10. /\ calls' \in Seq(F)
         /\ \A i \in DOMAIN calls' : \/ i \in DOMAIN calls /\ calls'[i] = calls[i]
                                    \/ calls'[i] = rest
                                    \/ calls'[i] = call
    BY <2>6, <2>8, <2>9
  <2>11. \A i \in DOMAIN calls' : CallOK(problem, calls'[i])
    BY <1>2, <2>6, <2>7, <2>10
  <2>12. /\ (\E T : results' \in Seq(T)) /\ ResultsSound'
         /\ \A r \in DOMAIN results' : IsAllocation(problem, results'[r])
    BY <2>2 DEF SearchInv, ResultsSound
  <2> QED
    BY <1>1, <2>2, <2>10, <2>11, <2>12 DEF SearchInv, F
<1>5. CASE GoBack
  <2>1. /\ calls # <<>> /\ calls' = Return
        /\ problem' = problem /\ results' = results
    BY <1>5 DEF GoBack
  <2>2. /\ Return \in Seq(F)
        /\ \A i \in DOMAIN Return : CallOK(problem, Return[i])
    BY <2>1, ReturnOK
  <2> QED
    BY <1>1, <2>1, <2>2 DEF SearchInv, ResultsSound
<1>6. CASE UNCHANGED allocVars
  BY <1>6 DEF allocVars, SearchInv, ResultsSound
<1> QED
  BY <1>3, <1>4, <1>5, <1>6 DEF AllocNext

LEMMA SearchInvariant == AllocSpec => []SearchInv
  BY SearchInit, SearchNext, PTL DEF AllocSpec

\* However packs and tracks are chosen, there is a track for each channel that
\* is still open, as update_packs_possible() asserts.
THEOREM NeverOvercommitted == AllocSpec => []NeverOvercommits
<1>1. SearchInv => NeverOvercommits
  BY DEF SearchInv, CallOK, SolutionOK, NeverOvercommits
<1> QED
  BY <1>1, SearchInvariant, PTL

\* Every allocation that is returned has each track in one channel, where it
\* fits.
THEOREM AllocationsAreSound == AllocSpec => []ResultsSound
<1>1. SearchInv => ResultsSound
  BY DEF SearchInv
<1> QED
  BY <1>1, SearchInvariant, PTL

-----------------------------------------------------------------------------
(* Items. *)

\* An item that has a renderer, of a channel on a path of the document.
IsItem(d, s, x) ==
  /\ x.type \in {"Objects", "DirectSpeakers", "HOA"}
  /\ x.channels[1].path.selection \in ToSet(Selections(d, s))
  /\ x.channels[1].path.channel \in Formats

\* select_items() as far as it has come.
ItemsInv ==
  /\ doc \in Documents /\ start \in Starts[doc]
  /\ agenda \in Seq(ToSet(Selections(doc, start)))
  /\ phase # "allocate" => calls = <<>>
  /\ phase = "allocate" => /\ agenda # <<>> /\ problem = AllocationProblem(doc, Head(agenda))
                           /\ SearchInv
  /\ \E T : items \in Seq(T) /\ \A x \in T : IsItem(doc, start, x)

LEMMA HeadOfAgenda ==
  ASSUME NEW T, NEW q \in Seq(T), q # <<>>
  PROVE  Head(q) \in T /\ Tail(q) \in Seq(T)
OBVIOUS

\* The items of an allocated pack.
LEMMA ItemsOfPack ==
  ASSUME NEW d, NEW s, NEW sel \in ToSet(Selections(d, s)),
         problem = AllocationProblem(d, sel), IsProblem(problem),
         NEW part, part.pack \in DOMAIN problem.packs,
         DOMAIN Channels(problem, part.pack) # {}, PackOK(d, sel, part)
  PROVE  /\ GetRenderingItems(d, sel, part) \in Seq(ToSet(GetRenderingItems(d, sel, part)))
         /\ \A x \in ToSet(GetRenderingItems(d, sel, part)) : IsItem(d, s, x)
<1> DEFINE k == part.pack
           channels == PackChannels(d, problem.packs[k].root)
           its == PackItems(d, sel, part)
           G == GetRenderingItems(d, sel, part)
           n == Len(Channels(problem, k))
<1>1. /\ Channels(problem, k) \in Seq(AllocationChannels) /\ n \in Nat
      /\ DOMAIN Channels(problem, k) = 1 .. n
  BY ChannelNumbers
<1>2. problem.packs[k] = AllocationPack(d, problem.packs[k].root)
  <2>1. problem.packs = [j \in DOMAIN d.packs |-> AllocationPack(d, d.packs[j])]
    BY DEF AllocationProblem
  <2>2. k \in DOMAIN d.packs
    BY <2>1
  <2>3. problem.packs[k] = AllocationPack(d, d.packs[k])
    BY <2>1, <2>2
  <2>4. AllocationPack(d, d.packs[k]).root = d.packs[k]
    BY DEF AllocationPack
  <2> QED
    BY <2>3, <2>4
<1> DEFINE record(c) == [format |-> channels[c].format, packs |-> ToSet(channels[c].path)]
           records == [c \in DOMAIN channels |-> record(c)]
<1>3. Channels(problem, k) = records
  <2>1. AllocationPack(d, problem.packs[k].root).channels = records
    BY DEF AllocationPack
  <2>2. Channels(problem, k) = problem.packs[k].channels
    BY DEF Channels
  <2> HIDE DEF records
  <2> QED
    BY <1>2, <2>1, <2>2
<1>4. /\ DOMAIN channels = 1 .. n /\ n # 0
      /\ \A c \in 1 .. n : Channels(problem, k)[c].format = channels[c].format
  <2>1. DOMAIN records = DOMAIN channels
    OBVIOUS
  <2>2. \A c \in DOMAIN channels : records[c].format = channels[c].format
    OBVIOUS
  <2> HIDE DEF records, channels, n
  <2>3. DOMAIN channels = 1 .. n /\ \A c \in 1 .. n : Channels(problem, k)[c].format = channels[c].format
    BY <1>1, <1>3, <2>1, <2>2
  <2>4. n # 0
    <3>1. SUFFICES ASSUME n = 0 PROVE FALSE
      OBVIOUS
    <3>2. 1 .. n = {}
      BY <3>1
    <3>3. DOMAIN Channels(problem, k) = {}
      BY <1>1, <3>2
    <3> QED
      BY <3>3
  <2> QED
    BY <2>3, <2>4
<1>5. \A c \in 1 .. n : channels[c].format \in Formats
  <2> TAKE c \in 1 .. n
  <2>1. Channels(problem, k)[c] \in AllocationChannels
    BY <1>1
  <2>2. Channels(problem, k)[c].format \in Formats
    BY <2>1 DEF AllocationChannels
  <2> QED
    BY <1>4, <2>2
<1>6. /\ DOMAIN its = 1 .. n
      /\ \A c \in 1 .. n : its[c].path.selection = sel /\ its[c].path.channel \in Formats
  BY <1>4, <1>5 DEF PackItems
<1> HIDE DEF n, channels
<1>7. PackType(d, part) \in {"Objects", "DirectSpeakers", "HOA"}
  BY DEF PackOK
<1>8. CASE PackType(d, part) = "HOA"
  <2> DEFINE x == [type |-> "HOA", channels |-> its]
  <2>1. G = <<x>>
    BY <1>8 DEF GetRenderingItems
  <2>2. 1 \in 1 .. n
    BY <1>1, <1>4
  <2>3. x.type = "HOA" /\ x.channels = its
    OBVIOUS
  <2> HIDE DEF x, its
  <2>4. IsItem(d, s, x)
    BY <1>6, <2>2, <2>3 DEF IsItem
  <2>5. <<x>> \in Seq({x}) /\ ToSet(<<x>>) = {x}
    BY DEF ToSet
  <2> QED
    BY <2>1, <2>4, <2>5
<1>9. CASE PackType(d, part) # "HOA"
  <2> DEFINE x(c) == [type |-> PackType(d, part), channels |-> <<its[c]>>]
  <2>1. G = [c \in 1 .. n |-> x(c)]
    BY <1>6, <1>9 DEF GetRenderingItems
  <2>2. \A c : x(c).type = PackType(d, part) /\ x(c).channels[1] = its[c]
    OBVIOUS
  <2> HIDE DEF x, its, G
  <2>3. \A c \in 1 .. n : IsItem(d, s, x(c))
    BY <1>6, <1>7, <2>2 DEF IsItem
  <2>4. DOMAIN G = 1 .. n /\ \A c \in 1 .. n : G[c] = x(c)
    BY <2>1
  <2>5. \A y \in ToSet(G) : IsItem(d, s, y)
    BY <2>3, <2>4 DEF ToSet
  <2>6. G \in [1 .. n -> ToSet(G)]
    BY <2>1, <2>4 DEF ToSet
  <2>7. G \in Seq(ToSet(G))
    BY <1>1, <2>6, FunctionIsSeq DEF n
  <2> QED
    BY <2>5, <2>7 DEF G
<1> QED
  BY <1>8, <1>9

\* FlattenSeq() of sequences of items.
LEMMA FlattenElements ==
  ASSUME NEW n \in Nat, NEW q, q = [i \in 1 .. n |-> q[i]],
         \A i \in 1 .. n : q[i] \in Seq(ToSet(q[i]))
  PROVE  FlattenSeq(q) \in Seq(UNION {ToSet(q[i]) : i \in 1 .. n})
<1> DEFINE T == UNION {ToSet(q[i]) : i \in 1 .. n}
<1>1. ASSUME NEW i \in 1 .. n PROVE q[i] \in Seq(T)
  <2>1. ToSet(q[i]) \subseteq T
    OBVIOUS
  <2> HIDE DEF T
  <2>2. q[i] \in [1 .. Len(q[i]) -> ToSet(q[i])] /\ Len(q[i]) \in Nat
    BY SMT
  <2>3. q[i] \in [1 .. Len(q[i]) -> T]
    BY <2>1, <2>2
  <2> QED
    BY <2>2, <2>3, FunctionIsSeq
<1> HIDE DEF T
<1>2. q \in [1 .. n -> Seq(T)]
  BY <1>1
<1>3. q \in Seq(Seq(T))
  BY <1>2, FunctionIsSeq
<1>4. <<>> \in Seq(T)
  OBVIOUS
<1> QED
  BY <1>3, <1>4, FlattenAppend DEF T

LEMMA ItemsInit == RIInit => ItemsInv
<1> SUFFICES ASSUME RIInit PROVE ItemsInv
  OBVIOUS
<1>1. doc \in Documents /\ start \in Starts[doc] /\ phase = "select" /\ calls = <<>>
      /\ items = <<>> /\ agenda = Selections(doc, start)
  BY DEF RIInit
<1>2. agenda \in Seq(ToSet(Selections(doc, start)))
  BY <1>1, DocumentsAssumption
<1>3. items \in Seq({}) /\ \A x \in {} : IsItem(doc, start, x)
  BY <1>1
<1>4. \E T : items \in Seq(T) /\ \A x \in T : IsItem(doc, start, x)
  BY <1>3
<1>5. phase # "allocate"
  BY <1>1
<1> HIDE DEF RIInit
<1> QED
  BY <1>1, <1>2, <1>4, <1>5 DEF ItemsInv

LEMMA ItemsNext == ItemsInv /\ [RINext]_riVars => ItemsInv'
<1> SUFFICES ASSUME ItemsInv, [RINext]_riVars PROVE ItemsInv'
  OBVIOUS
<1> DEFINE All == ToSet(Selections(doc, start))
           sel == Head(agenda)
<1>1. /\ doc \in Documents /\ start \in Starts[doc] /\ agenda \in Seq(All)
      /\ \E T : items \in Seq(T) /\ \A x \in T : IsItem(doc, start, x)
  BY DEF ItemsInv
<1>2. agenda # <<>> => sel \in All /\ Tail(agenda) \in Seq(All)
  BY <1>1, HeadOfAgenda
<1> HIDE DEF All
<1>3. CASE SelectPackMapping
  <2>1. phase = "select" /\ agenda # <<>> /\ UNCHANGED <<doc, start, agenda, items>>
    BY <1>3 DEF SelectPackMapping
  <2>2. CASE \E t \in ToSet(TracksOf(doc, sel)) : ChannelOf(doc, t) = None
    <3>1. phase' = "failed" /\ UNCHANGED allocVars
      BY <1>3, <2>2 DEF SelectPackMapping
    <3>2. calls' = <<>>
      BY <2>1, <3>1 DEF ItemsInv, allocVars
    <3> QED
      BY <1>1, <2>1, <3>1, <3>2 DEF ItemsInv, All
  <2>3. CASE \A t \in ToSet(TracksOf(doc, sel)) : ChannelOf(doc, t) # None
    <3> DEFINE p == AllocationProblem(doc, sel)
    <3>1. phase' = "allocate" /\ StartSearch(p)
      BY <1>3, <2>3 DEF SelectPackMapping
    <3>2. IsProblem(p)
      BY <1>1, <1>2, <2>1, <2>3, DocumentsAssumption DEF All
    <3> HIDE DEF p
    <3>3. problem' = p /\ calls' = <<Call(p, EmptySolution(p))>> /\ results' = <<>>
      BY <3>1 DEF StartSearch
    <3>4. /\ calls' \in Seq([solution : Solutions, choices : SUBSET Moves])
          /\ \A i \in DOMAIN calls' : CallOK(problem', calls'[i])
      BY <3>2, <3>3, FirstCallOK
    <3>5. results' \in Seq({}) /\ DOMAIN results' = {}
      BY <3>3
    <3>6. SearchInv'
      BY <3>2, <3>3, <3>4, <3>5 DEF SearchInv, ResultsSound
    <3>7. p = AllocationProblem(doc, Head(agenda))
      BY DEF p
    <3> QED
      BY <1>1, <2>1, <3>1, <3>3, <3>6, <3>7 DEF ItemsInv, All
  <2> QED
    BY <2>2, <2>3
<1>4. CASE AllocatePacks
  <2>1. phase = "allocate" /\ AllocNext /\ UNCHANGED itemVars
    BY <1>4 DEF AllocatePacks
  <2>2. SearchInv /\ agenda # <<>> /\ problem = AllocationProblem(doc, sel)
    BY <2>1 DEF ItemsInv
  <2>3. SearchInv'
    BY <2>1, <2>2, SearchNext
  <2>4. problem' = problem
    BY <2>1 DEF AllocNext, Found, Try, GoBack
  <2> QED
    BY <1>1, <2>1, <2>2, <2>3, <2>4 DEF ItemsInv, itemVars, All
<1>5. CASE FinishMapping
  <2>1. /\ phase = "allocate" /\ calls = <<>> /\ UNCHANGED <<doc, start, allocVars>>
        /\ SearchInv /\ agenda # <<>> /\ problem = AllocationProblem(doc, sel)
    BY <1>5 DEF FinishMapping, ItemsInv
  <2>2. calls' = <<>>
    BY <2>1 DEF allocVars
  <2>3. CASE Len(results) = 1 /\ \A i \in DOMAIN results[1] : PackOK(doc, sel, results[1][i])
    <3> DEFINE a == results[1]
               G(i) == GetRenderingItems(doc, sel, a[i])
               more == [i \in DOMAIN a |-> G(i)]
    <3>1. items' = items \o FlattenSeq(more) /\ agenda' = Tail(agenda) /\ phase' = "select"
      BY <1>5, <2>3 DEF FinishMapping
    <3>2. IsAllocation(problem, a)
      <4>1. PICK T : results \in Seq(T)
        BY <2>1 DEF SearchInv
      <4>2. 1 \in DOMAIN results
        BY <2>3, <4>1
      <4> QED
        BY <2>1, <4>2 DEF SearchInv
    <3>3. PICK n \in Nat : DOMAIN a = 1 .. n
      BY <3>2 DEF IsAllocation
    <3>4. ASSUME NEW i \in 1 .. n
          PROVE  G(i) \in Seq(ToSet(G(i))) /\ \A x \in ToSet(G(i)) : IsItem(doc, start, x)
      <4>1. a[i].pack \in DOMAIN problem.packs /\ DOMAIN Channels(problem, a[i].pack) # {}
        BY <3>2, <3>3 DEF IsAllocation
      <4>2. IsProblem(problem) /\ PackOK(doc, sel, a[i])
        BY <2>1, <2>3, <3>3 DEF SearchInv
      <4> HIDE DEF a, sel
      <4> QED
        BY <1>2, <2>1, <4>1, <4>2, ItemsOfPack DEF All
    <3>5. more = [i \in 1 .. n |-> more[i]] /\ \A i \in 1 .. n : more[i] = G(i)
      BY <3>3
    <3> DEFINE M == UNION {ToSet(more[i]) : i \in 1 .. n}
    <3> HIDE DEF more, G
    <3>6. FlattenSeq(more) \in Seq(M)
      BY <3>3, <3>4, <3>5, FlattenElements
    <3>7. \A x \in M : IsItem(doc, start, x)
      BY <3>4, <3>5
    <3> HIDE DEF M
    <3>8. PICK T : items \in Seq(T) /\ \A x \in T : IsItem(doc, start, x)
      BY <1>1
    <3>9. items' \in Seq(T \cup M) /\ \A x \in T \cup M : IsItem(doc, start, x)
      <4>1. items \in Seq(T \cup M) /\ FlattenSeq(more) \in Seq(T \cup M)
        BY <3>6, <3>8
      <4>2. items \o FlattenSeq(more) \in Seq(T \cup M)
        BY <4>1, ConcatProperties
      <4> QED
        BY <3>1, <3>7, <3>8, <4>2
    <3> QED
      BY <1>1, <1>2, <2>1, <2>2, <3>1, <3>9 DEF ItemsInv, All
  <2>4. CASE ~ (Len(results) = 1 /\ \A i \in DOMAIN results[1] : PackOK(doc, sel, results[1][i]))
    <3>1. phase' = "failed" /\ UNCHANGED <<items, agenda>>
      BY <1>5, <2>4 DEF FinishMapping
    <3> QED
      BY <1>1, <2>1, <2>2, <3>1 DEF ItemsInv, All
  <2> QED
    BY <2>3, <2>4
<1>6. CASE ReturnItems
  <2>1. /\ phase = "select" /\ phase' = "done"
        /\ UNCHANGED <<doc, start, agenda, items, allocVars>>
    BY <1>6 DEF ReturnItems
  <2>2. calls' = <<>>
    BY <2>1 DEF ItemsInv, allocVars
  <2> QED
    BY <1>1, <2>1, <2>2 DEF ItemsInv, All
<1>7. ASSUME UNCHANGED riVars PROVE ItemsInv'
  <2>1. /\ UNCHANGED <<doc, start, agenda, items, phase>>
        /\ UNCHANGED <<problem, calls, results>>
    BY <1>7 DEF riVars, itemVars, allocVars
  <2>2. SearchInv' <=> SearchInv
    BY <2>1 DEF SearchInv, ResultsSound
  <2> QED
    BY <2>1, <2>2 DEF ItemsInv
<1>8. CASE Returned
  BY <1>7, <1>8 DEF Returned
<1> QED
  BY <1>3, <1>4, <1>5, <1>6, <1>7, <1>8 DEF RINext

-----------------------------------------------------------------------------
(* Interpolation points and what the document says. *)

IsTime(x) == x \in SUBSET Nat /\ \A a, b \in x : a = b
IsObjectTime(o) == IsTime(o.start) /\ IsTime(o.dur)
IsBlock(b) == IsTime(b.rtime) /\ IsTime(b.dur) /\ b.jump \in BOOLEAN /\ b.interp \in Nat

TimedPoints == [time : Int, zero : BOOLEAN, of : Nat]

\* The samples of which something is heard between two points, and between the
\* first and the last of a sequence of points.
Ring(p, q) == IF p.zero /\ q.zero THEN {} ELSE Sample(p.time) .. Sample(q.time) - 1
Rung(w) == UNION {Ring(w[i], w[i + 1]) : i \in 1 .. Len(w) - 1}

\* A sequence of points from p to q, between which the samples in H are heard.
IsRun(w, p, q, H) ==
  /\ w \in Seq(TimedPoints) \ {<<>>}
  /\ w[1] = p /\ w[Len(w)] = q /\ Rung(w) = H

LEMMA SampleIsMonotone ==
  ASSUME NEW s \in Int, NEW t \in Int
  PROVE  Sample(s) \in Int /\ Sample(t) \in Int /\ (s <= t => Sample(s) <= Sample(t))
BY DEF Sample

LEMMA RunOfOne ==
  ASSUME NEW p \in TimedPoints
  PROVE  IsRun(<<p>>, p, p, {})
<1> DEFINE w == <<p>>
<1>1. w \in Seq(TimedPoints) /\ Len(w) = 1 /\ w[1] = p /\ w # <<>>
  OBVIOUS
<1>2. 1 .. Len(w) - 1 = {}
  BY <1>1
<1> HIDE DEF w
<1>3. Rung(w) = {}
  BY <1>2 DEF Rung
<1> QED
  BY <1>1, <1>3 DEF IsRun, w

LEMMA RunsJoin ==
  ASSUME NEW u, NEW w, NEW p, NEW q, NEW r, NEW s, NEW H, NEW K,
         IsRun(u, p, q, H), IsRun(w, r, s, K)
  PROVE  IsRun(u \o w, p, s, H \cup Ring(q, r) \cup K)
<1> DEFINE v == u \o w
           m == Len(u)
           n == Len(w)
           P == TimedPoints
<1>1. u \in Seq(P) /\ w \in Seq(P) /\ u # <<>> /\ w # <<>>
  BY DEF IsRun
<1> HIDE DEF P
<1>2. m \in Nat \ {0} /\ n \in Nat \ {0}
  BY <1>1
<1>3. v \in Seq(P) /\ Len(v) = m + n
      /\ \A i \in 1 .. m + n : v[i] = IF i <= m THEN u[i] ELSE w[i - m]
  BY <1>1, ConcatProperties
<1> HIDE DEF v
<1>4. u[1] = p /\ u[m] = q /\ w[1] = r /\ w[n] = s
      /\ H = UNION {Ring(u[i], u[i + 1]) : i \in 1 .. m - 1}
      /\ K = UNION {Ring(w[i], w[i + 1]) : i \in 1 .. n - 1}
  BY DEF IsRun, Rung
<1> HIDE DEF m, n
<1>5. v # <<>> /\ v[1] = p /\ v[m + n] = s
  <2>1. Len(v) # 0 /\ 1 \in 1 .. m + n /\ 1 <= m /\ m + n \in 1 .. m + n /\ ~ (m + n <= m)
        /\ (m + n) - m = n
    BY <1>2, <1>3
  <2> QED
    BY <1>3, <1>4, <2>1
<1>6. \A i \in 1 .. m - 1 : Ring(v[i], v[i + 1]) = Ring(u[i], u[i + 1])
  <2> TAKE i \in 1 .. m - 1
  <2>1. i \in 1 .. m + n /\ i + 1 \in 1 .. m + n /\ i <= m /\ i + 1 <= m
    BY <1>2
  <2> QED
    BY <1>3, <2>1
<1>7. Ring(v[m], v[m + 1]) = Ring(q, r)
  <2>1. m \in 1 .. m + n /\ m + 1 \in 1 .. m + n /\ m <= m /\ ~ (m + 1 <= m) /\ (m + 1) - m = 1
    BY <1>2
  <2> QED
    BY <1>3, <1>4, <2>1
<1>8. \A i \in 1 .. n - 1 : Ring(v[m + i], v[m + i + 1]) = Ring(w[i], w[i + 1])
  <2> TAKE i \in 1 .. n - 1
  <2>1. /\ m + i \in 1 .. m + n /\ m + i + 1 \in 1 .. m + n
        /\ ~ (m + i <= m) /\ ~ (m + i + 1 <= m) /\ (m + i) - m = i /\ (m + i + 1) - m = i + 1
    BY <1>2
  <2> QED
    BY <1>3, <2>1
<1> DEFINE R(i) == Ring(v[i], v[i + 1])
<1>9. UNION {R(i) : i \in 1 .. (m + n) - 1} = H \cup Ring(q, r) \cup K
  <2>1. 1 .. (m + n) - 1 = (1 .. m - 1) \cup {m} \cup {m + i : i \in 1 .. n - 1}
    <3>1. ASSUME NEW j \in 1 .. (m + n) - 1, j > m PROVE \E i \in 1 .. n - 1 : j = m + i
      <4>1. j - m \in 1 .. n - 1 /\ j = m + (j - m)
        BY <1>2, <3>1
      <4> QED
        BY <4>1
    <3>2. ASSUME NEW i \in 1 .. n - 1 PROVE m + i \in 1 .. (m + n) - 1
      BY <1>2
    <3>3. \A j \in 1 .. (m + n) - 1 : j \in 1 .. m - 1 \/ j = m \/ j > m
      BY <1>2
    <3>4. (1 .. m - 1) \cup {m} \subseteq 1 .. (m + n) - 1
      BY <1>2
    <3> QED
      BY <3>1, <3>2, <3>3, <3>4
  <2>2. H = UNION {R(i) : i \in 1 .. m - 1}
    BY <1>4, <1>6
  <2>3. K = UNION {R(m + i) : i \in 1 .. n - 1}
    BY <1>4, <1>8
  <2>4. Ring(q, r) = R(m)
    BY <1>7
  <2> HIDE DEF R
  <2> QED
    BY <2>1, <2>2, <2>3, <2>4
<1>10. Rung(v) = H \cup Ring(q, r) \cup K
  BY <1>3, <1>9 DEF Rung
<1> QED
  BY <1>3, <1>4, <1>5, <1>10 DEF IsRun, v, P

\* What a block of times is: an end not before its start, or none.
LEMMA ExtentType ==
  ASSUME NEW o, IsObjectTime(o), NEW b, IsBlock(b)
  PROVE  /\ Timing!Extent(o, b).start \in Nat
         /\ \/ Timing!Extent(o, b).end = {}
            \/ \E e \in Nat : Timing!Extent(o, b).end = {e} /\ Timing!Extent(o, b).start <= e
<1> DEFINE s == Timing!ObjectStart(o)
<1>1. ASSUME NEW x, IsTime(x)
      PROVE  x = {} \/ \E e \in Nat : x = {e} /\ Timing!Only(x) = e
  <2>1. CASE x # {}
    <3>1. Timing!Only(x) \in x
      BY <2>1 DEF Timing!Only
    <3> QED
      BY <1>1, <3>1 DEF IsTime
  <2> QED
    BY <2>1
<1>2. s \in Nat
  BY <1>1 DEF IsObjectTime, Timing!ObjectStart
<1>3. ASSUME NEW a \in Nat, NEW x, IsTime(x)
      PROVE  \/ {a + d : d \in x} = {}
             \/ \E e \in Nat : {a + d : d \in x} = {e} /\ a <= e
  <2>1. CASE x # {}
    <3>1. PICK d \in Nat : x = {d}
      BY <1>1, <1>3, <2>1
    <3>2. {a + c : c \in x} = {a + d} /\ a + d \in Nat /\ a <= a + d
      BY <3>1
    <3> QED
      BY <3>2
  <2> QED
    BY <2>1
<1> HIDE DEF s
<1>4. CASE b.rtime = {}
  BY <1>2, <1>3, <1>4 DEF Timing!Extent, IsObjectTime, s
<1>5. CASE b.rtime # {}
  <2>1. Timing!Only(b.rtime) \in Nat
    BY <1>1, <1>5 DEF IsBlock
  <2>2. s + Timing!Only(b.rtime) \in Nat
    BY <1>2, <2>1
  <2> QED
    BY <1>3, <1>5, <2>2 DEF Timing!Extent, IsBlock, s
<1> QED
  BY <1>4, <1>5

LEMMA PointType ==
  ASSUME NEW t \in Nat, NEW k \in Nat
  PROVE  /\ Timing!Point(t, TRUE, k) \in TimedPoints
         /\ Timing!Point(t, TRUE, k).time = t /\ Timing!Point(t, TRUE, k).zero = TRUE
         /\ Timing!Point(t, FALSE, k) \in TimedPoints
         /\ Timing!Point(t, FALSE, k).time = t /\ Timing!Point(t, FALSE, k).zero = FALSE
BY DEF Timing!Point, TimedPoints

\* The library as RenderTiming sees it.
LEMMA TimingLibrary ==
  /\ \A s : Timing!Last(s) = Last(s)
  /\ \A S : Timing!SetToSeq(S) = SetToSeq(S)
  /\ \A s : Timing!FlattenSeq(s) = FlattenSeq(s)
<1>1. \A s : Timing!Last(s) = Last(s)
  BY DEF Last, Timing!Last
<1>2. \A S : Timing!SetToSeq(S) = SetToSeq(S)
  <2>1. \A f : Timing!IsInjective(f) = IsInjective(f)
    BY DEF IsInjective, Timing!IsInjective
  <2>2. \A S : Timing!Cardinality(S) = Cardinality(S)
    BY DEF Cardinality, Timing!Cardinality
  <2> QED
    BY <2>1, <2>2 DEF SetToSeq, Timing!SetToSeq
<1>3. \A s : Timing!FlattenSeq(s) = FlattenSeq(s)
  BY DEF FlattenSeq, Timing!FlattenSeq
<1> QED
  BY <1>1, <1>2, <1>3

LEMMA SequenceOfOne ==
  ASSUME NEW x
  PROVE  Timing!SetToSeq({x}) = <<x>> /\ Timing!SetToSeq({}) = <<>>
<1>1. SetToSeq({}) \in Seq({})
  BY SetToSeqLists, FS_EmptySet
<1>2. SetToSeq({}) = <<>>
  BY <1>1
<1> QED
  BY <1>2, SingletonInOrder, TimingLibrary

LEMMA AtEndIs ==
  ASSUME NEW o, NEW b, NEW zero, NEW k, NEW e
  PROVE  /\ Timing!Extent(o, b).end = {} => Timing!AtEnd(o, b, zero, k) = <<>>
         /\ Timing!Extent(o, b).end = {e} =>
              Timing!AtEnd(o, b, zero, k) = <<Timing!Point(e, zero, k)>>
<1> DEFINE E == Timing!Extent(o, b).end
           S == {Timing!Point(x, zero, k) : x \in E}
<1>1. E = {} => S = {}
  OBVIOUS
<1>2. E = {e} => S = {Timing!Point(e, zero, k)}
  OBVIOUS
<1>3. Timing!AtEnd(o, b, zero, k) = Timing!SetToSeq(S)
  BY DEF Timing!AtEnd
<1> HIDE DEF S
<1> QED
  BY <1>1, <1>2, <1>3, SequenceOfOne

\* The points of a block of DirectSpeakers or HOA, and the samples it is heard at.
BlockRun(o, b, k) ==
  <<Timing!Point(Timing!Extent(o, b).start, TRUE, k),
    Timing!Point(Timing!Extent(o, b).start, FALSE, k)>>
      \o Timing!AtEnd(o, b, FALSE, k) \o Timing!AtEnd(o, b, TRUE, k)
BlockRings(o, b) ==
  UNION {Sample(Timing!Extent(o, b).start) .. Sample(e) - 1 : e \in Timing!Extent(o, b).end}

\* The last point of a block.
BlockLast(o, b, k) ==
  IF Timing!Extent(o, b).end = {} THEN Timing!Point(Timing!Extent(o, b).start, FALSE, k)
  ELSE Timing!Point(Timing!Only(Timing!Extent(o, b).end), TRUE, k)

LEMMA EmptyRing ==
  ASSUME NEW p \in TimedPoints, NEW q \in TimedPoints, p.time = q.time \/ (p.zero /\ q.zero)
  PROVE  Ring(p, q) = {}
<1>1. p.time = q.time => Sample(q.time) = Sample(p.time) /\ Sample(p.time) \in Int
  BY SampleIsMonotone DEF TimedPoints
<1>2. p.time = q.time => Sample(p.time) .. Sample(q.time) - 1 = {}
  BY <1>1
<1> QED
  BY <1>2 DEF Ring

LEMMA OnlyOne == ASSUME NEW x PROVE Timing!Only({x}) = x
BY DEF Timing!Only

LEMMA TwoPoints ==
  ASSUME NEW p \in TimedPoints, NEW q \in TimedPoints
  PROVE  IsRun(<<p, q>>, p, q, Ring(p, q))
<1>1. <<p>> \o <<q>> = <<p, q>>
  <2>1. /\ Len(<<p>> \o <<q>>) = 2 /\ <<p>> \o <<q>> \in Seq(TimedPoints)
        /\ (<<p>> \o <<q>>)[1] = p /\ (<<p>> \o <<q>>)[2] = q
    OBVIOUS
  <2>2. /\ <<p, q>> \in Seq(TimedPoints) /\ Len(<<p, q>>) = 2
        /\ <<p, q>>[1] = p /\ <<p, q>>[2] = q
    OBVIOUS
  <2>3. \A i \in 1 .. 2 : i = 1 \/ i = 2
    OBVIOUS
  <2> DEFINE u == <<p>> \o <<q>>
             v == <<p, q>>
  <2> HIDE DEF u, v
  <2>4. u \in Seq(TimedPoints) /\ v \in Seq(TimedPoints) /\ Len(u) = Len(v)
        /\ \A i \in 1 .. Len(u) : u[i] = v[i]
    BY <2>1, <2>2, <2>3 DEF u, v
  <2>5. u = v
    BY <2>4, SeqEqual
  <2> QED
    BY <2>5 DEF u, v
<1>2. IsRun(<<p>> \o <<q>>, p, q, {} \cup Ring(p, q) \cup {})
  BY RunOfOne, RunsJoin
<1>3. {} \cup Ring(p, q) \cup {} = Ring(p, q)
  OBVIOUS
<1> QED
  BY <1>1, <1>2, <1>3

LEMMA BlockIsRun ==
  ASSUME NEW o, IsObjectTime(o), NEW b, IsBlock(b), NEW k \in Nat
  PROVE  /\ IsRun(BlockRun(o, b, k), Timing!Point(Timing!Extent(o, b).start, TRUE, k),
                  BlockLast(o, b, k), BlockRings(o, b))
         /\ BlockLast(o, b, k) \in TimedPoints
<1> DEFINE s == Timing!Extent(o, b).start
           E == Timing!Extent(o, b).end
           z == Timing!Point(s, TRUE, k)
           p == Timing!Point(s, FALSE, k)
<1>1. s \in Nat /\ (E = {} \/ \E e \in Nat : E = {e} /\ s <= e)
  BY ExtentType
<1>2. /\ z \in TimedPoints /\ z.time = s /\ z.zero = TRUE
      /\ p \in TimedPoints /\ p.time = s /\ p.zero = FALSE
  BY <1>1, PointType
<1>3. IsRun(<<z, p>>, z, p, {})
  BY <1>2, TwoPoints, EmptyRing
<1>4. CASE E = {}
  <2>1. BlockRun(o, b, k) = <<z, p>> \o <<>> \o <<>>
    BY <1>4, AtEndIs DEF BlockRun
  <2>2. <<z, p>> \o <<>> \o <<>> = <<z, p>>
    OBVIOUS
  <2>3. BlockLast(o, b, k) = p /\ BlockRings(o, b) = {}
    BY <1>4 DEF BlockLast, BlockRings
  <2> QED
    BY <1>2, <1>3, <2>1, <2>2, <2>3
<1>5. CASE E # {}
  <2>1. PICK e \in Nat : E = {e} /\ s <= e
    BY <1>1, <1>5
  <2> DEFINE q == Timing!Point(e, FALSE, k)
             l == Timing!Point(e, TRUE, k)
  <2>2. /\ q \in TimedPoints /\ q.time = e /\ q.zero = FALSE
        /\ l \in TimedPoints /\ l.time = e /\ l.zero = TRUE
    BY PointType
  <2>3. BlockRun(o, b, k) = <<z, p>> \o <<q>> \o <<l>>
    BY <2>1, AtEndIs DEF BlockRun
  <2>4. BlockLast(o, b, k) = l
    BY <2>1, OnlyOne DEF BlockLast
  <2>5. BlockRings(o, b) = Sample(s) .. Sample(e) - 1
    BY <2>1 DEF BlockRings
  <2>6. Ring(p, q) = BlockRings(o, b) /\ Ring(q, l) = {}
    BY <1>2, <2>2, <2>5, EmptyRing DEF Ring
  <2> HIDE DEF z, p, q, l
  <2>7. IsRun(<<z, p>> \o <<q>>, z, q, {} \cup Ring(p, q) \cup {})
    BY <1>3, <2>2, RunOfOne, RunsJoin
  <2>8. IsRun(<<z, p>> \o <<q>> \o <<l>>, z, l,
              ({} \cup Ring(p, q) \cup {}) \cup Ring(q, l) \cup {})
    BY <2>2, <2>7, RunOfOne, RunsJoin
  <2>9. ({} \cup Ring(p, q) \cup {}) \cup Ring(q, l) \cup {} = BlockRings(o, b)
    BY <2>6
  <2> QED
    BY <2>2, <2>3, <2>4, <2>8, <2>9 DEF z
<1> QED
  BY <1>4, <1>5

\* Points with the times in samples, as in Chain().
Sampled(w) == [p \in DOMAIN w |-> [w[p] EXCEPT !.time = Sample(@)]]

LEMMA RunIsAudible ==
  ASSUME NEW w, NEW p, NEW q, NEW H, NEW n \in Nat, IsRun(w, p, q, H)
  PROVE  Timing!Audible(Sampled(w), n) <=> n \in H \/ (Sample(q.time) <= n /\ ~q.zero)
<1> DEFINE v == Sampled(w)
           l == Len(w)
<1>1. w \in Seq(TimedPoints) /\ w # <<>> /\ q = w[l] /\ H = Rung(w)
  BY DEF IsRun
<1>2. l \in Nat \ {0} /\ DOMAIN w = 1 .. l /\ l \in 1 .. l /\ \A i \in 1 .. l : w[i] \in TimedPoints
  BY <1>1
<1>3. \A i \in 1 .. l : v[i] = [w[i] EXCEPT !.time = Sample(@)]
  BY <1>2 DEF Sampled
<1>4. \A i \in 1 .. l : v[i].time = Sample(w[i].time) /\ v[i].zero = w[i].zero
                        /\ Sample(w[i].time) \in Int /\ w[i].zero \in BOOLEAN
  <2> TAKE i \in 1 .. l
  <2>1. w[i] \in [time : Int, zero : BOOLEAN, of : Nat]
    BY <1>2 DEF TimedPoints
  <2>2. Sample(w[i].time) \in Int
    BY <2>1, SampleIsMonotone
  <2> QED
    BY <1>3, <2>1, <2>2
<1>5. Len(v) = l /\ v # <<>>
  <2>1. v \in [1 .. l -> {v[i] : i \in 1 .. l}]
    BY <1>2 DEF Sampled
  <2> HIDE DEF v
  <2>2. Len(v) = l
    BY <1>2, <2>1, FunctionIsSeq
  <2> QED
    BY <1>2, <2>2
<1> HIDE DEF v, l
<1>6. Timing!Last(v) = v[l]
  BY <1>5 DEF Timing!Last
<1> DEFINE Between(i) == /\ v[i].time <= n /\ n < v[i + 1].time
                         /\ ~(v[i].zero /\ v[i + 1].zero)
<1>7. \A i \in 1 .. l - 1 : Between(i) <=> n \in Ring(w[i], w[i + 1])
  <2> TAKE i \in 1 .. l - 1
  <2>1. i \in 1 .. l /\ i + 1 \in 1 .. l
    BY <1>2
  <2>2. n \in Ring(w[i], w[i + 1]) <=> /\ Sample(w[i].time) <= n /\ n < Sample(w[i + 1].time)
                                       /\ ~(w[i].zero /\ w[i + 1].zero)
    BY <1>4, <2>1 DEF Ring
  <2> QED
    BY <1>4, <2>1, <2>2
<1>8. n \in H <=> \E i \in 1 .. l - 1 : Between(i)
  BY <1>1, <1>7 DEF Rung, l
<1>9. Timing!Audible(v, n)
        <=> (\E i \in 1 .. l - 1 : Between(i)) \/ (v # <<>> /\ v[l].time <= n /\ ~v[l].zero)
  BY <1>5, <1>6 DEF Timing!Audible
<1> QED
  BY <1>1, <1>2, <1>4, <1>5, <1>8, <1>9 DEF v

\* An item that is silent between its blocks is heard during each block.
LEMMA BlocksAreHeard ==
  ASSUME NEW o, IsObjectTime(o), NEW T, NEW bs \in Seq(T), bs # <<>>,
         \A i \in DOMAIN bs : IsBlock(bs[i]), Timing!TimingOK(o, bs), NEW n \in Nat
  PROVE  Timing!Audible(Sampled(Timing!BlockPoints(o, bs)), n)
           <=> \E i \in DOMAIN bs :
                 /\ Sample(Timing!Extent(o, bs[i]).start) <= n
                 /\ ~\E e \in Timing!Extent(o, bs[i]).end : Sample(e) <= n
<1> DEFINE N == Len(bs)
           O(i) == BlockRun(o, bs[i], i)
           s == [i \in DOMAIN bs |-> O(i)]
           St(i) == Timing!Extent(o, bs[i]).start
           E(i) == Timing!Extent(o, bs[i]).end
           Z == Timing!Point(St(1), TRUE, 1)
           L(i) == BlockLast(o, bs[i], i)
           H(i) == BlockRings(o, bs[i])
<1>1. N \in Nat \ {0} /\ DOMAIN bs = 1 .. N
  BY SMT
<1>2. ASSUME NEW i \in 1 .. N
      PROVE  /\ IsRun(O(i), Timing!Point(St(i), TRUE, i), L(i), H(i))
             /\ L(i) \in TimedPoints /\ St(i) \in Nat /\ i \in Nat
             /\ E(i) = {} \/ \E e \in Nat : E(i) = {e} /\ St(i) <= e
  <2>1. IsBlock(bs[i]) /\ i \in Nat
    BY <1>1
  <2> QED
    BY <2>1, BlockIsRun, ExtentType
<1>3. ASSUME NEW i \in 1 .. N, E(i) = {} PROVE i = N
  <2>1. CASE i # N
    <3>1. i + 1 \in 2 .. Len(bs) /\ (i + 1) - 1 = i
      <4>1. N = Len(bs) /\ i \in 1 .. N /\ N \in Nat
        BY <1>1
      <4> HIDE DEF N
      <4>2. i + 1 \in 2 .. N /\ (i + 1) - 1 = i
        BY <2>1, <4>1
      <4> QED
        BY <4>1, <4>2
    <3>2. \E e \in E((i + 1) - 1) : e <= St(i + 1)
      BY <3>1 DEF Timing!TimingOK
    <3> QED
      BY <1>3, <3>1, <3>2
  <2> QED
    BY <2>1
<1>4. Timing!BlockPoints(o, bs) = FlattenSeq(s) \o Timing!EndPoints(o, bs)
  BY TimingLibrary DEF Timing!BlockPoints, BlockRun
<1>0. N = Len(bs)
  OBVIOUS
<1> HIDE DEF N, O, St, E, L, H, Z
<1>5. Len(s) = N /\ \A i \in 1 .. N : s[i] = O(i)
  <2>1. s \in [1 .. N -> {O(i) : i \in 1 .. N}]
    BY <1>1
  <2>2. \A i \in 1 .. N : s[i] = O(i)
    BY <1>1
  <2> HIDE DEF s
  <2> QED
    BY <1>1, <2>1, <2>2, FunctionIsSeq
<1> HIDE DEF s
<1>6. PICK fl : /\ fl = [i \in 1 .. N |-> IF i = 1 THEN s[i] ELSE fl[i - 1] \o s[i]]
                /\ FlattenSeq(s) = fl[N]
  BY <1>1, <1>5, FlattenIs
<1>7. \A i \in 1 .. N : fl[i] = IF i = 1 THEN O(i) ELSE fl[i - 1] \o O(i)
  BY <1>5, <1>6
<1> DEFINE J(i) == UNION {H(j) : j \in 1 .. i}
           S == {i \in Nat : i + 1 <= N => IsRun(fl[i + 1], Z, L(i + 1), J(i + 1))}
<1> HIDE DEF J
<1>8. 0 \in S
  <2>1. 0 + 1 = 1 /\ 1 \in 1 .. N /\ 1 .. 1 = {1}
    BY <1>1
  <2>2. J(1) = H(1) /\ fl[1] = O(1)
    BY <1>7, <2>1 DEF J
  <2> QED
    BY <1>2, <2>1, <2>2 DEF Z
<1>9. ASSUME NEW i \in Nat, i \in S PROVE i + 1 \in S
  <2> DEFINE k == i + 1
             m == k + 1
  <2>1. CASE m <= N
    <3>1. k \in 1 .. N /\ m \in 1 .. N /\ m # 1 /\ m - 1 = k /\ k # N
      BY <1>1, <2>1
    <3>2. IsRun(fl[k], Z, L(k), J(k))
      BY <1>9, <2>1, <3>1
    <3>3. fl[m] = fl[k] \o O(m)
      BY <1>7, <3>1
    <3> DEFINE P == Timing!Point(St(m), TRUE, m)
    <3>4. IsRun(O(m), P, L(m), H(m))
      BY <1>2, <3>1
    <3>5. Ring(L(k), P) = {}
      <4>1. P \in TimedPoints /\ P.zero = TRUE
        <5>1. St(m) \in Nat /\ m \in Nat
          BY <1>2, <3>1
        <5> QED
          BY <5>1, PointType
      <4>2. E(k) # {}
        BY <1>3, <3>1
      <4>3. PICK e \in Nat : E(k) = {e}
        BY <1>2, <3>1, <4>2
      <4>4. L(k) = Timing!Point(e, TRUE, k)
        BY <4>3, OnlyOne DEF L, BlockLast, E
      <4>5. L(k).zero = TRUE
        <5>1. k \in Nat
          BY <1>2, <3>1
        <5> QED
          BY <4>4, <5>1, PointType
      <4> QED
        BY <1>2, <3>1, <4>1, <4>5, EmptyRing
    <3> HIDE DEF P
    <3>6. IsRun(fl[m], Z, L(m), J(k) \cup Ring(L(k), P) \cup H(m))
      BY <3>2, <3>3, <3>4, RunsJoin
    <3>7. J(k) \cup Ring(L(k), P) \cup H(m) = J(m)
      <4>1. 1 .. m = (1 .. k) \cup {m}
        OBVIOUS
      <4> QED
        BY <3>5, <4>1 DEF J
    <3>8. IsRun(fl[m], Z, L(m), J(m))
      BY <3>6, <3>7
    <3> QED
      BY <3>8
  <2>2. CASE ~ (m <= N)
    BY <2>2
  <2> QED
    BY <2>1, <2>2
<1> HIDE DEF S
<1>10. N - 1 \in S
  <2>1. Nat \subseteq S
    BY <1>8, <1>9, InductionOverNat
  <2> QED
    BY <1>1, <2>1
<1>11. IsRun(FlattenSeq(s), Z, L(N), J(N))
  <2>1. (N - 1) + 1 = N /\ N <= N
    BY <1>1
  <2> QED
    BY <1>6, <1>10, <2>1 DEF S
<1>12. ASSUME NEW i \in 1 .. N, NEW e \in E(i)
       PROVE  e \in Nat /\ Sample(St(i)) \in Int /\ Sample(e) \in Int
  <2>1. e \in Nat /\ St(i) \in Nat
    <3>1. E(i) # {}
      BY <1>12
    <3>2. PICK x \in Nat : E(i) = {x}
      BY <1>2, <3>1
    <3>3. e = x
      BY <1>12, <3>2
    <3> QED
      BY <1>2, <3>2, <3>3
  <2> QED
    BY <2>1, SampleIsMonotone
<1>13. n \in J(N) <=> \E i \in 1 .. N : \E e \in E(i) : Sample(St(i)) <= n /\ n < Sample(e)
  BY <1>12 DEF H, BlockRings, J, St, E
<1> DEFINE w == Timing!BlockPoints(o, bs)
           Heard == \E i \in 1 .. N : /\ Sample(St(i)) <= n
                                      /\ ~\E e \in E(i) : Sample(e) <= n
<1>14. CASE E(N) = {}
  <2>1. Timing!EndPoints(o, bs) = <<>>
    <3>1. Timing!EndPoints(o, bs) = Timing!AtEnd(o, bs[N], TRUE, N)
      BY <1>0, TimingLibrary DEF Timing!EndPoints, Last
    <3> QED
      BY <1>14, <3>1, AtEndIs DEF E
  <2>2. w = FlattenSeq(s)
    <3>1. FlattenSeq(s) \in Seq(TimedPoints)
      BY <1>11 DEF IsRun
    <3>2. FlattenSeq(s) \o <<>> = FlattenSeq(s)
      BY <3>1
    <3> QED
      BY <1>4, <2>1, <3>2
  <2>3. L(N).time = St(N) /\ L(N).zero = FALSE
    <3>1. N \in 1 .. N
      BY <1>1
    <3>2. L(N) = Timing!Point(St(N), FALSE, N)
      BY <1>14 DEF L, BlockLast, E, St
    <3>3. St(N) \in Nat /\ N \in Nat
      BY <1>2, <3>1
    <3>4. /\ Timing!Point(St(N), FALSE, N).time = St(N)
          /\ Timing!Point(St(N), FALSE, N).zero = FALSE
      BY <3>3, PointType
    <3> QED
      BY <3>2, <3>4
  <2> HIDE DEF w
  <2>4. Timing!Audible(Sampled(w), n) <=> n \in J(N) \/ Sample(St(N)) <= n
    BY <1>11, <2>2, <2>3, RunIsAudible
  <2>5. Heard <=> n \in J(N) \/ Sample(St(N)) <= n
    <3>1. ASSUME NEW i \in 1 .. N, i # N
          PROVE  (~\E e \in E(i) : Sample(e) <= n) <=> \E e \in E(i) : n < Sample(e)
      <4>1. PICK e \in Nat : E(i) = {e}
        BY <1>2, <1>3, <3>1
      <4>2. Sample(e) \in Int
        BY <4>1, SampleIsMonotone
      <4> QED
        BY <4>1, <4>2
    <3>2. N \in 1 .. N
      BY <1>1
    <3> QED
      BY <1>13, <1>14, <3>1, <3>2
  <2> QED
    BY <1>1, <2>4, <2>5 DEF w, St, E
<1>15. CASE E(N) # {}
  <2>1. PICK e \in Nat : E(N) = {e}
    <3>1. N \in 1 .. N
      BY <1>1
    <3> QED
      BY <1>2, <1>15, <3>1
  <2> DEFINE P == Timing!Point(e, TRUE, N)
  <2>2. Timing!EndPoints(o, bs) = <<P>>
    <3>1. Timing!EndPoints(o, bs) = Timing!AtEnd(o, bs[N], TRUE, N)
      BY <1>0, TimingLibrary DEF Timing!EndPoints, Last
    <3> QED
      BY <2>1, <3>1, AtEndIs DEF E
  <2>3. L(N) = P
    BY <2>1, OnlyOne DEF L, BlockLast, E
  <2>4. P \in TimedPoints /\ P.zero = TRUE
    BY <1>1, PointType
  <2>5. Ring(L(N), P) = {}
    BY <2>3, <2>4, EmptyRing
  <2> HIDE DEF P, w
  <2>6. IsRun(w, Z, P, J(N) \cup Ring(L(N), P) \cup {})
    BY <1>4, <1>11, <2>2, <2>4, RunOfOne, RunsJoin DEF w
  <2>7. J(N) \cup Ring(L(N), P) \cup {} = J(N)
    BY <2>5
  <2>8. Timing!Audible(Sampled(w), n) <=> n \in J(N)
    BY <2>4, <2>6, <2>7, RunIsAudible
  <2>9. Heard <=> n \in J(N)
    <3>1. ASSUME NEW i \in 1 .. N
          PROVE  (~\E x \in E(i) : Sample(x) <= n) <=> \E x \in E(i) : n < Sample(x)
      <4>0. E(i) # {}
        BY <1>3, <1>15
      <4>1. PICK x \in Nat : E(i) = {x}
        BY <1>2, <4>0
      <4>2. Sample(x) \in Int
        BY <4>1, SampleIsMonotone
      <4> QED
        BY <4>1, <4>2
    <3> QED
      BY <1>13, <3>1
  <2> QED
    BY <1>1, <2>8, <2>9 DEF w, St, E
<1> QED
  BY <1>14, <1>15

\* When a block is over, or when it begins if it never is.
Settled(o, b) ==
  IF Timing!Extent(o, b).end = {} THEN Timing!Extent(o, b).start
  ELSE Timing!Only(Timing!Extent(o, b).end)

\* The points of the first block of an Objects channel, and of another one.
FirstRun(o, b) ==
  <<Timing!Point(Timing!Extent(o, b).start, TRUE, 1),
    Timing!Point(Timing!Extent(o, b).start, FALSE, 1)>> \o Timing!AtEnd(o, b, FALSE, 1)
NextRun(o, b, k) ==
  (IF Timing!Target(o, b) < Timing!Only(Timing!Extent(o, b).end)
   THEN <<Timing!Point(Timing!Target(o, b), FALSE, k)>> ELSE <<>>)
     \o <<Timing!Point(Timing!Only(Timing!Extent(o, b).end), FALSE, k)>>

LEMMA SettledType ==
  ASSUME NEW o, IsObjectTime(o), NEW b, IsBlock(b)
  PROVE  Settled(o, b) \in Nat /\ Timing!Extent(o, b).start <= Settled(o, b)
<1>1. /\ Timing!Extent(o, b).start \in Nat
      /\ \/ Timing!Extent(o, b).end = {}
         \/ \E e \in Nat : Timing!Extent(o, b).end = {e} /\ Timing!Extent(o, b).start <= e
  BY ExtentType
<1> QED
  BY <1>1, OnlyOne DEF Settled

LEMMA FirstIsRun ==
  ASSUME NEW o, IsObjectTime(o), NEW b, IsBlock(b)
  PROVE  IsRun(FirstRun(o, b), Timing!Point(Timing!Extent(o, b).start, TRUE, 1),
               Timing!Point(Settled(o, b), FALSE, 1),
               Sample(Timing!Extent(o, b).start) .. Sample(Settled(o, b)) - 1)
<1> DEFINE s == Timing!Extent(o, b).start
           E == Timing!Extent(o, b).end
           z == Timing!Point(s, TRUE, 1)
           p == Timing!Point(s, FALSE, 1)
<1>1. s \in Nat /\ (E = {} \/ \E e \in Nat : E = {e} /\ s <= e)
  BY ExtentType
<1>2. /\ z \in TimedPoints /\ z.time = s /\ z.zero = TRUE
      /\ p \in TimedPoints /\ p.time = s /\ p.zero = FALSE
  BY <1>1, PointType
<1>3. IsRun(<<z, p>>, z, p, {})
  BY <1>2, TwoPoints, EmptyRing
<1>4. CASE E = {}
  <2>1. FirstRun(o, b) = <<z, p>> \o <<>>
    BY <1>4, AtEndIs DEF FirstRun
  <2>2. <<z, p>> \o <<>> = <<z, p>>
    OBVIOUS
  <2>3. Settled(o, b) = s
    BY <1>4 DEF Settled
  <2>4. Sample(s) .. Sample(s) - 1 = {}
    BY <1>1, SampleIsMonotone
  <2> QED
    BY <1>3, <2>1, <2>2, <2>3, <2>4
<1>5. CASE E # {}
  <2>1. PICK e \in Nat : E = {e} /\ s <= e
    BY <1>1, <1>5
  <2> DEFINE q == Timing!Point(e, FALSE, 1)
  <2>2. q \in TimedPoints /\ q.time = e /\ q.zero = FALSE
    <3>1. e \in Nat /\ 1 \in Nat
      BY <2>1
    <3> QED
      BY <3>1, PointType
  <2>3. FirstRun(o, b) = <<z, p>> \o <<q>>
    <3>1. \A k : Timing!AtEnd(o, b, FALSE, k) = <<Timing!Point(e, FALSE, k)>>
      BY <2>1, AtEndIs
    <3>2. Timing!AtEnd(o, b, FALSE, 1) = <<q>>
      BY <3>1
    <3> QED
      BY <3>2 DEF FirstRun
  <2>4. Settled(o, b) = e
    BY <2>1, OnlyOne DEF Settled
  <2>5. Ring(p, q) = Sample(s) .. Sample(e) - 1
    BY <1>2, <2>2 DEF Ring
  <2> HIDE DEF z, p, q
  <2>6. IsRun(<<z, p>> \o <<q>>, z, q, {} \cup Ring(p, q) \cup {})
    BY <1>3, <2>2, RunOfOne, RunsJoin
  <2>7. {} \cup Ring(p, q) \cup {} = Sample(s) .. Sample(e) - 1
    BY <2>5
  <2> QED
    BY <2>3, <2>4, <2>6, <2>7 DEF z, q
<1> QED
  BY <1>4, <1>5

\* A block goes on from the point at which the one before it ended.
LEMMA NextIsRun ==
  ASSUME NEW o, IsObjectTime(o), NEW b, IsBlock(b), NEW k \in Nat,
         \E e \in Timing!Extent(o, b).end : Timing!Target(o, b) <= e,
         NEW t \in Nat, t <= Timing!Extent(o, b).start, NEW j \in Nat,
         NEW w, NEW z, NEW a \in Int, a <= Sample(t),
         IsRun(w, z, Timing!Point(t, FALSE, j), a .. Sample(t) - 1)
  PROVE  IsRun(w \o NextRun(o, b, k), z, Timing!Point(Settled(o, b), FALSE, k),
               a .. Sample(Settled(o, b)) - 1)
<1> DEFINE s == Timing!Extent(o, b).start
           E == Timing!Extent(o, b).end
           T == Timing!Target(o, b)
           p == Timing!Point(t, FALSE, j)
<1>1. s \in Nat /\ (E = {} \/ \E e \in Nat : E = {e} /\ s <= e)
  BY ExtentType
<1>2. PICK e \in Nat : E = {e} /\ s <= e /\ T <= e
  BY <1>1
<1>3. Timing!Only(E) = e /\ Settled(o, b) = e
  BY <1>2, OnlyOne DEF Settled
<1>4. T \in Nat /\ s <= T /\ t <= T /\ t <= e
  <2>1. T = IF b.jump THEN s + b.interp ELSE e
    BY <1>3 DEF Timing!Target
  <2>2. b.interp \in Nat /\ t <= s
    BY DEF IsBlock
  <2> HIDE DEF s, T
  <2> QED
    BY <1>1, <1>2, <2>1, <2>2
<1> DEFINE q == Timing!Point(e, FALSE, k)
           r == Timing!Point(T, FALSE, k)
<1>5. /\ p \in TimedPoints /\ p.time = t /\ p.zero = FALSE
      /\ q \in TimedPoints /\ q.time = e /\ q.zero = FALSE
      /\ r \in TimedPoints /\ r.time = T /\ r.zero = FALSE
  BY <1>4, PointType
<1> HIDE DEF E, T, s
<1>6. /\ Sample(t) \in Int /\ Sample(T) \in Int /\ Sample(e) \in Int
      /\ Sample(t) <= Sample(T) /\ Sample(T) <= Sample(e) /\ Sample(t) <= Sample(e)
  BY <1>2, <1>4, SampleIsMonotone
<1>7. CASE T < e
  <2>1. NextRun(o, b, k) = <<r>> \o <<q>>
    BY <1>3, <1>7 DEF NextRun, T, E
  <2>2. Ring(p, r) = Sample(t) .. Sample(T) - 1 /\ Ring(r, q) = Sample(T) .. Sample(e) - 1
    BY <1>5 DEF Ring
  <2> HIDE DEF p, q, r
  <2>3. IsRun(<<r>> \o <<q>>, r, q, {} \cup Ring(r, q) \cup {})
    BY <1>5, RunOfOne, RunsJoin
  <2>4. IsRun(w \o (<<r>> \o <<q>>), z, q,
              (a .. Sample(t) - 1) \cup Ring(p, r) \cup ({} \cup Ring(r, q) \cup {}))
    BY <2>3, RunsJoin DEF p
  <2>5. (a .. Sample(t) - 1) \cup Ring(p, r) \cup ({} \cup Ring(r, q) \cup {})
          = a .. Sample(e) - 1
    <3>1. (a .. Sample(t) - 1) \cup (Sample(t) .. Sample(T) - 1) \cup (Sample(T) .. Sample(e) - 1)
            = a .. Sample(e) - 1
      BY <1>6
    <3> QED
      BY <2>2, <3>1
  <2> QED
    BY <1>3, <2>1, <2>4, <2>5 DEF q
<1>8. CASE ~ (T < e)
  <2>1. NextRun(o, b, k) = <<>> \o <<q>>
    BY <1>3, <1>8 DEF NextRun, T, E
  <2>2. <<>> \o <<q>> = <<q>>
    OBVIOUS
  <2>3. Ring(p, q) = Sample(t) .. Sample(e) - 1
    BY <1>5 DEF Ring
  <2> HIDE DEF p, q, r
  <2>4. IsRun(w \o <<q>>, z, q, (a .. Sample(t) - 1) \cup Ring(p, q) \cup {})
    BY <1>5, RunOfOne, RunsJoin DEF p
  <2>5. (a .. Sample(t) - 1) \cup Ring(p, q) \cup {} = a .. Sample(e) - 1
    <3>1. (a .. Sample(t) - 1) \cup (Sample(t) .. Sample(e) - 1) = a .. Sample(e) - 1
      BY <1>6
    <3> QED
      BY <2>3, <3>1
  <2> QED
    BY <1>3, <2>1, <2>2, <2>4, <2>5 DEF q
<1> QED
  BY <1>7, <1>8

\* An item of type Objects is heard from its first block to the end of its last.
LEMMA ObjectsAreHeard ==
  ASSUME NEW o, IsObjectTime(o), NEW U, NEW bs \in Seq(U), bs # <<>>,
         \A i \in DOMAIN bs : IsBlock(bs[i]), Timing!ObjectTimingOK(o, bs), NEW n \in Nat
  PROVE  Timing!Audible(Sampled(Timing!ObjectPoints(o, bs)), n)
           <=> /\ Sample(Timing!Extent(o, bs[1]).start) <= n
               /\ ~\E e \in Timing!Extent(o, Last(bs)).end : Sample(e) <= n
<1> DEFINE N == Len(bs)
           O(i) == IF i = 1 THEN FirstRun(o, bs[1]) ELSE NextRun(o, bs[i], i)
           s == [i \in DOMAIN bs |-> O(i)]
           St(i) == Timing!Extent(o, bs[i]).start
           E(i) == Timing!Extent(o, bs[i]).end
           Z == Timing!Point(St(1), TRUE, 1)
           e(i) == Settled(o, bs[i])
           L(i) == Timing!Point(e(i), FALSE, i)
           a == Sample(St(1))
           J(i) == a .. Sample(e(i)) - 1
<1>1. N \in Nat \ {0} /\ DOMAIN bs = 1 .. N
  BY SMT
<1>2. ASSUME NEW i \in 1 .. N
      PROVE  /\ i \in Nat /\ IsBlock(bs[i])
             /\ St(i) \in Nat /\ e(i) \in Nat /\ St(i) <= e(i)
             /\ E(i) = {} \/ (E(i) = {e(i)})
  <2>1. IsBlock(bs[i]) /\ i \in Nat
    BY <1>1
  <2>2. e(i) \in Nat /\ St(i) <= e(i)
    BY <2>1, SettledType
  <2>3. St(i) \in Nat /\ (E(i) = {} \/ \E x \in Nat : E(i) = {x})
    BY <2>1, ExtentType
  <2>4. \A x : E(i) = {x} => e(i) = x
    BY OnlyOne DEF Settled
  <2> QED
    BY <2>1, <2>2, <2>3, <2>4
<1>3. ASSUME NEW i \in 1 .. N, i # 1
      PROVE  /\ \E x \in E(i) : Timing!Target(o, bs[i]) <= x
             /\ e(i - 1) <= St(i)
  <2>1. i \in 2 .. Len(bs) /\ i - 1 \in 1 .. N
    <3>1. N = Len(bs) /\ i \in 1 .. N /\ N \in Nat
      BY <1>1
    <3> HIDE DEF N
    <3>2. i \in 2 .. N /\ i - 1 \in 1 .. N
      BY <1>3, <3>1
    <3> QED
      BY <3>1, <3>2
  <2>2. \E x \in E(i) : Timing!Target(o, bs[i]) <= x
    BY <2>1 DEF Timing!ObjectTimingOK
  <2>3. PICK x \in E(i - 1) : x <= St(i)
    BY <2>1 DEF Timing!ObjectTimingOK, Timing!TimingOK
  <2>4. x = e(i - 1)
    <3> HIDE DEF E, e
    <3> QED
      BY <1>2, <2>1, <2>3
  <2> QED
    BY <2>2, <2>3, <2>4
<1>4. Timing!ObjectPoints(o, bs) = FlattenSeq(s) \o Timing!EndPoints(o, bs)
  BY TimingLibrary DEF Timing!ObjectPoints, FirstRun, NextRun
<1>0. N = Len(bs) /\ St(1) = Timing!Extent(o, bs[1]).start
  OBVIOUS
<1>5. Len(s) = N /\ \A i \in 1 .. N : s[i] = O(i)
  <2>1. s \in [1 .. N -> {O(i) : i \in 1 .. N}]
    BY <1>1
  <2>2. \A i \in 1 .. N : s[i] = O(i)
    BY <1>1
  <2> HIDE DEF s, O, N
  <2> QED
    BY <1>1, <2>1, <2>2, FunctionIsSeq
<1> HIDE DEF N, s
<1>6. PICK fl : /\ fl = [i \in 1 .. N |-> IF i = 1 THEN s[i] ELSE fl[i - 1] \o s[i]]
                /\ FlattenSeq(s) = fl[N]
  BY <1>1, <1>5, FlattenIs
<1>7. /\ fl[1] = FirstRun(o, bs[1])
      /\ \A i \in 1 .. N : i # 1 => fl[i] = fl[i - 1] \o NextRun(o, bs[i], i)
  <2>1. 1 \in 1 .. N /\ O(1) = FirstRun(o, bs[1])
        /\ \A i \in 1 .. N : i # 1 => O(i) = NextRun(o, bs[i], i)
    BY <1>1
  <2> HIDE DEF O
  <2>2. \A i \in 1 .. N : fl[i] = IF i = 1 THEN O(i) ELSE fl[i - 1] \o O(i)
    BY <1>5, <1>6
  <2> QED
    BY <2>1, <2>2
<1> DEFINE S == {i \in Nat : i + 1 <= N => IsRun(fl[i + 1], Z, L(i + 1), J(i + 1))
                                             /\ a <= Sample(e(i + 1))}
<1> HIDE DEF O, St, E, e
<1>a. a \in Int
  <2>1. 1 \in 1 .. N
    BY <1>1
  <2>2. St(1) \in Nat
    BY <1>2, <2>1
  <2> QED
    BY <2>2, SampleIsMonotone
<1>8. 0 \in S
  <2>1. 0 + 1 = 1 /\ 1 \in 1 .. N
    BY <1>1
  <2>2. IsRun(fl[1], Z, L(1), J(1))
    <3>1. IsBlock(bs[1])
      BY <1>2, <2>1
    <3> QED
      BY <1>7, <3>1, FirstIsRun DEF St, e
  <2>3. a <= Sample(e(1))
    BY <1>2, <2>1, SampleIsMonotone
  <2> HIDE DEF Z, L, J, a
  <2> QED
    BY <2>1, <2>2, <2>3
<1>9. ASSUME NEW i \in Nat, i \in S PROVE i + 1 \in S
  <2> DEFINE k == i + 1
             m == k + 1
  <2>1. CASE m <= N
    <3>1. k \in 1 .. N /\ m \in 1 .. N /\ m # 1 /\ m - 1 = k /\ k <= N /\ k \in Nat /\ m \in Nat
      BY <1>1, <2>1
    <3>2. IsRun(fl[k], Z, L(k), J(k)) /\ a <= Sample(e(k))
      BY <1>9, <3>1
    <3> HIDE DEF k, m, S
    <3>3. fl[m] = fl[k] \o NextRun(o, bs[m], m)
      BY <1>7, <3>1
    <3>4. /\ IsBlock(bs[m]) /\ e(k) \in Nat /\ e(m) \in Nat /\ e(k) <= St(m) /\ St(m) <= e(m)
          /\ St(m) \in Nat /\ \E x \in E(m) : Timing!Target(o, bs[m]) <= x
      BY <1>2, <1>3, <3>1
    <3>5. IsRun(fl[m], Z, L(m), J(m))
      <4>1. IsRun(fl[k], Z, Timing!Point(e(k), FALSE, k), a .. Sample(e(k)) - 1)
        BY <3>2
      <4> HIDE DEF Z, a
      <4>2. /\ St(m) = Timing!Extent(o, bs[m]).start /\ E(m) = Timing!Extent(o, bs[m]).end
            /\ e(m) = Settled(o, bs[m])
        BY DEF St, E, e
      <4>3. IsRun(fl[k] \o NextRun(o, bs[m], m), Z, Timing!Point(Settled(o, bs[m]), FALSE, m),
                  a .. Sample(Settled(o, bs[m])) - 1)
        BY <1>a, <3>1, <3>2, <3>4, <4>1, <4>2, NextIsRun
      <4> QED
        BY <3>3, <4>2, <4>3
    <3>6. a <= Sample(e(m))
      <4>1. e(k) <= e(m)
        BY <3>4
      <4>2. Sample(e(k)) \in Int /\ Sample(e(m)) \in Int /\ Sample(e(k)) <= Sample(e(m))
        BY <3>4, <4>1, SampleIsMonotone
      <4> HIDE DEF a
      <4> QED
        BY <1>a, <3>2, <4>2
    <3> QED
      BY <3>1, <3>5, <3>6 DEF S, m, k
  <2>2. CASE ~ (m <= N)
    <3>1. ~ ((i + 1) + 1 <= N) /\ i + 1 \in Nat
      BY <2>2
    <3> QED
      BY <3>1 DEF S
  <2> QED
    BY <2>1, <2>2
<1> HIDE DEF S
<1>10. N - 1 \in S
  <2>1. Nat \subseteq S
    BY <1>8, <1>9, InductionOverNat
  <2> QED
    BY <1>1, <2>1
<1>11. IsRun(FlattenSeq(s), Z, L(N), J(N))
  <2>1. (N - 1) + 1 = N /\ N <= N
    BY <1>1
  <2> QED
    BY <1>6, <1>10, <2>1 DEF S
<1>12. /\ N \in 1 .. N /\ N \in Nat /\ e(N) \in Nat /\ (E(N) = {} \/ E(N) = {e(N)})
       /\ Sample(e(N)) \in Int
  <2>1. N \in 1 .. N
    BY <1>1
  <2>2. N \in Nat /\ e(N) \in Nat /\ (E(N) = {} \/ E(N) = {e(N)})
    BY <1>2, <2>1
  <2>3. Sample(e(N)) \in Int
    BY <2>2, SampleIsMonotone
  <2> QED
    BY <2>1, <2>2, <2>3
<1>13. n \in J(N) <=> a <= n /\ n < Sample(e(N))
  <2> HIDE DEF a
  <2> QED
    BY <1>a, <1>12
<1>14. L(N) \in TimedPoints /\ L(N).time = e(N) /\ L(N).zero = FALSE
  BY <1>12, PointType
<1>15. Last(bs) = bs[N] /\ Timing!EndPoints(o, bs) = Timing!AtEnd(o, bs[N], TRUE, N)
  BY <1>0, TimingLibrary DEF Timing!EndPoints, Last
<1> DEFINE w == Timing!ObjectPoints(o, bs)
<1> HIDE DEF J, L, Z, a
<1>16. CASE E(N) = {}
  <2>1. Timing!EndPoints(o, bs) = <<>>
    BY <1>15, <1>16, AtEndIs DEF E
  <2>2. w = FlattenSeq(s)
    <3>1. FlattenSeq(s) \in Seq(TimedPoints)
      BY <1>11 DEF IsRun
    <3>2. FlattenSeq(s) \o <<>> = FlattenSeq(s)
      BY <3>1
    <3> QED
      BY <1>4, <2>1, <3>2
  <2> HIDE DEF w
  <2>3. Timing!Audible(Sampled(w), n) <=> n \in J(N) \/ Sample(e(N)) <= n
    BY <1>11, <1>14, <2>2, RunIsAudible
  <2>4. e(N) = St(1)
    <3>1. N = 1
      BY <1>3, <1>12, <1>16
    <3> QED
      BY <1>16, <3>1 DEF e, Settled, E, St
  <2> QED
    BY <1>12, <1>13, <1>15, <1>16, <2>3, <2>4 DEF w, a, E, St
<1>17. CASE E(N) = {e(N)}
  <2> DEFINE P == Timing!Point(e(N), TRUE, N)
  <2>1. Timing!EndPoints(o, bs) = <<P>>
    BY <1>15, <1>17, AtEndIs DEF E
  <2>2. P \in TimedPoints /\ P.zero = TRUE /\ P.time = e(N)
    BY <1>12, PointType
  <2>3. Ring(L(N), P) = {}
    BY <1>14, <2>2, EmptyRing
  <2> HIDE DEF P, w
  <2>4. IsRun(w, Z, P, J(N) \cup Ring(L(N), P) \cup {})
    BY <1>4, <1>11, <2>1, <2>2, RunOfOne, RunsJoin DEF w
  <2>5. J(N) \cup Ring(L(N), P) \cup {} = J(N)
    BY <2>3
  <2>6. IsRun(w, Z, P, J(N))
    BY <2>4, <2>5
  <2>7. Timing!Audible(Sampled(w), n) <=> n \in J(N)
    BY <2>2, <2>6, RunIsAudible
  <2>8. (~\E x \in E(N) : Sample(x) <= n) <=> n < Sample(e(N))
    BY <1>12, <1>17
  <2> QED
    BY <1>13, <1>15, <2>7, <2>8 DEF w, a, E, St
<1> QED
  BY <1>12, <1>16, <1>17

-----------------------------------------------------------------------------
(* The adapter and the delay lines. *)

\* The recursive function that FoldLeft() is made from, which is well defined.
IsFold(f, base, w, N) ==
  f = [S \in SUBSET (1 .. N) |-> IF S = {} THEN base
                                 ELSE AdaptSample(f[S \ {Max(S)}], w[Max(S)])]

LEMMA FoldExists ==
  ASSUME NEW base, NEW w, NEW N \in Nat
  PROVE  \E f : IsFold(f, base, w, N)
<1> DEFINE F(f, n) == [S \in SUBSET (1 .. n) |-> IF S = {} THEN base
                                                ELSE AdaptSample(f[S \ {Max(S)}], w[Max(S)])]
           Ex(n) == \E f : f = F(f, n)
           R == {n \in Nat : Ex(n)}
<1>1. 0 \in R
  <2> DEFINE g == F(base, 0)
  <2>1. SUBSET (1 .. 0) = {{}}
    OBVIOUS
  <2>2. g = F(g, 0)
    BY <2>1
  <2> QED
    BY <2>2
<1>2. ASSUME NEW n \in Nat, n \in R PROVE n + 1 \in R
  <2>1. PICK f : f = F(f, n)
    BY <1>2
  <2>2. \A S \in SUBSET (1 .. n + 1) : S # {} => S \ {Max(S)} \in SUBSET (1 .. n)
    <3> SUFFICES ASSUME NEW S \in SUBSET (1 .. n + 1), S # {} PROVE S \ {Max(S)} \in SUBSET (1 .. n)
      OBVIOUS
    <3>1. CASE n + 1 \in S
      <4>1. \A y \in S : n + 1 >= y
        OBVIOUS
      <4>2. Max(S) \in S /\ \A y \in S : Max(S) >= y
        BY <3>1, <4>1 DEF Max
      <4>3. Max(S) \in 1 .. n + 1 /\ Max(S) >= n + 1
        BY <3>1, <4>2
      <4>4. Max(S) = n + 1
        BY <4>3
      <4> QED
        BY <4>4
    <3>2. CASE n + 1 \notin S
      <4>1. S \subseteq 1 .. n
        BY <3>2
      <4> QED
        BY <4>1
    <3> QED
      BY <3>1, <3>2
  <2> DEFINE g == F(f, n + 1)
             h == F(f, n)
  <2>3. f = h
    BY <2>1
  <2>4. \A S \in SUBSET (1 .. n) : S \in SUBSET (1 .. n + 1) /\ h[S] = g[S]
    OBVIOUS
  <2> HIDE DEF h
  <2>5. \A S \in SUBSET (1 .. n) : g[S] = f[S]
    BY <2>3, <2>4
  <2> HIDE DEF g
  <2>6. \A S \in SUBSET (1 .. n + 1) : S # {} => g[S \ {Max(S)}] = f[S \ {Max(S)}]
    BY <2>2, <2>5
  <2>7. F(f, n + 1) = F(g, n + 1)
    BY <2>6
  <2>8. g = F(g, n + 1)
    BY <2>7 DEF g
  <2>9. Ex(n + 1)
    BY <2>8
  <2> HIDE DEF Ex
  <2> QED
    BY <2>9
<1> HIDE DEF R
<1>3. N \in R
  BY <1>1, <1>2, InductionOverNat
<1>4. PICK f : f = F(f, N)
  BY <1>3 DEF R
<1>5. IsFold(f, base, w, N)
  BY <1>4 DEF IsFold
<1> QED
  BY <1>5

\* FoldLeft() takes the samples from the first to the last.
Folded(base, w) == FoldLeft(AdaptSample, base, w)

\* The states of the adapter after each of the first N samples.
Unfolds(g, base, w, N) ==
  /\ g[0] = base
  /\ \A i \in 1 .. N : g[i] = AdaptSample(g[i - 1], w[i])
  /\ Folded(base, w) = g[N]

LEMMA FoldIs ==
  ASSUME NEW base, NEW w, NEW N \in Nat, DOMAIN w = 1 .. N
  PROVE  \E g : Unfolds(g, base, w, N)
<1> DEFINE fold == CHOOSE f : IsFold(f, base, w, N)
           g == [i \in 0 .. N |-> fold[1 .. i]]
<1>1. IsFold(fold, base, w, N)
  <2> HIDE DEF fold
  <2>1. \E f : IsFold(f, base, w, N)
    BY FoldExists
  <2> QED
    BY <2>1 DEF fold
<1>2. Folded(base, w) = fold[1 .. N]
  BY DEF Folded, FoldLeft, MapThenFoldSet, IsFold
<1> HIDE DEF fold
<1>3. \A S \in SUBSET (1 .. N) : fold[S] = IF S = {} THEN base
                                           ELSE AdaptSample(fold[S \ {Max(S)}], w[Max(S)])
  BY <1>1 DEF IsFold
<1>4. ASSUME NEW i \in 1 .. N PROVE g[i] = AdaptSample(g[i - 1], w[i])
  <2>1. 1 .. i \in SUBSET (1 .. N) /\ i \in 1 .. i /\ \A y \in 1 .. i : i >= y
    OBVIOUS
  <2>2. Max(1 .. i) \in 1 .. i /\ \A y \in 1 .. i : Max(1 .. i) >= y
    BY <2>1 DEF Max
  <2>3. Max(1 .. i) = i
    BY <2>1, <2>2
  <2>4. (1 .. i) \ {i} = 1 .. i - 1
    OBVIOUS
  <2>5. fold[1 .. i] = AdaptSample(fold[1 .. i - 1], w[i])
    BY <1>3, <2>1, <2>3, <2>4
  <2>6. i \in 0 .. N /\ i - 1 \in 0 .. N
    OBVIOUS
  <2> QED
    BY <2>5, <2>6
<1>5. g[0] = base
  <2>1. 1 .. 0 = {} /\ {} \in SUBSET (1 .. N)
    OBVIOUS
  <2>2. fold[{}] = base
    BY <1>3, <2>1
  <2> QED
    BY <2>1, <2>2
<1>6. g[N] = fold[1 .. N]
  OBVIOUS
<1> HIDE DEF g
<1>7. Unfolds(g, base, w, N)
  BY <1>2, <1>4, <1>5, <1>6 DEF Unfolds
<1> QED
  BY <1>7


\* Mixed() for given items.
MixedIn(ch, types, position, sample) ==
  UNION {IF sample = None \/ ~Timing!Audible(ch[i].points, position) THEN {}
         ELSE UNION {{<<i, c, t, sample>> : t \in ch[i].tracks[c]} : c \in DOMAIN ch[i].tracks} :
         i \in {k \in DOMAIN ch : ch[k].type \in types}}

LEMMA MixedIs ==
  \A types, position, sample :
    Mixed(types, position, sample) = MixedIn(chains, types, position, sample)
BY DEF Mixed, HeardOf, MixedIn

ObjectsType == {"Objects"}
OtherTypes  == {"DirectSpeakers", "HOA"}

\* What is fed in as the k-th sample, if the input has r samples.
Source(r, k) == IF k <= r THEN k - 1 ELSE None

\* The k-th sample that goes into a delay line; there is silence before the first.
Line(ch, types, r, k) == IF k >= 1 THEN MixedIn(ch, types, k - 1, Source(r, k)) ELSE {}
Lines(ch, types) == {MixedIn(ch, types, k, x) : k \in Int, x \in Nat \cup {None}} \cup {{}}

Heard(ch, r, k) == Line(ch, ObjectsType, r, k) \cup Line(ch, OtherTypes, r, k)
AllHeard(ch) == {a \cup b : a \in Lines(ch, ObjectsType), b \in Lines(ch, OtherTypes)}

LEMMA LineType ==
  ASSUME NEW ch, NEW r \in Nat, NEW k \in Int
  PROVE  /\ \A types : Line(ch, types, r, k) \in Lines(ch, types)
         /\ Heard(ch, r, k) \in AllHeard(ch)
         /\ k >= 1 => Source(r, k) \in Nat \cup {None}
<1>1. k >= 1 => Source(r, k) \in Nat \cup {None} /\ k - 1 \in Int
  BY DEF Source
<1>2. ASSUME NEW types PROVE Line(ch, types, r, k) \in Lines(ch, types)
  BY <1>1 DEF Line, Lines
<1> QED
  BY <1>1, <1>2 DEF Heard, AllHeard

\* More input does not change what has been heard.
LEMMA LineStays ==
  ASSUME NEW ch, NEW r \in Nat, NEW u \in Nat, NEW k \in Int, k <= r, k <= u
  PROVE  /\ \A types : Line(ch, types, r, k) = Line(ch, types, u, k)
         /\ Heard(ch, r, k) = Heard(ch, u, k)
         /\ Source(r, k) = Source(u, k)
<1>1. Source(r, k) = Source(u, k)
  BY DEF Source
<1> QED
  BY <1>1 DEF Heard, Line

\* A block of samples, those after the first a; what a renderer makes of them;
\* and the delay line before they come.
IsInput(q, r, a) ==
  /\ q \in Seq(Nat \cup {None}) /\ Len(q) = BlockSize
  /\ \A j \in 1 .. BlockSize : q[j] = Source(r, a + j)
IsMixed(ch, b, types, r, a) ==
  /\ b \in Seq(Lines(ch, types)) /\ Len(b) = BlockSize
  /\ \A j \in 1 .. BlockSize : b[j] = Line(ch, types, r, a + j)
IsDelayed(ch, line, types, r, a) ==
  /\ line \in Seq(Lines(ch, types)) /\ Len(line) = Decorrelation
  /\ \A j \in 1 .. Decorrelation : line[j] = Line(ch, types, r, a - Decorrelation + j)
IsOutput(ch, b, r, a) ==
  /\ b \in Seq(AllHeard(ch)) /\ Len(b) = BlockSize
  /\ \A j \in 1 .. BlockSize : b[j] = Heard(ch, r, a - DelaySamples + j)

IsDsp(d) ==
  \E S : d \in [start : Nat, objects : S, others : S, block : S, filled : S, output : S]

\* The adapter and the delay lines after n samples.
InStep(ch, d, r, n) ==
  /\ n \in Nat /\ IsDsp(d)
  /\ d.filled \in Seq(Nat \cup {None})
  /\ Len(d.filled) < BlockSize /\ n = d.start + Len(d.filled)
  /\ \A j \in 1 .. Len(d.filled) : d.filled[j] = Source(r, d.start + j)
  /\ IsDelayed(ch, d.objects, ObjectsType, r, d.start)
  /\ IsDelayed(ch, d.others, OtherTypes, r, d.start)
  /\ IsOutput(ch, d.block, r, d.start)

\* What came out for the samples after the first m.
CameOut(ch, output, r, m, n) ==
  /\ m \in Nat /\ n >= m
  /\ output \in Seq(AllHeard(ch)) /\ Len(output) = n - m
  /\ \A j \in 1 .. n - m : output[j] = Heard(ch, r, m - DelaySamples + j)

\* A delay line as long as line, with a block more.
Joins(w, kept, S, line, b, D, B) ==
  /\ \A j \in 1 .. D + B : w[j] = IF j <= D THEN line[j] ELSE b[j - D]
  /\ kept \in Seq(S) /\ Len(kept) = D
  /\ \A j \in 1 .. D : kept[j] = w[B + j]

LEMMA DelayLine ==
  ASSUME NEW S, NEW line \in Seq(S), NEW b \in Seq(S), NEW D \in Nat, NEW B \in Nat \ {0},
         Len(line) = D, Len(b) = B
  PROVE  Joins(line \o b, SubSeq(line \o b, B + 1, B + D), S, line, b, D, B)
<1> DEFINE w == line \o b
<1>1. w \in Seq(S) /\ Len(w) = D + B
      /\ \A j \in 1 .. D + B : w[j] = IF j <= D THEN line[j] ELSE b[j - D]
  BY ConcatProperties
<1>2. \A j \in 1 .. D + B : w[j] \in S
  BY <1>1
<1> HIDE DEF w
<1>3. \A j \in B + 1 .. B + D : j \in 1 .. D + B
  OBVIOUS
<1>4. \A j \in B + 1 .. B + D : w[j] \in S
  BY <1>2, <1>3
<1> DEFINE m == B + 1
           n == B + D
<1>5. m \in Int /\ n \in Int /\ n - m + 1 = D /\ \A j \in m .. n : w[j] \in S
  BY <1>4
<1> HIDE DEF m, n
<1>6. /\ SubSeq(w, m, n) \in Seq(S)
      /\ Len(SubSeq(w, m, n)) = IF m <= n THEN n - m + 1 ELSE 0
      /\ \A j \in 1 .. n - m + 1 : SubSeq(w, m, n)[j] = w[m + j - 1]
  BY <1>5, SubSeqProperties
<1>7. Len(SubSeq(w, m, n)) = D
  BY <1>5, <1>6
<1>8. \A j \in 1 .. D : SubSeq(w, m, n)[j] = w[B + j]
  <2>1. \A j \in 1 .. D : j \in 1 .. n - m + 1 /\ m + j - 1 = B + j
    BY <1>5 DEF m
  <2> QED
    BY <1>6, <2>1
<1> QED
  BY <1>1, <1>6, <1>7, <1>8 DEF Joins, w, m, n

LEMMA BlockIsMixed ==
  ASSUME NEW types, NEW r \in Nat, NEW a \in Nat, NEW q, IsInput(q, r, a)
  PROVE  IsMixed(chains, MixedBlock(types, a, q), types, r, a)
<1> DEFINE b == MixedBlock(types, a, q)
           B == BlockSize
<1>1. B \in Nat /\ DOMAIN q = 1 .. B /\ \A j \in 1 .. B : q[j] = Source(r, a + j)
  BY RendererAssumption DEF IsInput
<1>2. DOMAIN b = 1 .. B /\ \A j \in 1 .. B : b[j] = Mixed(types, a + j - 1, q[j])
  BY <1>1 DEF MixedBlock
<1>3. \A j \in 1 .. B : b[j] = Line(chains, types, r, a + j)
  <2> TAKE j \in 1 .. B
  <2>1. a + j >= 1
    BY <1>1
  <2> QED
    BY <1>1, <1>2, <2>1, MixedIs DEF Line
<1>4. \A j \in 1 .. B : b[j] \in Lines(chains, types)
  <2> TAKE j \in 1 .. B
  <2>1. a + j \in Int
    BY <1>1
  <2> QED
    BY <1>3, <2>1, LineType
<1>5. b = [j \in 1 .. B |-> b[j]]
  BY <1>1, <1>2 DEF MixedBlock
<1> HIDE DEF b
<1>6. b \in [1 .. B -> Lines(chains, types)]
  BY <1>4, <1>5
<1>7. b \in Seq(Lines(chains, types)) /\ Len(b) = B
  BY <1>1, <1>6, FunctionIsSeq
<1> QED
  BY <1>3, <1>7 DEF b, IsMixed

LEMMA LineMovesOn ==
  ASSUME NEW types, NEW r \in Nat, NEW a \in Nat, NEW line, IsDelayed(chains, line, types, r, a),
         NEW b, IsMixed(chains, b, types, r, a)
  PROVE  /\ \A j \in 1 .. BlockSize : (line \o b)[j] = Line(chains, types, r, a - Decorrelation + j)
         /\ IsDelayed(chains, SubSeq(line \o b, BlockSize + 1, BlockSize + Decorrelation),
                      types, r, a + BlockSize)
<1> DEFINE B == BlockSize
           D == Decorrelation
           S == Lines(chains, types)
           w == line \o b
           k == SubSeq(w, B + 1, B + D)
<1>1. B \in Nat \ {0} /\ D \in Nat
  BY RendererAssumption
<1>2. /\ line \in Seq(S) /\ Len(line) = D /\ b \in Seq(S) /\ Len(b) = B
      /\ \A j \in 1 .. D : line[j] = Line(chains, types, r, a - D + j)
      /\ \A j \in 1 .. B : b[j] = Line(chains, types, r, a + j)
  BY DEF IsDelayed, IsMixed
<1> HIDE DEF B, D, S
<1>3. /\ \A j \in 1 .. D + B : w[j] = IF j <= D THEN line[j] ELSE b[j - D]
      /\ k \in Seq(S) /\ Len(k) = D /\ \A j \in 1 .. D : k[j] = w[B + j]
  <2>1. Joins(w, k, S, line, b, D, B)
    BY <1>1, <1>2, DelayLine
  <2> HIDE DEF w, k
  <2> QED
    BY <2>1 DEF Joins
<1> HIDE DEF w, k
<1>4. \A j \in 1 .. D + B : w[j] = Line(chains, types, r, a - D + j)
  <2> TAKE j \in 1 .. D + B
  <2>1. CASE j <= D
    <3>1. j \in 1 .. D
      BY <1>1, <2>1
    <3> QED
      BY <1>2, <1>3, <2>1, <3>1
  <2>2. CASE ~ (j <= D)
    <3>0. j \in Nat /\ B \in Nat /\ D \in Nat /\ a \in Nat /\ j <= D + B /\ D < j
      BY <1>1, <2>2
    <3>1. j - D \in 1 .. B /\ a + (j - D) = a - D + j
      BY <3>0
    <3> QED
      BY <1>2, <1>3, <2>2, <3>1
  <2> QED
    BY <2>1, <2>2
<1>5. \A j \in 1 .. D : k[j] = Line(chains, types, r, (a + B) - D + j)
  <2> TAKE j \in 1 .. D
  <2>1. B + j \in 1 .. D + B /\ a - D + (B + j) = (a + B) - D + j
    BY <1>1
  <2> QED
    BY <1>3, <1>4, <2>1
<1>6. \A j \in 1 .. B : w[j] = Line(chains, types, r, a - D + j)
  <2>1. \A j \in 1 .. B : j \in 1 .. D + B
    BY <1>1
  <2> QED
    BY <1>4, <2>1
<1> QED
  BY <1>3, <1>5, <1>6 DEF IsDelayed, B, D, S, w, k

\* The samples of a full block go through the delay lines.
LEMMA FullBlockInStep ==
  ASSUME NEW r \in Nat, NEW d, NEW q, IsDsp(d), IsInput(q, r, d.start),
         IsDelayed(chains, d.objects, ObjectsType, r, d.start),
         IsDelayed(chains, d.others, OtherTypes, r, d.start)
  PROVE  /\ InStep(chains, [RenderFullBlock(d, q) EXCEPT !.filled = <<>>], r, d.start + BlockSize)
         /\ [RenderFullBlock(d, q) EXCEPT !.filled = <<>>].output = d.output
<1> DEFINE B == BlockSize
           D == Decorrelation
           a == d.start
           wo == d.objects \o MixedBlock(ObjectsType, a, q)
           wp == d.others \o MixedBlock(OtherTypes, a, q)
           ko == SubSeq(wo, B + 1, B + D)
           kp == SubSeq(wp, B + 1, B + D)
           bl == [j \in 1 .. B |-> wo[j] \cup wp[j]]
           e == [RenderFullBlock(d, q) EXCEPT !.filled = <<>>]
<1>1. B \in Nat \ {0} /\ D \in Nat /\ a \in Nat
  BY RendererAssumption DEF IsDsp
<1>2. /\ IsMixed(chains, MixedBlock(ObjectsType, a, q), ObjectsType, r, a)
      /\ IsMixed(chains, MixedBlock(OtherTypes, a, q), OtherTypes, r, a)
  BY <1>1, BlockIsMixed
<1>3. /\ \A j \in 1 .. B : wo[j] = Line(chains, ObjectsType, r, a - D + j)
      /\ IsDelayed(chains, ko, ObjectsType, r, a + B)
  BY <1>1, <1>2, LineMovesOn
<1>4. /\ \A j \in 1 .. B : wp[j] = Line(chains, OtherTypes, r, a - D + j)
      /\ IsDelayed(chains, kp, OtherTypes, r, a + B)
  BY <1>1, <1>2, LineMovesOn
<1>5. e = [d EXCEPT !.start = a + B, !.objects = ko, !.others = kp, !.block = bl, !.filled = <<>>]
  BY DEF RenderFullBlock, ObjectsType, OtherTypes
<1> HIDE DEF wo, wp, ko, kp, e, a
<1>6. \A j \in 1 .. B : bl[j] = Heard(chains, r, (a + B) - DelaySamples + j)
  <2> TAKE j \in 1 .. B
  <2>1. (a + B) - DelaySamples + j = a - D + j
    BY <1>1 DEF DelaySamples
  <2>2. bl[j] = Line(chains, ObjectsType, r, a - D + j) \cup Line(chains, OtherTypes, r, a - D + j)
    BY <1>3, <1>4
  <2> QED
    BY <2>1, <2>2 DEF Heard
<1>7. bl \in Seq(AllHeard(chains)) /\ Len(bl) = B
  <2>1. \A j \in 1 .. B : bl[j] \in AllHeard(chains)
    <3> TAKE j \in 1 .. B
    <3>1. (a + B) - DelaySamples + j \in Int
      BY <1>1 DEF DelaySamples
    <3> QED
      BY <1>6, <3>1, LineType
  <2>2. bl \in [1 .. B -> AllHeard(chains)]
    BY <2>1
  <2> HIDE DEF bl
  <2> QED
    BY <1>1, <2>2, FunctionIsSeq
<1> HIDE DEF bl
<1>8. /\ e.start = a + B /\ e.objects = ko /\ e.others = kp /\ e.block = bl
      /\ e.filled = <<>> /\ e.output = d.output
  BY <1>5 DEF IsDsp
<1>9. IsDsp(e)
  <2>1. PICK S : d \in [start : Nat, objects : S, others : S, block : S, filled : S, output : S]
    BY DEF IsDsp
  <2> DEFINE T == S \cup {ko, kp, bl, <<>>}
  <2>2. a + B \in Nat
    BY <1>1
  <2>3. e \in [start : Nat, objects : T, others : T, block : T, filled : T, output : T]
    BY <1>5, <2>1, <2>2
  <2> QED
    BY <2>3 DEF IsDsp
<1>10. <<>> \in Seq(Nat \cup {None}) /\ Len(<<>>) = 0 /\ a + B \in Nat
  BY <1>1
<1>11. /\ Len(e.filled) < B /\ a + B = e.start + Len(e.filled)
       /\ \A j \in 1 .. Len(e.filled) : e.filled[j] = Source(r, e.start + j)
  BY <1>1, <1>8, <1>10
<1>12. IsOutput(chains, e.block, r, e.start)
  BY <1>6, <1>7, <1>8 DEF IsOutput
<1>13. InStep(chains, e, r, a + B)
  BY <1>3, <1>4, <1>8, <1>9, <1>10, <1>11, <1>12 DEF InStep
<1> QED
  BY <1>8, <1>13 DEF e, a

\* One sample goes in and one comes out.
LEMMA SampleInStep ==
  ASSUME NEW r \in Nat, NEW m, NEW n, NEW d, InStep(chains, d, r, n), CameOut(chains, d.output, r, m, n)
  PROVE  /\ InStep(chains, AdaptSample(d, Source(r, n + 1)), r, n + 1)
         /\ CameOut(chains, AdaptSample(d, Source(r, n + 1)).output, r, m, n + 1)
<1> DEFINE B == BlockSize
           x == Source(r, n + 1)
           l == Len(d.filled)
           f == Append(d.filled, x)
           y == d.block[Len(f)]
           z == Append(d.output, y)
           e == [d EXCEPT !.filled = f, !.output = Append(@, y)]
           c == AdaptSample(d, x)
<1>1. /\ n \in Nat /\ m \in Nat /\ n >= m /\ B \in Nat \ {0} /\ d.start \in Nat
      /\ l \in Nat /\ l < B /\ n = d.start + l /\ d.filled \in Seq(Nat \cup {None})
  BY RendererAssumption DEF InStep, IsDsp, CameOut
<1>2. x \in Nat \cup {None}
  <2>1. n + 1 \in Int /\ n + 1 >= 1
    BY <1>1
  <2> QED
    BY <2>1, LineType
<1> HIDE DEF x
<1>3. /\ f \in Seq(Nat \cup {None}) /\ Len(f) = l + 1
      /\ \A j \in 1 .. l + 1 : f[j] = IF j = l + 1 THEN x ELSE d.filled[j]
  BY <1>1, <1>2
<1>4. \A j \in 1 .. l + 1 : f[j] = Source(r, d.start + j)
  <2> TAKE j \in 1 .. l + 1
  <2>1. CASE j = l + 1
    <3>0. d.start \in Nat /\ l \in Nat /\ n = d.start + l
      BY <1>1
    <3> HIDE DEF l
    <3>1. d.start + j = n + 1
      BY <2>1, <3>0
    <3> QED
      BY <1>3, <2>1, <3>1 DEF x
  <2>2. CASE j # l + 1
    <3>0. l \in Nat
      BY <1>1
    <3>2. \A k \in 1 .. l : d.filled[k] = Source(r, d.start + k)
      BY DEF InStep
    <3> HIDE DEF l
    <3>1. j \in 1 .. l
      BY <2>2, <3>0
    <3> QED
      BY <1>3, <2>2, <3>1, <3>2
  <2> QED
    BY <2>1, <2>2
<1>5. y = Heard(chains, r, m - DelaySamples + (n + 1 - m)) /\ y \in AllHeard(chains)
  <2>1. l + 1 \in 1 .. B /\ DelaySamples \in Nat
    BY <1>1, RendererAssumption DEF DelaySamples
  <2>2. y = Heard(chains, r, d.start - DelaySamples + (l + 1))
    <3>1. \A j \in 1 .. B : d.block[j] = Heard(chains, r, d.start - DelaySamples + j)
      BY DEF InStep, IsOutput
    <3> QED
      BY <1>3, <2>1, <3>1
  <2>3. /\ d.start - DelaySamples + (l + 1) = m - DelaySamples + (n + 1 - m)
        /\ d.start - DelaySamples + (l + 1) \in Int
    <3>1. /\ d.start \in Nat /\ l \in Nat /\ n = d.start + l /\ m \in Nat
          /\ DelaySamples \in Nat
      BY <1>1, <2>1
    <3> HIDE DEF l
    <3> QED
      BY <3>1
  <2> HIDE DEF y, l
  <2> QED
    BY <2>2, <2>3, LineType
<1> HIDE DEF y, f
<1>6. CameOut(chains, z, r, m, n + 1)
  <2>1. d.output \in Seq(AllHeard(chains)) /\ Len(d.output) = n - m
        /\ \A j \in 1 .. n - m : d.output[j] = Heard(chains, r, m - DelaySamples + j)
    BY DEF CameOut
  <2>2. n - m \in Nat /\ (n + 1) - m = (n - m) + 1 /\ n + 1 >= m
    BY <1>1
  <2>3. /\ z \in Seq(AllHeard(chains)) /\ Len(z) = (n - m) + 1
        /\ \A j \in 1 .. (n - m) + 1 : z[j] = IF j = (n - m) + 1 THEN y ELSE d.output[j]
    BY <1>5, <2>1, <2>2
  <2> HIDE DEF z
  <2>4. ASSUME NEW j \in 1 .. (n - m) + 1 PROVE z[j] = Heard(chains, r, m - DelaySamples + j)
    <3>1. CASE j = (n - m) + 1
      <4>0. n \in Nat /\ m \in Nat
        BY <1>1
      <4>1. j = n + 1 - m
        BY <3>1, <4>0
      <4> QED
        BY <1>5, <2>3, <3>1, <4>1
    <3>2. CASE j # (n - m) + 1
      <4>1. j \in 1 .. n - m
        BY <2>2, <3>2
      <4> QED
        BY <2>1, <2>3, <3>2, <4>1
    <3> QED
      BY <3>1, <3>2
  <2> QED
    BY <1>1, <2>2, <2>3, <2>4 DEF CameOut
<1>7. /\ e.start = d.start /\ e.objects = d.objects /\ e.others = d.others
      /\ e.block = d.block /\ e.filled = f /\ e.output = z /\ IsDsp(e)
  <2>1. PICK S : d \in [start : Nat, objects : S, others : S, block : S, filled : S, output : S]
    BY DEF InStep, IsDsp
  <2> DEFINE T == S \cup {f, z}
  <2>2. e = [d EXCEPT !.filled = f, !.output = z]
    BY <2>1
  <2> HIDE DEF e, z
  <2>3. e \in [start : Nat, objects : T, others : T, block : T, filled : T, output : T]
    BY <2>1, <2>2
  <2>4. IsDsp(e)
    BY <2>3 DEF IsDsp
  <2> QED
    BY <2>1, <2>2, <2>4
<1>8. c = IF Len(f) < B THEN e ELSE [RenderFullBlock(e, f) EXCEPT !.filled = <<>>]
  BY DEF AdaptSample, f, y
<1> HIDE DEF e, z, c
<1>9. CASE Len(f) < B
  <2>1. c = e
    BY <1>8, <1>9
  <2>2. Len(e.filled) < B /\ n + 1 = e.start + Len(e.filled) /\ n + 1 \in Nat
    <3>1. /\ n \in Nat /\ d.start \in Nat /\ l \in Nat /\ n = d.start + l
          /\ e.start = d.start /\ Len(e.filled) = l + 1 /\ Len(e.filled) < B
      BY <1>1, <1>3, <1>7, <1>9
    <3> HIDE DEF l, B
    <3> QED
      BY <3>1
  <2>3. InStep(chains, e, r, n + 1)
    BY <1>3, <1>4, <1>7, <2>2 DEF InStep
  <2> QED
    BY <1>6, <1>7, <2>1, <2>3 DEF c, x
<1>10. CASE ~ (Len(f) < B)
  <2>1. Len(f) = B /\ l + 1 = B /\ n + 1 = d.start + B
    <3>1. /\ n \in Nat /\ d.start \in Nat /\ l \in Nat /\ n = d.start + l
          /\ l < B /\ B \in Nat /\ Len(f) = l + 1 /\ ~ (Len(f) < B)
      BY <1>1, <1>3, <1>10
    <3> HIDE DEF l, B
    <3> QED
      BY <3>1
  <2>2. IsInput(f, r, e.start)
    BY <1>3, <1>4, <1>7, <2>1 DEF IsInput
  <2>3. IsDelayed(chains, e.objects, ObjectsType, r, e.start) /\ IsDelayed(chains, e.others, OtherTypes, r, e.start)
    BY <1>7 DEF InStep
  <2>4. InStep(chains, c, r, e.start + B) /\ c.output = e.output
    BY <1>7, <1>8, <1>10, <2>2, <2>3, FullBlockInStep
  <2> QED
    BY <1>6, <1>7, <2>1, <2>4 DEF c, x
<1> QED
  BY <1>9, <1>10

LEMMA AdaptInStep ==
  ASSUME NEW r \in Nat, NEW m \in Nat, NEW N \in Nat, NEW q, DOMAIN q = 1 .. N,
         \A j \in 1 .. N : q[j] = Source(r, m + j), InStep(chains, dsp, r, m)
  PROVE  InStep(chains, Adapt(q), r, m + N) /\ CameOut(chains, Adapt(q).output, r, m, m + N)
<1> DEFINE base == [dsp EXCEPT !.output = <<>>]
<1>1. IsDsp(dsp)
  BY DEF InStep
<1>2. /\ base.start = dsp.start /\ base.objects = dsp.objects /\ base.others = dsp.others
      /\ base.block = dsp.block /\ base.filled = dsp.filled /\ base.output = <<>>
      /\ IsDsp(base)
  <2>1. PICK S : dsp \in [start : Nat, objects : S, others : S, block : S, filled : S, output : S]
    BY <1>1 DEF IsDsp
  <2> DEFINE T == S \cup {<<>>}
  <2>2. base \in [start : Nat, objects : T, others : T, block : T, filled : T, output : T]
    BY <2>1
  <2> QED
    BY <2>1, <2>2 DEF IsDsp
<1> HIDE DEF base
<1>3. InStep(chains, base, r, m)
  BY <1>2 DEF InStep
<1>4. CameOut(chains, base.output, r, m, m)
  <2>1. m >= m /\ m - m = 0 /\ <<>> \in Seq(AllHeard(chains)) /\ Len(<<>>) = 0
    OBVIOUS
  <2> QED
    BY <1>2, <2>1 DEF CameOut
<1>5. PICK g : Unfolds(g, base, q, N)
  BY FoldIs
<1>6. /\ g[0] = base /\ Adapt(q) = g[N]
      /\ \A i \in 1 .. N : g[i] = AdaptSample(g[i - 1], q[i])
  BY <1>5 DEF Unfolds, Folded, Adapt, base
<1> DEFINE S == {i \in Nat : i <= N => /\ InStep(chains, g[i], r, m + i)
                                       /\ CameOut(chains, g[i].output, r, m, m + i)}
<1>7. 0 \in S
  <2>1. m + 0 = m
    OBVIOUS
  <2> QED
    BY <1>3, <1>4, <1>6, <2>1
<1>8. ASSUME NEW i \in Nat, i \in S PROVE i + 1 \in S
  <2>1. CASE i + 1 <= N
    <3>1. i <= N /\ i + 1 \in 1 .. N /\ (i + 1) - 1 = i /\ (m + i) + 1 = m + (i + 1)
      BY <2>1
    <3>2. g[i + 1] = AdaptSample(g[i], Source(r, (m + i) + 1))
      BY <1>6, <3>1
    <3>3. InStep(chains, g[i], r, m + i) /\ CameOut(chains, g[i].output, r, m, m + i)
      BY <1>8, <3>1
    <3>4. /\ InStep(chains, g[i + 1], r, (m + i) + 1)
          /\ CameOut(chains, g[i + 1].output, r, m, (m + i) + 1)
      BY <3>2, <3>3, SampleInStep
    <3> QED
      BY <3>1, <3>4
  <2>2. CASE ~ (i + 1 <= N)
    BY <2>2
  <2> QED
    BY <2>1, <2>2
<1> HIDE DEF S
<1>9. N \in S
  BY <1>7, <1>8, InductionOverNat
<1> QED
  BY <1>6, <1>9 DEF S

\* Before the first sample there is silence everywhere.
LEMMA InitiallyInStep ==
  ASSUME NEW ch, NEW r \in Nat
  PROVE  InStep(ch, InitialDsp, r, 0)
<1> DEFINE d == InitialDsp
<1>1. BlockSize \in Nat \ {0} /\ Decorrelation \in Nat /\ DelaySamples = Decorrelation + BlockSize
  BY RendererAssumption DEF DelaySamples
<1>2. /\ d.start = 0 /\ d.objects = NothingHeard(Decorrelation)
      /\ d.others = NothingHeard(Decorrelation) /\ d.block = NothingHeard(BlockSize)
      /\ d.filled = <<>>
  BY DEF InitialDsp
<1>3. ASSUME NEW n \in Nat, NEW T, {} \in T
      PROVE  /\ NothingHeard(n) \in Seq(T) /\ Len(NothingHeard(n)) = n
             /\ \A j \in 1 .. n : NothingHeard(n)[j] = {}
  <2>1. NothingHeard(n) \in [1 .. n -> T] /\ \A j \in 1 .. n : NothingHeard(n)[j] = {}
    BY <1>3 DEF NothingHeard
  <2> QED
    BY <2>1, FunctionIsSeq
<1>4. (\A types : {} \in Lines(ch, types)) /\ {} \in AllHeard(ch)
  <2>1. \A types : {} \in Lines(ch, types)
    <3> TAKE types
    <3>1. {} \in {{}}
      OBVIOUS
    <3> QED
      BY <3>1 DEF Lines
  <2>2. {} = {} \cup {}
    OBVIOUS
  <2> QED
    BY <2>1, <2>2 DEF AllHeard
<1>5. \A types : \A k \in Int : k <= 0 => Line(ch, types, r, k) = {} /\ Heard(ch, r, k) = {}
  BY DEF Line, Heard
<1>6. IsDsp(d)
  <2> DEFINE T == {d.objects, d.others, d.block, d.filled, d.output}
  <2>1. d \in [start : Nat, objects : T, others : T, block : T, filled : T, output : T]
    BY DEF InitialDsp
  <2> QED
    BY <2>1 DEF IsDsp
<1> HIDE DEF d
<1>7. /\ \A j \in 1 .. Decorrelation : 0 - Decorrelation + j \in Int /\ 0 - Decorrelation + j <= 0
      /\ \A j \in 1 .. BlockSize : 0 - DelaySamples + j \in Int /\ 0 - DelaySamples + j <= 0
  BY <1>1
<1>8. /\ IsDelayed(ch, d.objects, ObjectsType, r, d.start)
      /\ IsDelayed(ch, d.others, OtherTypes, r, d.start)
  <2>1. ASSUME NEW types PROVE IsDelayed(ch, NothingHeard(Decorrelation), types, r, 0)
    <3> DEFINE w == NothingHeard(Decorrelation)
    <3>1. {} \in Lines(ch, types)
      BY <1>4
    <3>2. /\ w \in Seq(Lines(ch, types)) /\ Len(w) = Decorrelation
          /\ \A j \in 1 .. Decorrelation : w[j] = {}
      BY <1>1, <1>3, <3>1
    <3> HIDE DEF w
    <3>3. \A j \in 1 .. Decorrelation : w[j] = Line(ch, types, r, 0 - Decorrelation + j)
      BY <1>5, <1>7, <3>2
    <3> QED
      BY <3>2, <3>3 DEF IsDelayed, w
  <2> QED
    BY <1>2, <2>1
<1>9. IsOutput(ch, d.block, r, d.start)
  <2> DEFINE w == NothingHeard(BlockSize)
  <2>1. /\ w \in Seq(AllHeard(ch)) /\ Len(w) = BlockSize
        /\ \A j \in 1 .. BlockSize : w[j] = {}
    BY <1>1, <1>3, <1>4
  <2> HIDE DEF w
  <2>2. \A j \in 1 .. BlockSize : w[j] = Heard(ch, r, 0 - DelaySamples + j)
    BY <1>5, <1>7, <2>1
  <2> QED
    BY <1>2, <2>1, <2>2 DEF IsOutput, w
<1>10. /\ d.filled \in Seq(Nat \cup {None}) /\ Len(d.filled) = 0 /\ 0 = d.start + Len(d.filled)
       /\ \A j \in 1 .. Len(d.filled) : FALSE
  BY <1>2
<1> QED
  BY <1>1, <1>6, <1>8, <1>9, <1>10 DEF InStep, d

\* The adapter does not know yet how much input there will be.
LEMMA InStepStays ==
  ASSUME NEW ch, NEW d, NEW n, NEW r \in Nat, NEW u \in Nat, r >= n, u >= n,
         InStep(ch, d, r, n)
  PROVE  InStep(ch, d, u, n)
<1> DEFINE l == Len(d.filled)
<1>1. /\ n \in Nat /\ d.start \in Nat /\ l \in Nat /\ n = d.start + l
      /\ BlockSize \in Nat \ {0} /\ Decorrelation \in Nat
      /\ DelaySamples = Decorrelation + BlockSize
  BY RendererAssumption DEF InStep, IsDsp, DelaySamples
<1>2. ASSUME NEW k \in Int, k <= n
      PROVE  /\ \A types : Line(ch, types, r, k) = Line(ch, types, u, k)
             /\ Heard(ch, r, k) = Heard(ch, u, k)
             /\ Source(r, k) = Source(u, k)
  <2>1. k <= r /\ k <= u
    BY <1>1, <1>2
  <2> QED
    BY <2>1, LineStays
<1>3. /\ \A j \in 1 .. l : d.start + j \in Int /\ d.start + j <= n
      /\ \A j \in 1 .. Decorrelation :
           d.start - Decorrelation + j \in Int /\ d.start - Decorrelation + j <= n
      /\ \A j \in 1 .. BlockSize :
           d.start - DelaySamples + j \in Int /\ d.start - DelaySamples + j <= n
  <2> HIDE DEF l
  <2> QED
    BY <1>1
<1>4. \A j \in 1 .. l : d.filled[j] = Source(u, d.start + j)
  BY <1>2, <1>3 DEF InStep
<1>5. ASSUME NEW types, NEW line, IsDelayed(ch, line, types, r, d.start)
      PROVE  IsDelayed(ch, line, types, u, d.start)
  BY <1>2, <1>3, <1>5 DEF IsDelayed
<1>6. IsOutput(ch, d.block, u, d.start)
  <2>1. IsOutput(ch, d.block, r, d.start)
    BY DEF InStep
  <2> QED
    BY <1>2, <1>3, <2>1 DEF IsOutput
<1> QED
  BY <1>4, <1>5, <1>6 DEF InStep

\* The samples pushed so far: n of them, each made of its own input sample.
IsPushed(ch, o, n) ==
  /\ o \in Seq(AllHeard(ch)) /\ Len(o) = n
  /\ \A k \in 1 .. n : o[k] = MixedIn(ch, ObjectsType, k - 1, k - 1)
                                \cup MixedIn(ch, OtherTypes, k - 1, k - 1)

\* How many samples come out for r that go in.
PushedFor(r) == IF r > DelaySamples THEN r - DelaySamples ELSE 0

LEMMA HeardAtItsSample ==
  ASSUME NEW ch, NEW r \in Nat, NEW k \in Nat \ {0}, k <= r
  PROVE  Heard(ch, r, k) = MixedIn(ch, ObjectsType, k - 1, k - 1)
                             \cup MixedIn(ch, OtherTypes, k - 1, k - 1)
BY DEF Heard, Line, Source

\* What comes out of the adapter is pushed, but for the delay at the start.
LEMMA OutputIsPushed ==
  ASSUME NEW ch, NEW r \in Nat, NEW m \in Nat, NEW n \in Nat, NEW o, n > DelaySamples,
         n - DelaySamples <= r, IsPushed(ch, out, PushedFor(m)), m <= n, m = received,
         CameOut(ch, o, r, m, n)
  PROVE  IsPushed(ch, Pushed(o), PushedFor(n))
<1> DEFINE D == DelaySamples
           A == AllHeard(ch)
           cut == IF m > D THEN 0 ELSE D - m
           x == IF m > D THEN o ELSE SubSeq(o, D - m + 1, Len(o))
<1>1. D \in Nat
  BY RendererAssumption DEF DelaySamples
<1>2. /\ o \in Seq(A) /\ Len(o) = n - m
      /\ \A j \in 1 .. n - m : o[j] = Heard(ch, r, m - D + j)
  BY DEF CameOut
<1>3. out \in Seq(A) /\ Len(out) = PushedFor(m)
      /\ \A k \in 1 .. PushedFor(m) : out[k] = MixedIn(ch, ObjectsType, k - 1, k - 1)
                                                 \cup MixedIn(ch, OtherTypes, k - 1, k - 1)
  BY DEF IsPushed
<1>4. PushedFor(m) = m - D + cut /\ PushedFor(n) = n - D /\ cut \in Nat /\ n - m - cut \in Nat
      /\ PushedFor(m) \in Nat
  BY <1>1 DEF PushedFor
<1> HIDE DEF A, D
<1>5. /\ x \in Seq(A) /\ Len(x) = n - m - cut
      /\ \A j \in 1 .. n - m - cut : x[j] = o[cut + j]
  <2>1. CASE m > D
    <3>1. x = o /\ cut = 0
      BY <2>1
    <3>2. n - m - cut = n - m /\ \A j \in 1 .. n - m - cut : cut + j = j
      BY <1>4, <3>1
    <3> HIDE DEF x, cut
    <3> QED
      BY <1>2, <3>1, <3>2
  <2>2. CASE ~ (m > D)
    <3> DEFINE a == cut + 1
               b == n - m
    <3>1. x = SubSeq(o, a, b) /\ cut = D - m
      BY <1>2, <2>2
    <3> HIDE DEF x, cut
    <3>2. a \in Int /\ b \in Int /\ b - a + 1 = n - m - cut /\ \A j \in a .. b : j \in 1 .. n - m
      BY <1>4
    <3>3. \A j \in 1 .. n - m : o[j] \in A
      BY <1>2
    <3>4. \A j \in a .. b : o[j] \in A
      BY <3>2, <3>3
    <3>5. \A j \in 1 .. n - m - cut : a + j - 1 = cut + j
      BY <1>4
    <3> HIDE DEF a, b
    <3>6. /\ SubSeq(o, a, b) \in Seq(A)
          /\ Len(SubSeq(o, a, b)) = IF a <= b THEN b - a + 1 ELSE 0
          /\ \A j \in 1 .. b - a + 1 : SubSeq(o, a, b)[j] = o[a + j - 1]
      BY <3>2, <3>4, SubSeqProperties
    <3>7. Len(x) = n - m - cut
      BY <1>4, <3>1, <3>2, <3>6
    <3> QED
      BY <3>1, <3>2, <3>5, <3>6, <3>7
  <2> QED
    BY <2>1, <2>2
<1>6. Pushed(o) = out \o x
  BY DEF Pushed, D
<1> HIDE DEF x
<1> DEFINE w == out \o x
           P == PushedFor(m)
<1>7. /\ w \in Seq(A) /\ Len(w) = Len(out) + Len(x)
      /\ \A k \in 1 .. Len(out) + Len(x) : w[k] = IF k <= Len(out) THEN out[k] ELSE x[k - Len(out)]
  <2>1. out \in Seq(A) /\ x \in Seq(A)
    BY <1>3, <1>5
  <2> QED
    BY <2>1, ConcatProperties
<1> HIDE DEF w, cut
<1>8. Len(out) = P /\ Len(x) = n - m - cut /\ P + (n - m - cut) = n - D /\ P \in Nat
  BY <1>1, <1>3, <1>4, <1>5
<1> HIDE DEF P
<1>9. /\ Len(w) = n - D
      /\ \A k \in 1 .. n - D : w[k] = IF k <= P THEN out[k] ELSE x[k - P]
  BY <1>7, <1>8
<1>10. ASSUME NEW k \in 1 .. n - D
       PROVE  w[k] = MixedIn(ch, ObjectsType, k - 1, k - 1)
                       \cup MixedIn(ch, OtherTypes, k - 1, k - 1)
  <2>1. CASE k <= P
    <3>1. k \in 1 .. P
      BY <1>8, <2>1
    <3> QED
      BY <1>3, <1>9, <2>1, <3>1 DEF P
  <2>2. CASE ~ (k <= P)
    <3>1. /\ k - P \in 1 .. n - m - cut
          /\ cut + (k - P) \in 1 .. n - m
          /\ m - D + (cut + (k - P)) = k
          /\ k \in Nat \ {0} /\ k <= r
      <4>1. P = m - D + cut /\ cut \in Nat /\ n - m - cut \in Nat /\ P \in Nat /\ D \in Nat
        BY <1>1, <1>4 DEF P
      <4>2. n - D <= r
        BY DEF D
      <4> QED
        BY <2>2, <4>1, <4>2
    <3>2. w[k] = o[cut + (k - P)]
      BY <1>5, <1>9, <2>2, <3>1
    <3>3. o[cut + (k - P)] = Heard(ch, r, k)
      BY <1>2, <3>1
    <3> QED
      BY <3>1, <3>2, <3>3, HeardAtItsSample
  <2> QED
    BY <2>1, <2>2
<1> QED
  BY <1>4, <1>6, <1>7, <1>9, <1>10 DEF IsPushed, w, A

-----------------------------------------------------------------------------
(* The process. *)

\* The times of an item, which is of a path of the document.
LEMMA ItemTimes ==
  ASSUME doc \in Documents, start \in Starts[doc], timing \in Timings[doc], timing # None,
         NEW x, IsItem(doc, start, x)
  PROVE  ObjectOf(x) \in TimedObjects /\ BlocksOf(x) \in Seq(TimedBlocks)
<1> DEFINE sel == x.channels[1].path.selection
<1>1. sel \in ToSet(Selections(doc, start)) /\ x.channels[1].path.channel \in Formats
  BY DEF IsItem
<1>2. BlocksOf(x) \in Seq(TimedBlocks)
  BY <1>1, TimingsAssumption DEF BlocksOf
<1>3. CASE sel.objects = <<>>
  <2>1. ObjectOf(x) = Timing!NoObject
    BY <1>3 DEF ObjectOf
  <2>2. {} \in OptionalTime
    BY DEF OptionalTime
  <2> QED
    BY <1>2, <2>1, <2>2 DEF Timing!NoObject, TimedObjects
<1>4. CASE sel.objects # <<>>
  <2>1. ObjectOf(x) = timing.objects[Last(sel.objects)]
    BY <1>4 DEF ObjectOf
  <2>2. Last(sel.objects) \in ToSet(doc.objects)
    BY <1>1, <1>4, DocumentsAssumption
  <2>3. timing.objects[Last(sel.objects)] \in TimedObjects
    BY <2>2, TimingsAssumption
  <2> QED
    BY <1>2, <2>1, <2>3
<1> QED
  BY <1>3, <1>4

LEMMA TimesAreTimes ==
  /\ \A o \in TimedObjects : IsObjectTime(o)
  /\ \A b \in TimedBlocks : IsBlock(b)
BY DEF TimedObjects, TimedBlocks, OptionalTime, IsObjectTime, IsBlock, IsTime

\* The points of an item, and its tracks.
PointsOf(x) == IF x.type = "Objects" THEN Timing!ObjectPoints(ObjectOf(x), BlocksOf(x))
               ELSE Timing!BlockPoints(ObjectOf(x), BlocksOf(x))
IndexOf(t) == IF t = None THEN {} ELSE {timing.map[t]}

LEMMA ChainIs ==
  ASSUME NEW x
  PROVE  /\ Chain(x).type = x.type
         /\ Chain(x).points = Sampled(PointsOf(x))
         /\ Chain(x).tracks = [c \in DOMAIN x.channels |-> IndexOf(x.channels[c].track)]
BY DEF Chain, Sampled, PointsOf, IndexOf

\* A channel without blocks has no points.
LEMMA NothingIsHeard ==
  ASSUME NEW o, NEW n \in Nat
  PROVE  /\ ~Timing!Audible(Sampled(Timing!ObjectPoints(o, <<>>)), n)
         /\ ~Timing!Audible(Sampled(Timing!BlockPoints(o, <<>>)), n)
<1>1. Timing!FlattenSeq(<<>>) = <<>>
  <2>1. FlattenSeq(<<>>) \in Seq({})
    <3>1. <<>> \in Seq(Seq({})) /\ <<>> \in Seq({})
      OBVIOUS
    <3> QED
      BY <3>1, FlattenAppend
  <2>2. FlattenSeq(<<>>) = <<>>
    BY <2>1
  <2> QED
    BY <2>2, TimingLibrary
<1>2. Timing!EndPoints(o, <<>>) = <<>>
  BY DEF Timing!EndPoints
<1>4. Timing!ObjectPoints(o, <<>>) = <<>>
  BY <1>1, <1>2 DEF Timing!ObjectPoints
<1>5. Timing!BlockPoints(o, <<>>) = <<>>
  BY <1>1, <1>2 DEF Timing!BlockPoints
<1>6. Sampled(<<>>) = <<>>
  BY DEF Sampled
<1>7. ~Timing!Audible(<<>>, n)
  BY DEF Timing!Audible
<1> QED
  BY <1>4, <1>5, <1>6, <1>7

\* An item is heard when the document says so.
LEMMA ItemIsHeard ==
  ASSUME NEW x, ObjectOf(x) \in TimedObjects, BlocksOf(x) \in Seq(TimedBlocks), ItemOK(x),
         NEW n \in Nat
  PROVE  Timing!Audible(Chain(x).points, n) <=> HeardInDocument(x, n)
<1> DEFINE o == ObjectOf(x)
           bs == BlocksOf(x)
<1>1. IsObjectTime(o) /\ \A i \in DOMAIN bs : IsBlock(bs[i])
  BY TimesAreTimes
<1>2. Chain(x).points = Sampled(PointsOf(x))
  BY ChainIs
<1>3. CASE bs = <<>>
  <2>1. ~HeardInDocument(x, n)
    BY <1>3 DEF HeardInDocument
  <2>2. ~Timing!Audible(Sampled(PointsOf(x)), n)
    BY <1>3, NothingIsHeard DEF PointsOf
  <2> QED
    BY <1>2, <2>1, <2>2
<1>4. CASE bs # <<>> /\ x.type = "Objects"
  <2>1. Timing!ObjectTimingOK(o, bs)
    BY <1>4 DEF ItemOK
  <2>2. PointsOf(x) = Timing!ObjectPoints(o, bs)
    BY <1>4 DEF PointsOf
  <2>3. HeardInDocument(x, n) <=> /\ Sample(Timing!Extent(o, bs[1]).start) <= n
                                  /\ ~\E e \in Timing!Extent(o, Last(bs)).end : Sample(e) <= n
    BY <1>4 DEF HeardInDocument
  <2>4. bs \in Seq(TimedBlocks) /\ bs # <<>>
    BY <1>4
  <2> HIDE DEF o, bs
  <2>5. Timing!Audible(Sampled(Timing!ObjectPoints(o, bs)), n)
           <=> /\ Sample(Timing!Extent(o, bs[1]).start) <= n
               /\ ~\E e \in Timing!Extent(o, Last(bs)).end : Sample(e) <= n
    BY <1>1, <2>1, <2>4, ObjectsAreHeard
  <2> QED
    BY <1>2, <2>2, <2>3, <2>5
<1>5. CASE bs # <<>> /\ x.type # "Objects"
  <2>1. Timing!TimingOK(o, bs)
    BY <1>5 DEF ItemOK
  <2>2. PointsOf(x) = Timing!BlockPoints(o, bs)
    BY <1>5 DEF PointsOf
  <2>3. HeardInDocument(x, n) <=>
          \E i \in DOMAIN bs : /\ Sample(Timing!Extent(o, bs[i]).start) <= n
                               /\ ~\E e \in Timing!Extent(o, bs[i]).end : Sample(e) <= n
    BY <1>5 DEF HeardInDocument
  <2>4. bs \in Seq(TimedBlocks) /\ bs # <<>>
    BY <1>5
  <2> HIDE DEF o, bs
  <2>5. Timing!Audible(Sampled(Timing!BlockPoints(o, bs)), n)
           <=> \E i \in DOMAIN bs : /\ Sample(Timing!Extent(o, bs[i]).start) <= n
                               /\ ~\E e \in Timing!Extent(o, bs[i]).end : Sample(e) <= n
    BY <1>1, <2>1, <2>4, BlocksAreHeard
  <2> QED
    BY <1>2, <2>2, <2>3, <2>5
<1> QED
  BY <1>3, <1>4, <1>5

\* setup_rendering_items() has made a chain of each item.
ChainsOK ==
  /\ timing # None
  /\ chains = [i \in DOMAIN items |-> Chain(items[i])]
  /\ \A i \in DOMAIN items : ItemOK(items[i])

\* The channels and tracks of item i, at sample n.
TracksHeard(i, n) ==
  UNION {{<<i, c, t, n>> : t \in chains[i].tracks[c]} : c \in DOMAIN chains[i].tracks}
TracksInDocument(i, n) ==
  {<<i, c, timing.map[items[i].channels[c].track], n>> :
     c \in {k \in DOMAIN items[i].channels : items[i].channels[k].track # None}}

LEMMA SameTracks ==
  ASSUME ChainsOK, NEW i \in DOMAIN items, NEW n
  PROVE  TracksHeard(i, n) = TracksInDocument(i, n)
<1> DEFINE channels == items[i].channels
           tracks == chains[i].tracks
<1>1. tracks = [c \in DOMAIN channels |-> IndexOf(channels[c].track)]
  BY ChainIs DEF ChainsOK
<1> HIDE DEF tracks, channels
<1>2. DOMAIN tracks = DOMAIN channels
  BY <1>1
<1>3. \A c \in DOMAIN channels :
        tracks[c] = IF channels[c].track = None THEN {} ELSE {timing.map[channels[c].track]}
  BY <1>1 DEF IndexOf
<1> DEFINE There == UNION {{<<i, c, t, n>> : t \in tracks[c]} : c \in DOMAIN tracks}
           Said == {<<i, c, timing.map[channels[c].track], n>> :
                      c \in {k \in DOMAIN channels : channels[k].track # None}}
<1>4. There = Said
  <2>1. ASSUME NEW y \in There PROVE y \in Said
    <3>1. PICK c \in DOMAIN channels : y \in {<<i, c, t, n>> : t \in tracks[c]}
      BY <1>2, <2>1
    <3>2. PICK t \in tracks[c] : y = <<i, c, t, n>>
      BY <3>1
    <3>3. channels[c].track # None /\ t = timing.map[channels[c].track]
      BY <1>3, <3>2
    <3> QED
      BY <3>2, <3>3
  <2>2. ASSUME NEW y \in Said PROVE y \in There
    <3>1. PICK c \in DOMAIN channels : /\ channels[c].track # None
                                       /\ y = <<i, c, timing.map[channels[c].track], n>>
      BY <2>2
    <3>2. timing.map[channels[c].track] \in tracks[c]
      BY <1>3, <3>1
    <3>3. y \in {<<i, c, t, n>> : t \in tracks[c]}
      BY <3>1, <3>2
    <3> QED
      BY <1>2, <3>3
  <2> HIDE DEF There, Said
  <2> QED
    BY <2>1, <2>2
<1> QED
  BY <1>4 DEF TracksHeard, TracksInDocument, tracks, channels

\* What the renderers make of a sample is what the document says.
LEMMA MixedAsInDocument ==
  ASSUME ItemsInv, ChainsOK, timing \in Timings[doc], NEW n \in Nat
  PROVE  MixedIn(chains, ObjectsType, n, n) \cup MixedIn(chains, OtherTypes, n, n)
           = InDocument(n)
<1> DEFINE H(i) == TracksHeard(i, n)
           D(i) == TracksInDocument(i, n)
           On(i) == Timing!Audible(chains[i].points, n)
           Said(i) == HeardInDocument(items[i], n)
           X(i) == IF n = None \/ ~On(i) THEN {} ELSE H(i)
<1>1. n # None
  BY RendererAssumption
<1>2. DOMAIN chains = DOMAIN items
  BY DEF ChainsOK
<1>3. ASSUME NEW i \in DOMAIN items
      PROVE  /\ chains[i].type \in ObjectsType \cup OtherTypes
             /\ On(i) <=> Said(i)
             /\ H(i) = D(i)
  <2>1. IsItem(doc, start, items[i])
    BY DEF ItemsInv
  <2>2. chains[i] = Chain(items[i]) /\ ItemOK(items[i]) /\ timing # None
    BY DEF ChainsOK
  <2>3. ObjectOf(items[i]) \in TimedObjects /\ BlocksOf(items[i]) \in Seq(TimedBlocks)
    BY <2>1, <2>2, ItemTimes DEF ItemsInv
  <2>4. On(i) <=> Said(i)
    BY <2>2, <2>3, ItemIsHeard
  <2>5. chains[i].type = items[i].type
    BY <2>2, ChainIs
  <2>6. items[i].type \in ObjectsType \cup OtherTypes
    BY <2>1 DEF IsItem, ObjectsType, OtherTypes
  <2> QED
    BY <2>4, <2>5, <2>6, SameTracks
<1>4. \A types : MixedIn(chains, types, n, n)
                   = UNION {X(i) : i \in {k \in DOMAIN chains : chains[k].type \in types}}
  BY DEF MixedIn, TracksHeard
<1>5. InDocument(n) = UNION {D(i) : i \in {k \in DOMAIN items : Said(k)}}
  BY DEF InDocument, TracksInDocument
<1> HIDE DEF H, D, On, Said
<1>6. ASSUME NEW y
      PROVE  y \in MixedIn(chains, ObjectsType, n, n) \cup MixedIn(chains, OtherTypes, n, n)
               <=> y \in InDocument(n)
  <2>1. y \in MixedIn(chains, ObjectsType, n, n) \cup MixedIn(chains, OtherTypes, n, n)
          <=> \E i \in DOMAIN items : y \in X(i)
    BY <1>2, <1>3, <1>4
  <2>2. \A i \in DOMAIN items : y \in X(i) <=> Said(i) /\ y \in D(i)
    BY <1>1, <1>3
  <2>3. y \in InDocument(n) <=> \E i \in DOMAIN items : Said(i) /\ y \in D(i)
    BY <1>5
  <2> QED
    BY <2>1, <2>2, <2>3
<1> QED
  BY <1>6

-----------------------------------------------------------------------------
\* The renderer has taken in so many samples, and pushed those that came out.
Running == /\ ChainsOK /\ received \in Nat
           /\ InStep(chains, dsp, received, received)
           /\ IsPushed(chains, out, PushedFor(received))

Started == chains = <<>> /\ dsp = InitialDsp /\ received = 0 /\ out = <<>>

RendererInv ==
  /\ ItemsInv
  /\ timing \in Timings[doc]
  /\ stage \in {"initialise", "running", "closed", "failed"}
  /\ stage = "initialise" => Started
  /\ stage = "running" => Running
  /\ stage = "closed" => ChainsOK /\ received \in Nat /\ IsPushed(chains, out, received)
  /\ stage = "failed" => out = <<>> \/ (ChainsOK /\ \E n \in Nat : IsPushed(chains, out, n))

LEMMA DelayIsPositive == DelaySamples \in Nat \ {0} /\ PushedFor(0) = 0
BY RendererAssumption DEF DelaySamples, PushedFor

LEMMA RendererInvInit == RendererInit => RendererInv
<1> SUFFICES ASSUME RendererInit PROVE RendererInv
  OBVIOUS
<1>1. RIInit /\ timing \in Timings[doc] /\ stage = "initialise" /\ Started
  BY DEF RendererInit, Started
<1>2. ItemsInv
  BY <1>1, ItemsInit
<1>3. stage # "running" /\ stage # "closed" /\ stage # "failed"
  BY <1>1
<1> HIDE DEF RendererInit
<1> QED
  BY <1>1, <1>2, <1>3 DEF RendererInv

LEMMA ChainsStay ==
  ASSUME ChainsOK, UNCHANGED <<riVars, timing, chains>>
  PROVE  ChainsOK'
<1>1. items' = items /\ doc' = doc /\ timing' = timing /\ chains' = chains
  BY DEF riVars, itemVars
<1>2. ASSUME NEW x PROVE Chain(x)' = Chain(x) /\ (ItemOK(x)' <=> ItemOK(x))
  BY <1>1 DEF Chain, ItemOK, ObjectOf, BlocksOf
<1> QED
  BY <1>1, <1>2 DEF ChainsOK

\* A block goes in, and what comes out for it is pushed.
LEMMA ProcessBlockKeeps ==
  ASSUME RendererInv, NEW b \in InputBlocks, ProcessBlock(b)
  PROVE  RendererInv'
<1> DEFINE q == [j \in 1 .. b.size |-> received + j - 1]
           r == received + b.size
<1>1. /\ stage = "running" /\ Running /\ ItemsInv /\ timing \in Timings[doc]
      /\ UNCHANGED <<riVars, timing, chains>>
  BY DEF ProcessBlock, RendererInv
<1>2. b.size \in Nat /\ received \in Nat /\ r \in Nat
  BY <1>1, RendererAssumption DEF Running
<1>3. ItemsInv' /\ timing' \in Timings'[doc']
  <2>1. doc' = doc /\ timing' = timing
    BY <1>1 DEF riVars, itemVars
  <2>2. ItemsInv'
    BY <1>1, ItemsNext
  <2> QED
    BY <1>1, <2>1, <2>2
<1>4. ChainsOK' /\ chains' = chains
  BY <1>1, ChainsStay DEF Running
<1>5. CASE stage' = "failed" /\ UNCHANGED <<dsp, out, received, inputChannels>>
  <2>1. PushedFor(received) \in Nat
    BY <1>2, DelayIsPositive DEF PushedFor
  <2>2. out' = out /\ chains' = chains /\ IsPushed(chains, out, PushedFor(received))
    BY <1>1, <1>4, <1>5 DEF Running
  <2>3. IsPushed(chains', out', PushedFor(received))
    BY <2>2
  <2>4. \E n \in Nat : IsPushed(chains', out', n)
    BY <2>1, <2>3
  <2>5. (\E n \in Nat : IsPushed(chains, out, n))' <=> \E n \in Nat : IsPushed(chains', out', n)
    BY DEF IsPushed, MixedIn, AllHeard, Lines
  <2>6. stage' # "initialise" /\ stage' # "running" /\ stage' # "closed"
    BY <1>5
  <2> QED
    BY <1>3, <1>4, <1>5, <2>4, <2>5, <2>6 DEF RendererInv
<1>6. CASE /\ dsp' = Adapt(q) /\ received' = r /\ stage' = stage
           /\ out' = IF r > DelaySamples THEN Pushed(Adapt(q).output) ELSE out
  <2>1. DOMAIN q = 1 .. b.size /\ \A j \in 1 .. b.size : q[j] = Source(r, received + j)
    BY <1>2 DEF Source
  <2> HIDE DEF q
  <2>2. InStep(chains, dsp, received, received)
    BY <1>1 DEF Running
  <2>3. r >= received /\ received >= received /\ received <= r
    BY <1>2
  <2> HIDE DEF r
  <2>4. InStep(chains, dsp, r, received)
    BY <1>2, <2>2, <2>3, InStepStays
  <2>5. /\ InStep(chains, Adapt(q), r, received + b.size)
        /\ CameOut(chains, Adapt(q).output, r, received, received + b.size)
    BY <1>2, <2>1, <2>4, AdaptInStep
  <2>6. InStep(chains, Adapt(q), r, r) /\ CameOut(chains, Adapt(q).output, r, received, r)
    BY <2>5 DEF r
  <2>7. IsPushed(chains, out, PushedFor(received))
    BY <1>1 DEF Running
  <2>8. IsPushed(chains, out', PushedFor(r))
    <3>1. CASE r > DelaySamples
      <4>1. r - DelaySamples <= r
        BY <1>2, DelayIsPositive
      <4>2. IsPushed(chains, Pushed(Adapt(q).output), PushedFor(r))
        BY <1>2, <2>3, <2>6, <2>7, <3>1, <4>1, OutputIsPushed
      <4> QED
        BY <1>6, <3>1, <4>2
    <3>2. CASE ~(r > DelaySamples)
      <4>1. PushedFor(received) = 0 /\ PushedFor(r) = 0
        BY <1>2, <2>3, <3>2, DelayIsPositive DEF PushedFor
      <4> QED
        BY <1>6, <2>7, <3>2, <4>1
    <3> QED
      BY <3>1, <3>2
  <2>9. Running'
    <3>1. InStep(chains', dsp', received', received')
      BY <1>4, <1>6, <2>6
    <3>2. IsPushed(chains', out', PushedFor(received'))
      BY <1>4, <1>6, <2>8
    <3>3. InStep(chains, dsp, received, received)' <=> InStep(chains', dsp', received', received')
      BY DEF InStep, IsDsp, IsDelayed, IsOutput, AllHeard, Lines, Line, Heard, MixedIn, Source
    <3>4. IsPushed(chains, out, PushedFor(received))' <=> IsPushed(chains', out', PushedFor(received'))
      BY DEF IsPushed, MixedIn, AllHeard, Lines, PushedFor
    <3> QED
      BY <1>2, <1>4, <1>6, <3>1, <3>2, <3>3, <3>4 DEF Running
  <2>10. stage' = "running"
    BY <1>1, <1>6
  <2> QED
    BY <1>3, <2>9, <2>10 DEF RendererInv
<1> QED
  BY <1>5, <1>6 DEF ProcessBlock

\* Silence goes in until the last sample has come out.
LEMMA EndOfInputKeeps ==
  ASSUME RendererInv, EndOfInput
  PROVE  RendererInv'
<1> DEFINE q == [j \in 1 .. DelaySamples |-> None]
           n == received + DelaySamples
<1>1. /\ stage = "running" /\ Running /\ ItemsInv /\ timing \in Timings[doc]
      /\ UNCHANGED <<riVars, timing, chains, received>> /\ stage' = "closed"
  BY DEF EndOfInput, RendererInv
<1>2. received \in Nat /\ DelaySamples \in Nat \ {0}
  BY <1>1, DelayIsPositive DEF Running
<1>3. ItemsInv' /\ timing' \in Timings'[doc']
  <2>1. doc' = doc /\ timing' = timing
    BY <1>1 DEF riVars, itemVars
  <2>2. ItemsInv'
    BY <1>1, ItemsNext
  <2> QED
    BY <1>1, <2>1, <2>2
<1>4. ChainsOK' /\ chains' = chains
  BY <1>1, ChainsStay DEF Running
<1>5. IsPushed(chains, out, PushedFor(received))
  BY <1>1 DEF Running
<1>6. IsPushed(chains, out', received)
  <2>1. CASE received > 0
    <3>1. out' = Pushed(Adapt(q).output)
      BY <2>1 DEF EndOfInput
    <3>2. DOMAIN q = 1 .. DelaySamples
          /\ \A j \in 1 .. DelaySamples : q[j] = Source(received, received + j)
      BY <1>2 DEF Source
    <3> HIDE DEF q
    <3>3. InStep(chains, dsp, received, received)
      BY <1>1 DEF Running
    <3>4. CameOut(chains, Adapt(q).output, received, received, received + DelaySamples)
      BY <1>2, <3>2, <3>3, AdaptInStep
    <3>5. n \in Nat /\ n > DelaySamples /\ n - DelaySamples <= received /\ received <= n
          /\ PushedFor(n) = received
      BY <1>2, <2>1 DEF PushedFor
    <3>6. CameOut(chains, Adapt(q).output, received, received, n)
      BY <3>4
    <3> HIDE DEF n
    <3>7. IsPushed(chains, Pushed(Adapt(q).output), PushedFor(n))
      BY <1>2, <1>5, <3>5, <3>6, OutputIsPushed
    <3> QED
      BY <3>1, <3>5, <3>7
  <2>2. CASE ~(received > 0)
    <3>1. received = 0 /\ out' = out
      BY <1>2, <2>2 DEF EndOfInput
    <3> QED
      BY <1>5, <3>1, DelayIsPositive
  <2> QED
    BY <2>1, <2>2
<1>7. IsPushed(chains', out', received')
  BY <1>1, <1>4, <1>6
<1>8. IsPushed(chains, out, received)' <=> IsPushed(chains', out', received')
  BY DEF IsPushed, MixedIn, AllHeard, Lines
<1>9. received' \in Nat
  BY <1>1, <1>2
<1>10. stage' # "initialise" /\ stage' # "running" /\ stage' # "failed"
  BY <1>1
<1> QED
  BY <1>1, <1>3, <1>4, <1>7, <1>8, <1>9, <1>10 DEF RendererInv

LEMMA RendererInvStays ==
  ASSUME RendererInv, UNCHANGED <<timing, stage, chains, dsp, received, out>>,
         ItemsInv', doc' = doc, stage = "initialise" \/ UNCHANGED riVars
  PROVE  RendererInv'
<1>1. /\ timing \in Timings[doc] /\ timing' \in Timings'[doc']
      /\ stage' \in {"initialise", "running", "closed", "failed"}
  BY DEF RendererInv
<1>2. CASE stage = "initialise"
  <2>1. Started'
    <3>1. Started
      BY <1>2 DEF RendererInv
    <3> QED
      BY <3>1 DEF Started, InitialDsp
  <2>2. stage' # "running" /\ stage' # "closed" /\ stage' # "failed"
    BY <1>2
  <2> QED
    BY <1>1, <2>1, <2>2 DEF RendererInv
<1>3. CASE stage # "initialise" /\ UNCHANGED riVars
  <2>1. ChainsOK => ChainsOK'
    BY <1>3, ChainsStay
  <2>2. stage' # "initialise" /\ stage' = stage /\ out' = out /\ received' = received
    BY <1>3
  <2>3. ASSUME NEW n PROVE IsPushed(chains, out, n) <=> IsPushed(chains', out', n)
    OBVIOUS
  <2>4. Running => Running'
    <3> SUFFICES ASSUME Running PROVE Running'
      OBVIOUS
    <3>1. /\ InStep(chains', dsp', received', received')
          /\ IsPushed(chains', out', PushedFor(received'))
      BY DEF Running
    <3>2. InStep(chains, dsp, received, received)' <=> InStep(chains', dsp', received', received')
      BY DEF InStep, IsDsp, IsDelayed, IsOutput, AllHeard, Lines, Line, Heard, MixedIn, Source
    <3>3. IsPushed(chains, out, PushedFor(received))' <=> IsPushed(chains', out', PushedFor(received'))
      BY DEF IsPushed, MixedIn, AllHeard, Lines, PushedFor
    <3> QED
      BY <2>1, <3>1, <3>2, <3>3 DEF Running
  <2>5. stage = "closed" => (ChainsOK /\ received \in Nat /\ IsPushed(chains, out, received))'
    <3> SUFFICES ASSUME stage = "closed"
                 PROVE  (ChainsOK /\ received \in Nat /\ IsPushed(chains, out, received))'
      OBVIOUS
    <3>1. ChainsOK' /\ received' \in Nat /\ IsPushed(chains', out', received')
      BY <2>1 DEF RendererInv
    <3>2. IsPushed(chains, out, received)' <=> IsPushed(chains', out', received')
      BY DEF IsPushed, MixedIn, AllHeard, Lines
    <3> QED
      BY <3>1, <3>2
  <2>6. stage = "failed" =>
          (out = <<>> \/ (ChainsOK /\ \E n \in Nat : IsPushed(chains, out, n)))'
    <3> SUFFICES ASSUME stage = "failed", out' # <<>>
                 PROVE  (ChainsOK /\ \E n \in Nat : IsPushed(chains, out, n))'
      OBVIOUS
    <3>1. ChainsOK' /\ \E n \in Nat : IsPushed(chains', out', n)
      BY <2>1, <2>2 DEF RendererInv
    <3>2. (\E n \in Nat : IsPushed(chains, out, n))' <=> \E n \in Nat : IsPushed(chains', out', n)
      BY DEF IsPushed, MixedIn, AllHeard, Lines
    <3> QED
      BY <3>1, <3>2
  <2> QED
    BY <1>1, <2>2, <2>4, <2>5, <2>6 DEF RendererInv
<1> QED
  BY <1>2, <1>3

LEMMA RendererInvNext ==
  RendererInv /\ [RendererNext]_<<riVars, rendererVars>> => RendererInv'
<1> SUFFICES ASSUME RendererInv, [RendererNext]_<<riVars, rendererVars>> PROVE RendererInv'
  OBVIOUS
<1>1. ItemsInv /\ timing \in Timings[doc]
  BY DEF RendererInv
<1>2. ASSUME UNCHANGED <<riVars, rendererVars>> PROVE RendererInv'
  <2>1. UNCHANGED <<timing, stage, chains, dsp, received, out>> /\ UNCHANGED riVars
    BY <1>2 DEF rendererVars
  <2>2. ItemsInv' /\ doc' = doc
    BY <1>1, <2>1, ItemsNext DEF riVars, itemVars
  <2> QED
    BY <2>1, <2>2, RendererInvStays
<1>3. CASE SelectItems
  <2>1. /\ stage = "initialise" /\ RINext
        /\ UNCHANGED <<timing, stage, chains, dsp, received, out>>
    BY <1>3 DEF SelectItems, rendererVars
  <2>2. ItemsInv'
    BY <1>1, <2>1, ItemsNext
  <2>3. doc' = doc
    BY <2>1 DEF RINext, SelectPackMapping, AllocatePacks, FinishMapping, ReturnItems, Returned,
                riVars, itemVars
  <2> QED
    BY <2>1, <2>2, <2>3, RendererInvStays
<1>4. CASE SetupRenderingItems
  <2>1. /\ stage = "initialise" /\ timing # None
        /\ UNCHANGED <<riVars, timing, dsp, received, out>> /\ Started
    BY <1>4 DEF SetupRenderingItems, RendererInv
  <2>2. ItemsInv' /\ timing' \in Timings'[doc']
    <3>1. ItemsInv' /\ doc' = doc
      BY <1>1, <2>1, ItemsNext DEF riVars, itemVars
    <3> QED
      BY <1>1, <2>1, <3>1
  <2>3. CASE \A i \in DOMAIN items : ItemOK(items[i])
    <3>1. stage' = "running" /\ chains' = [i \in DOMAIN items |-> Chain(items[i])]
      BY <1>4, <2>3 DEF SetupRenderingItems
    <3>2. ChainsOK'
      <4>1. items' = items /\ doc' = doc /\ timing' = timing
        BY <2>1 DEF riVars, itemVars
      <4>2. ASSUME NEW x PROVE Chain(x)' = Chain(x) /\ (ItemOK(x)' <=> ItemOK(x))
        BY <4>1 DEF Chain, ItemOK, ObjectOf, BlocksOf
      <4> QED
        BY <2>1, <2>3, <3>1, <4>1, <4>2 DEF ChainsOK
    <3>3. received' = 0 /\ dsp' = InitialDsp /\ out' = <<>>
      BY <2>1 DEF Started
    <3>4. InStep(chains', dsp', received', received')
      BY <3>3, InitiallyInStep
    <3>5. IsPushed(chains', out', PushedFor(received'))
      <4>1. PushedFor(received') = 0
        BY <3>3, DelayIsPositive
      <4>2. \A S : <<>> \in Seq(S) /\ Len(<<>>) = 0
        OBVIOUS
      <4> QED
        BY <3>3, <4>1, <4>2 DEF IsPushed
    <3>6. InStep(chains, dsp, received, received)' <=> InStep(chains', dsp', received', received')
      BY DEF InStep, IsDsp, IsDelayed, IsOutput, AllHeard, Lines, Line, Heard, MixedIn, Source
    <3>7. IsPushed(chains, out, PushedFor(received))' <=> IsPushed(chains', out', PushedFor(received'))
      BY DEF IsPushed, MixedIn, AllHeard, Lines, PushedFor
    <3>8. received' \in Nat
      BY <3>3
    <3>9. Running'
      BY <3>2, <3>4, <3>5, <3>6, <3>7, <3>8 DEF Running
    <3>10. stage' # "initialise" /\ stage' # "closed" /\ stage' # "failed"
      BY <3>1
    <3> QED
      BY <2>2, <3>1, <3>9, <3>10 DEF RendererInv
  <2>4. CASE ~\A i \in DOMAIN items : ItemOK(items[i])
    <3>1. stage' = "failed" /\ out' = <<>>
      BY <1>4, <2>1, <2>4 DEF SetupRenderingItems, Started
    <3>2. stage' # "initialise" /\ stage' # "closed" /\ stage' # "running"
      BY <3>1
    <3> QED
      BY <2>2, <3>1, <3>2 DEF RendererInv
  <2> QED
    BY <2>3, <2>4
<1>5. CASE \E b \in InputBlocks : ProcessBlock(b)
  BY <1>5, ProcessBlockKeeps
<1>6. CASE EndOfInput
  BY <1>6, EndOfInputKeeps
<1>7. CASE Rendered
  BY <1>2, <1>7 DEF Rendered
<1> QED
  BY <1>2, <1>3, <1>4, <1>5, <1>6, <1>7 DEF RendererNext

\* The output at each sample is what the document says of it.
LEMMA PushedIsRendered ==
  ASSUME ItemsInv, ChainsOK, timing \in Timings[doc], NEW m \in Nat, IsPushed(chains, out, m)
  PROVE  Len(out) = m /\ \A n \in DOMAIN out : out[n] = InDocument(n - 1)
<1>1. Len(out) = m /\ DOMAIN out = 1 .. m
  BY DEF IsPushed
<1>2. ASSUME NEW n \in 1 .. m PROVE out[n] = InDocument(n - 1)
  <2>1. out[n] = MixedIn(chains, ObjectsType, n - 1, n - 1)
                   \cup MixedIn(chains, OtherTypes, n - 1, n - 1)
    BY DEF IsPushed
  <2>2. n - 1 \in Nat
    OBVIOUS
  <2> QED
    BY <2>1, <2>2, MixedAsInDocument
<1> QED
  BY <1>1, <1>2

\* The output is in step with the input, whatever blocks the input comes in, and is
\* what the document says: CombinedRenderer, VariableBlockSizeAdapter and the loop
\* of RendererProcess::process(), for every block size and delay.
THEOREM OutputIsInStep == RendererSpec => []RenderedInStep
<1> DEFINE vars == <<riVars, rendererVars>>
<1>1. RendererInv => RenderedInStep
  <2> SUFFICES ASSUME RendererInv PROVE RenderedInStep
    OBVIOUS
  <2>1. ItemsInv /\ timing \in Timings[doc]
    BY DEF RendererInv
  <2>2. CASE out = <<>> /\ stage # "running" /\ stage # "closed"
    <3>1. DOMAIN out = {}
      BY <2>2
    <3> QED
      BY <2>2, <3>1 DEF RenderedInStep
  <2>3. CASE stage = "running"
    <3>1. Running /\ PushedFor(received) \in Nat
      BY <2>3, DelayIsPositive DEF RendererInv, Running, PushedFor
    <3>2. /\ Len(out) = PushedFor(received)
          /\ \A n \in DOMAIN out : out[n] = InDocument(n - 1)
      BY <2>1, <3>1, PushedIsRendered DEF Running
    <3> QED
      BY <2>3, <3>2 DEF RenderedInStep, PushedFor
  <2>4. CASE stage = "closed"
    <3>1. ChainsOK /\ received \in Nat /\ IsPushed(chains, out, received)
      BY <2>4 DEF RendererInv
    <3>2. Len(out) = received /\ \A n \in DOMAIN out : out[n] = InDocument(n - 1)
      BY <2>1, <3>1, PushedIsRendered
    <3> QED
      BY <2>4, <3>2 DEF RenderedInStep
  <2>5. CASE stage \notin {"running", "closed"} /\ out # <<>>
    <3>1. stage = "failed"
      BY <2>5 DEF RendererInv, Started
    <3>2. PICK m \in Nat : ChainsOK /\ IsPushed(chains, out, m)
      BY <2>5, <3>1 DEF RendererInv
    <3>3. \A n \in DOMAIN out : out[n] = InDocument(n - 1)
      BY <2>1, <3>2, PushedIsRendered
    <3> QED
      BY <2>5, <3>3 DEF RenderedInStep
  <2> QED
    BY <2>2, <2>3, <2>4, <2>5
<1> QED
  BY <1>1, RendererInvInit, RendererInvNext, PTL DEF RendererSpec

\* The assertion of update_packs_possible() holds in every search that the renderer
\* makes, whatever the document.
THEOREM RendererNeverOvercommits == RendererSpec => []NeverOvercommits
<1>1. RendererInv => NeverOvercommits
  <2> SUFFICES ASSUME RendererInv PROVE NeverOvercommits
    OBVIOUS
  <2>1. CASE phase = "allocate"
    BY <2>1 DEF RendererInv, ItemsInv, SearchInv, CallOK, SolutionOK, NeverOvercommits
  <2>2. CASE phase # "allocate"
    <3>1. calls = <<>>
      BY <2>2 DEF RendererInv, ItemsInv
    <3> QED
      BY <3>1 DEF NeverOvercommits
  <2> QED
    BY <2>1, <2>2
<1> QED
  BY <1>1, RendererInvInit, RendererInvNext, PTL DEF RendererSpec
===============================================================================
