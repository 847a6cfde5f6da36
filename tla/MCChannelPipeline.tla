-------------------------- MODULE MCChannelPipeline -------------------------
(***************************************************************************)
(* Documents for ChannelPipeline.                                          *)
(***************************************************************************)
EXTENDS ChannelPipeline

CONSTANTS programme, object, nested, unused   \* elements

\* Two tracks of one object, one of an object that no programme refers to.
Flat ==
  [elements |-> {programme, object, unused, 1, 2, 3}, programmes |-> {programme},
   tracks |-> {1, 2, 3}, silent |-> {}, common |-> {},
   refs |-> {<<programme, object>>, <<object, 1>>, <<object, 3>>, <<unused, 2>>}]

\* Objects within objects, a silent track and one nothing refers to.
Deep ==
  [elements |-> {programme, object, nested, 1, 2, 3}, programmes |-> {programme},
   tracks |-> {1, 2, 3}, silent |-> {1}, common |-> {},
   refs |-> {<<programme, object>>, <<object, nested>>, <<object, 1>>, <<nested, 2>>}]

TwoDocuments == {Flat, Deep}
=============================================================================
