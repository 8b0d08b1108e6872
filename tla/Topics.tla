------------------------------- MODULE Topics -------------------------------
(***************************************************************************)
(* The three bus topics that drive the pipeline, each with the buffered    *)
(* channel of its one acting subscriber (internal/bus: 64 events, dropped  *)
(* when full).  TopicImageUpdated feeds the executor, TopicUpdateApplied   *)
(* the health monitor, TopicContainerUnhealthy the rollback engine.        *)
(***************************************************************************)
EXTENDS Docker

CONSTANT Cap   \* buffer of a subscriber's channel, 64 in the code

ASSUME TopicsAssumption == Cap \in Nat \ {0}

VARIABLES qImage, qApplied, qUnhealthy

topicVars == <<qImage, qApplied, qUnhealthy>>

\* ImageUpdatedPayload; image is the string the executor will pin to new.
ImageUpdated == [id: Id, name: Name, image: Image, new: Image]

\* UpdateAppliedPayload, id being the container that replaced the old one.
UpdateApplied == [id: Id, name: Name, image: Image, new: Image]

\* ContainerUnhealthyPayload.
Unhealthy == [id: Id, name: Name, image: Image, applied: Image, prev: Image]

TopicsTypeOK ==
    /\ qImage \in Seq(ImageUpdated)
    /\ qApplied \in Seq(UpdateApplied)
    /\ qUnhealthy \in Seq(Unhealthy)

\* Bus.Publish for one subscriber: a full buffer drops the event.
Publish(q, m) == IF Len(q) < Cap THEN Append(q, m) ELSE q
=============================================================================
