------------------------- MODULE MCSnapshotWorkflow -------------------------
(* Cases for TLC: every combination of what the graph distinguishes.       *)
EXTENDS SnapshotWorkflow

AllAnswers == Intents \cup Actions

\* A model may classify any text as any intent, so its text does not matter;
\* its cases are of the kind that needs all tools, a parcel still under way.
AllCases == {c \in [text : Intents, delivery : BOOLEAN, messages : {1}, attached : BOOLEAN,
                    tracking : {"none", "moving", "on_time", "late"}, completed : {FALSE},
                    rag : BOOLEAN, model : BOOLEAN] :
    c.model => c.text = "other" /\ c.delivery /\ c.tracking = "moving"}

\* A late parcel and an order that does or does not know it arrived.
ConflictCases == [text : {"delivery_delay_compensation"}, delivery : {TRUE}, messages : {1},
                  attached : {FALSE}, tracking : {"late", "moving"}, completed : BOOLEAN,
                  rag : BOOLEAN, model : {FALSE}]
=============================================================================
