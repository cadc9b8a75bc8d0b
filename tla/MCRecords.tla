------------------------------ MODULE MCRecords ------------------------------
(***************************************************************************)
(* Requests and the reminder sweep on a small instance.                    *)
(***************************************************************************)
EXTENDS Records

Text == [text |-> "new"]
Done == [status |-> "done"]
Later == [status |-> "pending", due |-> FALSE]
Updates == {Text, Done, Later}
Reminders == 1 :> 1
Consents == 1 :> Category @@ 2 :> {"calendar_data"}
Requests ==
  {1} \X {UpdateReminder(1, Done), DeleteReminder(1), handle(ListEvents),
          set_consent("calendar_data", "denied")}
  \cup {2} \X {CreateReminder(FALSE), set_consent("message_summarization", "granted"), summarize(1)}
=============================================================================
