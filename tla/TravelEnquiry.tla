--------------------------- MODULE TravelEnquiry ---------------------------
(***************************************************************************)
(* The two travel enquiries of the WhatsApp conversation: one question per *)
(* message, along a plan that is computed again from the answers on every  *)
(* turn.  A question whose answer decides nothing has the answer "given";  *)
(* the five questions about one visa applicant are one.                    *)
(***************************************************************************)
EXTENDS Naturals, Sequences, SequencesExt

CONSTANTS
    Applicant,      \* the questions about the visa applicants, in order (bound: their number)
    MaxDay          \* bound: days to choose from

\* The questions of both plans about anything else.
Question == {"destination", "passport", "residence", "behalf", "company", "purpose", "date_mode",
    "month", "travel_date", "travellers", "contact_name", "contact_email", "contact_phone", "notes",
    "trip_type", "from", "to", "depart_date", "return_date", "cabin", "passengers"}

ASSUME EnquiryAssumption ==
    /\ Applicant \in Seq(ToSet(Applicant)) /\ Len(Applicant) > 0
    /\ ToSet(Applicant) \cap Question = {}
    /\ MaxDay \in Nat \ {0}

MaxApplicant == Len(Applicant)

VARIABLE form   \* whatsapp_state_json["travel_enquiry"]

NoForm == [service |-> "none", phase |-> "collect", index |-> 1, answers |-> <<>>]

Says(answers, key, value) == key \in DOMAIN answers /\ answers[key] = value
Number(answers, key) == IF key \in DOMAIN answers THEN answers[key] ELSE 0

-----------------------------------------------------------------------------
(* The plan and its answers.                                               *)

PlanVisa(answers) ==
    <<"destination", "passport", "residence", "behalf">>
    \o (IF Says(answers, "behalf", "corporate") THEN <<"company">> ELSE <<>>)
    \o <<"purpose", "date_mode",
         IF Says(answers, "date_mode", "tentative") THEN "month" ELSE "travel_date", "travellers">>
    \o SubSeq(Applicant, 1, Number(answers, "travellers"))
    \o <<"contact_name", "contact_email", "contact_phone", "notes">>

PlanTicketing(answers) ==
    <<"trip_type", "from", "to", "depart_date">>
    \o (IF Says(answers, "trip_type", "round_trip") THEN <<"return_date">> ELSE <<>>)
    \o <<"cabin", "passengers", "contact_name", "contact_email">>

Plan(service, answers) ==
    IF service = "visa" THEN PlanVisa(answers) ELSE PlanTicketing(answers)

\* validate_answer: what is accepted for a question.
Accepts(key, answers) ==
    CASE key = "behalf" -> {"self", "corporate"}
      [] key = "date_mode" -> {"fixed", "tentative"}
      [] key = "trip_type" -> {"one_way", "round_trip"}
      [] key = "travellers" -> 1 .. MaxApplicant
      [] key = "depart_date" -> 1 .. MaxDay
      [] key = "return_date" -> Number(answers, "depart_date") .. MaxDay
      [] OTHER -> {"given"}

-----------------------------------------------------------------------------
FormInit == form = NoForm

\* _start_travel_enquiry.
StartForm ==
    /\ form = NoForm
    /\ \E s \in {"visa", "ticketing"} : form' = [NoForm EXCEPT !.service = s]

\* Faulty: the last question is not asked.
GiveEarly ==
    /\ form.service # "none" /\ form.phase = "collect"
    /\ LET key == Plan(form.service, form.answers)[form.index] IN
       \E value \in Accepts(key, form.answers) :
          LET answers == [k \in DOMAIN form.answers \cup {key} |->
                              IF k = key THEN value ELSE form.answers[k]]
              last == form.index + 1 >= Len(Plan(form.service, answers)) IN
          form' = [form EXCEPT !.answers = answers, !.index = @ + 1,
                               !.phase = IF last THEN "review" ELSE @]

\* _state_travel_enquiry.
Give ==
    /\ form.service # "none" /\ form.phase = "collect"
    /\ LET key == Plan(form.service, form.answers)[form.index] IN
       \E value \in Accepts(key, form.answers) :
          LET answers == [k \in DOMAIN form.answers \cup {key} |->
                              IF k = key THEN value ELSE form.answers[k]]
              last == form.index >= Len(Plan(form.service, answers)) IN
          form' = [form EXCEPT !.answers = answers, !.index = @ + 1,
                               !.phase = IF last THEN "review" ELSE @]

\* _handle_enquiry_review: Change Details asks everything again.
Edit ==
    /\ form.phase = "review"
    /\ form' = [form EXCEPT !.phase = "collect", !.index = 1]

\* Faulty: Back at the first question stays in the form.
FormBackBelow ==
    /\ form.service # "none" /\ form.phase \in {"collect", "review"}
    /\ LET index == IF form.phase = "review" THEN Len(Plan(form.service, form.answers))
                                             ELSE form.index - 1 IN
       form' = [form EXCEPT !.phase = "collect", !.index = index]

\* _travel_enquiry_back.
FormBack ==
    /\ form.service # "none" /\ form.phase \in {"collect", "review"}
    /\ LET index == IF form.phase = "review" THEN Len(Plan(form.service, form.answers))
                                             ELSE form.index - 1 IN
       form' = IF index = 0 THEN NoForm ELSE [form EXCEPT !.phase = "collect", !.index = index]

\* _submit_travel_enquiry; the answers now live on the booking.
SubmitForm ==
    /\ form.phase = "review"
    /\ form' = [form EXCEPT !.phase = "submitted", !.answers = <<>>]

\* Hi, Cancel and the expiry of the session.
LeaveForm == form # NoForm /\ form' = NoForm

FormNext == StartForm \/ Give \/ Edit \/ FormBack \/ SubmitForm \/ LeaveForm
FormSpec == FormInit /\ [][FormNext]_form

-----------------------------------------------------------------------------
FormTypeOK ==
    /\ form.service \in {"none", "visa", "ticketing"}
    /\ form.phase \in {"collect", "review", "submitted"}
    /\ DOMAIN form.answers \subseteq Question \cup ToSet(Applicant)
    /\ form.phase = "collect" => form.index \in 1 .. Len(Plan(form.service, form.answers))

\* What the review shows and the desk receives answers every question of the
\* plan, with answers that are still accepted together, although the customer
\* went back and changed answers that others depend on (_state_travel_enquiry).
FormComplete == form.phase = "review" =>
    \A key \in ToSet(Plan(form.service, form.answers)) :
        key \in DOMAIN form.answers /\ form.answers[key] \in Accepts(key, form.answers)
=============================================================================
