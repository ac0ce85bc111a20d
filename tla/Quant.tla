-------------------------------- MODULE Quant --------------------------------
(***************************************************************************)
(* The quantisation corrections of the pulses: vtimer_set_correction stores  *)
(* what the receiver says about a pulse, vtimer_get_frac_delta uses it up     *)
(* when it measures one.  A LEADING receiver (ublox) says it in the second   *)
(* before the pulse, a LAGGING one (tsip) in the second after it.  Nothing in *)
(* the code ties a correction to its pulse but the order of messages, pulses  *)
(* and rounds of pll_thread.                                                *)
(*                                                                         *)
(* A correction is named by the pulse it is for, relative to the pulse of    *)
(* the present second.                                                     *)
(***************************************************************************)
EXTENDS Integers

Zero == 2   \* 0.0f: no correction
Oldest == -2

VARIABLES
    leadlag,                          \* of the receiver: "LEADING" or "LAGGING"
    quant_corr, quant_corr_deferred,
    used_quant,                       \* STATUS_USED_QUANT
    stage,                            \* of the second: before the pulse, message, round; after it
    captured,                         \* a pulse waits in mono_capture
    testing,                          \* FLAG_HOLDOVER_TEST
    sent,                             \* history: the receiver has sent its message
    sentBefore,                       \* history: it had in the second before
    steady                            \* history: ordinary seconds without a break, up to two

qvars == <<leadlag, quant_corr, quant_corr_deferred, used_quant, stage, captured, testing, sent,
           sentBefore, steady>>

QuantInit ==
    /\ leadlag \in {"LEADING", "LAGGING"}
    /\ quant_corr = Zero /\ quant_corr_deferred = Zero /\ used_quant = FALSE
    /\ stage = "pulse" /\ captured = FALSE /\ testing = FALSE
    /\ sent = FALSE /\ sentBefore = FALSE /\ steady = 0

\* Seen from a second later.
Aged(corr) == IF corr = Zero THEN Zero ELSE IF corr = Oldest THEN Oldest ELSE corr - 1

\* The second begins, with or without a pulse.
PulseOrNot ==
    /\ stage = "pulse"
    /\ stage' = "message"
    /\ captured' \in BOOLEAN
    /\ quant_corr' = Aged(quant_corr) /\ quant_corr_deferred' = Aged(quant_corr_deferred)
    /\ sent' = FALSE /\ sentBefore' = sent
    /\ UNCHANGED <<leadlag, used_quant, testing, steady>>

\* vtimer_set_correction, from set_quant_ubx and set_quant.
vtimer_set_correction ==
    IF leadlag = "LEADING"
    THEN quant_corr_deferred' = 1 /\ UNCHANGED quant_corr
    ELSE quant_corr' = 0 /\ quant_corr_deferred' = Zero

\* The receiver's message of this second; the serial line may hold it up until after
\* the round.
Message ==
    /\ stage \in {"message", "late"} /\ ~sent
    /\ vtimer_set_correction
    /\ sent' = TRUE
    /\ stage' = IF stage = "message" THEN "round" ELSE "pulse"
    /\ steady' = IF stage = "message" THEN steady ELSE 0
    /\ UNCHANGED <<leadlag, used_quant, captured, testing, sentBefore>>

\* No message before the round, or none at all.
NoMessage ==
    /\ stage \in {"message", "late"}
    /\ stage' = IF stage = "message" THEN "round" ELSE "pulse"
    /\ UNCHANGED <<leadlag, quant_corr, quant_corr_deferred, used_quant, captured, testing, sent,
                   sentBefore, steady>>

\* Fault: the deferred correction stays.
frac_delta_fault ==
    /\ quant_corr' = quant_corr_deferred /\ UNCHANGED quant_corr_deferred
    /\ used_quant' = (quant_corr # Zero)

\* vtimer_get_frac_delta, with interrupts disabled.
vtimer_get_frac_delta ==
    /\ quant_corr' = quant_corr_deferred /\ quant_corr_deferred' = Zero
    /\ used_quant' = (quant_corr # Zero)

\* The round of pll_thread.  A holdover test looks at the pulse only when it reports.
MeasureRound ==
    /\ stage = "round"
    /\ stage' = "late"
    /\ \E reports \in BOOLEAN :
          IF captured /\ (testing => reports)
          THEN /\ vtimer_get_frac_delta
               /\ steady' = IF steady < 2 THEN steady + 1 ELSE 2
          ELSE /\ steady' = 0
               /\ UNCHANGED <<quant_corr, quant_corr_deferred, used_quant>>
    /\ captured' = FALSE
    /\ UNCHANGED <<leadlag, testing, sent, sentBefore>>

\* "set holdover_test=..."
ToggleTest ==
    /\ stage = "pulse"
    /\ testing' = ~testing
    /\ UNCHANGED <<leadlag, quant_corr, quant_corr_deferred, used_quant, stage, captured, sent,
                   sentBefore, steady>>

QuantNext == PulseOrNot \/ Message \/ NoMessage \/ MeasureRound \/ ToggleTest

QuantSpec == QuantInit /\ [][QuantNext]_qvars

-----------------------------------------------------------------------------
\* The correction that belongs to this second's pulse, if the receiver sent it.
Due == IF (leadlag = "LEADING" /\ sentBefore) \/ (leadlag = "LAGGING" /\ sent) THEN 0 ELSE Zero

\* The pulse is measured with its own correction, and with none if its message was
\* lost; only the first two pulses after a round without one, or after a message later
\* than its round, may get another's.
CorrectionBelongs == stage = "round" /\ captured /\ steady = 2 => quant_corr = Due
=============================================================================
