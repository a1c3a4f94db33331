------------------------------- MODULE MCImap -------------------------------
(***************************************************************************)
(* Small archives for TLC: a message with a label that is INBOX but for    *)
(* its case and one without labels, messages that share a label.           *)
(***************************************************************************)
EXTENDS ImapProjection, TLC

CONSTANTS m1, m2, inboxLabel, work, j1, j2

Plain   == (m1 :> {inboxLabel}) @@ (m2 :> {})
Labels2 == (m1 :> {inboxLabel, work}) @@ (m2 :> {inboxLabel})
=============================================================================
