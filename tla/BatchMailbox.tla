---------------------------- MODULE BatchMailbox ---------------------------
(***************************************************************************)
(* What the output thread promises: a mailbox for one batch.  A batch is   *)
(* put in only when the mailbox is empty, and is taken out when it has     *)
(* been written; batches are written whole, once, in the order in which    *)
(* they were put in.                                                       *)
(***************************************************************************)
EXTENDS Sequences

CONSTANTS Batches, NoBatch

VARIABLES
  mailbox,     \* the batch that was put in and is not written, or NoBatch
  written      \* the batches written so far

MailboxInit == mailbox = NoBatch /\ written = << >>

Put ==
  /\ mailbox = NoBatch
  /\ mailbox' # NoBatch
  /\ mailbox' \in Batches
  /\ UNCHANGED written

Write ==
  /\ mailbox # NoBatch
  /\ written' = Append(written, mailbox)
  /\ mailbox' = NoBatch

MailboxNext == Put \/ Write

MailboxSpec == MailboxInit /\ [][MailboxNext]_<<mailbox, written>>
=============================================================================
