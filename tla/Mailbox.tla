------------------------------ MODULE Mailbox ------------------------------
(***************************************************************************)
(* What one direction of the clipboard channel promises its user: what is  *)
(* copied may be lost, but what arrives is what was copied, whole, at most *)
(* once, and never after something copied later.                           *)
(***************************************************************************)
EXTENDS Integers, Sequences

CONSTANTS Mails,     \* what is copied, one after the other
          Accepted   \* the positions of those that are not too long

VARIABLES taken,     \* how many have been taken up
          got        \* what has arrived

mailVars == <<taken, got>>

MailInit == taken = 0 /\ got = << >>

TakeUp == /\ taken < Len(Mails)
          /\ taken' = taken + 1
          /\ UNCHANGED got

Before(k) == \A d \in DOMAIN got : \A j \in Accepted : got[d] = Mails[j] => j < k
Arrive(k) == /\ k <= taken /\ Before(k)
             /\ got' = Append(got, Mails[k])
             /\ UNCHANGED taken

MailNext == TakeUp \/ \E k \in Accepted : Arrive(k)

MailSpec == MailInit /\ [][MailNext]_mailVars
===========================================================================
