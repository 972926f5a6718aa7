----------------------------- MODULE ChannelFlow -----------------------------
(***************************************************************************)
(* Channel implements CreditFlow in both directions.  The credit known to  *)
(* the sender and the credit granted differ by what is in flight; the      *)
(* totals the packets carry give both, also after the session has died and *)
(* zeroed its windows.                                                     *)
(***************************************************************************)
EXTENDS ChannelInvariant

LastGranted == GrantedAt(toClient, cgot, Len(toClient))

FirstKnown == IF toServer = <<>> THEN cgrant
              ELSE Head(toServer).granted - CreditOf(Head(toServer))

\* From the client to the shell: the room is buf0, and a byte has left it
\* when it is in the pipe or the shell has read it.
ToShell == INSTANCE CreditFlow WITH Room <- BufSize,
           granted <- LastGranted, known <- cgot,
           sent <- csent, taken <- inpipe + consumed

\* From the shell to the client.
ToUser  == INSTANCE CreditFlow WITH Room <- MaxWindow,
            granted <- cgrant, known <- FirstKnown,
            sent <- ssent, taken <- crcvd

\* channel_open, channel_put, channel_write and the window adjustments are a
\* credit-based flow: credit is given for free room of buf0 only and used
\* once, whatever is in flight and also when the session dies.
InputFlow == ToShell!Spec

\* channel_read, channel_incrementremotewindow and the client's adjustments
\* are one in the other direction.
OutputFlow == ToUser!Spec

==============================================================================
