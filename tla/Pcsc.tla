-------------------------------- MODULE Pcsc --------------------------------
(***************************************************************************)
(* The smart card as SmartGuard meets it through PC/SC: what is plugged    *)
(* into the readers, the one connection (Card<Open>) the card thread owns, *)
(* and the User PIN of that card.  Everything here but the two fields of   *)
(* the connection is outside the repository and is modelled from how       *)
(* smartguard-crypto/src/thread.rs uses it.                                *)
(***************************************************************************)
EXTENDS Naturals

CONSTANTS
  Cards,      \* OpenPGP cards, each standing for its application ident
  KeyCards,   \* those with a usable key in the decryption slot
  NoCard,     \* "no card"
  PinLimit    \* VERIFY attempts a card allows before it blocks the PIN

ASSUME PcscAssumption ==
  /\ KeyCards \subseteq Cards
  /\ NoCard \notin Cards
  /\ PinLimit \in Nat \ {0}

VARIABLES
  inserted,   \* the cards now in some reader
  held,       \* the card the thread's Card<Open> was opened on, or NoCard
  live,       \* that connection still reaches the card
  pinOk,      \* the PIN cached by the thread is the card's User PIN
  tries       \* VERIFY attempts left on the card

pcscVars == <<inserted, held, live, pinOk, tries>>

PcscTypeOK ==
  /\ inserted \subseteq Cards
  /\ held \in Cards \cup {NoCard}
  /\ live \in BOOLEAN
  /\ pinOk \in BOOLEAN
  /\ tries \in 0 .. PinLimit

PcscInit ==
  /\ inserted \in SUBSET Cards
  /\ held = NoCard
  /\ live = FALSE
  /\ pinOk \in BOOLEAN
  /\ tries \in 0 .. PinLimit

-----------------------------------------------------------------------------
(* What other people and programs do to the card.                          *)

Insert(c) ==
  /\ c \notin inserted
  /\ inserted' = inserted \cup {c}
  /\ UNCHANGED <<held, live, pinOk, tries>>

\* A connection does not survive the removal of its card: it stays dead when
\* the card comes back, until the thread connects anew.
Remove(c) ==
  /\ c \in inserted
  /\ inserted' = inserted \ {c}
  /\ live' = (live /\ c # held)
  /\ UNCHANGED <<held, pinOk, tries>>

\* Another PC/SC consumer changes the User PIN (or changes it back).  It must
\* present the current PIN, which refills the counter.
ChangePin ==
  /\ held \in inserted
  /\ tries > 0
  /\ pinOk' = ~pinOk
  /\ tries' = PinLimit
  /\ UNCHANGED <<inserted, held, live>>

PinAccepted == pinOk /\ tries > 0

\* What a rejected VERIFY leaves of the counter; a blocked card stays blocked.
AfterRejection == IF tries = 0 THEN 0 ELSE tries - 1
=============================================================================
