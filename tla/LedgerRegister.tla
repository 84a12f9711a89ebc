--------------------------- MODULE LedgerRegister ---------------------------
(***************************************************************************)
(* What the store of a drift ledger promises to its callers: one register. *)
(* A put replaces the whole ledger of the version its caller read by the   *)
(* next version, so that no change of another writer is lost; a get        *)
(* returns the ledger of one instant, whole, or nothing but an error.      *)
(***************************************************************************)
EXTENDS Naturals

CONSTANTS RegisterTools, RegisterReaders

VARIABLES
  current,   \* the ledger: version and tools, version 0 and no tool at first
  answer     \* what each reader was given last, while it uses it

Nothing == [ver |-> 0, tools |-> {}]
NoAnswer == [given |-> FALSE, ledger |-> Nothing]

RegisterInit ==
  /\ current = Nothing
  /\ answer = [r \in RegisterReaders |-> NoAnswer]

Replace(T) ==
  /\ T # {}
  /\ current' = [ver |-> current.ver + 1, tools |-> T]
  /\ UNCHANGED answer

Give(r) ==
  /\ ~ answer[r].given
  /\ answer' = [answer EXCEPT ![r] = [given |-> TRUE, ledger |-> current]]
  /\ UNCHANGED current

Used(r) ==
  /\ answer[r].given
  /\ answer' = [answer EXCEPT ![r] = NoAnswer]
  /\ UNCHANGED current

RegisterNext ==
  \/ \E T \in SUBSET RegisterTools : Replace(T)
  \/ \E r \in RegisterReaders : Give(r) \/ Used(r)

RegisterSpec == RegisterInit /\ [][RegisterNext]_<<current, answer>>
=============================================================================
