--------------------------- MODULE WalletSession ---------------------------
(***************************************************************************)
(* The wallet of a page (frontend/src/services/wallet.service.ts) and the  *)
(* modal that connects it (components/wallet-modal).  Connecting awaits    *)
(* the user's wallet; the modal can be closed and opened again meanwhile,  *)
(* and a page that is connected can connect another wallet.  The wallets   *)
(* themselves are external.                                                *)
(***************************************************************************)
EXTENDS Naturals, Wallets

VARIABLES
  signer,      \* signerSignal, with the name and the address that go with it
  connecting,  \* the wallet that a connectWallet call waits for: isConnecting
  modal        \* the modal: closed, open, or waiting for the call it made

walletVars == <<signer, connecting, modal>>

IsConnected == signer # NoOne

WalletInit ==
  /\ signer = NoOne
  /\ connecting = NoOne
  /\ modal = "closed"

\* Header, gallery and the other screens open it, connected or not.
OpenModal ==
  /\ modal = "closed"
  /\ modal' = "open"
  /\ UNCHANGED <<signer, connecting>>

\* Close, Cancel, backdrop or Escape: a connection under way goes on.
CloseModal ==
  /\ modal # "closed"
  /\ modal' = "closed"
  /\ UNCHANGED <<signer, connecting>>

\* The list of wallets is shown only while none is being connected.
SelectWallet(a) ==
  /\ modal = "open"
  /\ connecting = NoOne
  /\ connecting' = a
  /\ modal' = "waiting"
  /\ UNCHANGED signer

\* The modal that made the call closes; one opened since stays.
ConnectWallet ==
  /\ connecting # NoOne
  /\ signer' = connecting
  /\ connecting' = NoOne
  /\ modal' = IF modal = "waiting" THEN "closed" ELSE modal

ConnectFails ==
  /\ connecting # NoOne
  /\ connecting' = NoOne
  /\ modal' = IF modal = "waiting" THEN "open" ELSE modal
  /\ UNCHANGED signer

WalletNext ==
  \/ OpenModal \/ CloseModal
  \/ \E a \in Accounts : SelectWallet(a)
  \/ ConnectWallet \/ ConnectFails

WalletTypeOK ==
  /\ signer \in Accounts \cup {NoOne}
  /\ connecting \in Accounts \cup {NoOne}
  /\ modal \in {"closed", "open", "waiting"}
=============================================================================
