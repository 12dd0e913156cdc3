----------------------------- MODULE ClaimFlow -----------------------------
(***************************************************************************)
(* Claims that an event's creator signs for a participant: how the backend *)
(* issues and verifies them (issue_claim and verify_claim of routes.rs,    *)
(* verify_signed_claim_proof of relay/tx.rs) and how the claim screen      *)
(* (frontend/src/components/claim) takes one to the minting screen.  The   *)
(* backend keeps nothing of a claim; the token carries all of it.  Wallets *)
(* and signatures are external, one clock counts for all.                  *)
(***************************************************************************)
EXTENDS EventBook

CONSTANTS
  Open,       \* no expiry
  MaxTime,    \* bound: the clock
  MaxClaims   \* bound: claims that are signed

ASSUME ClaimAssumption == MaxTime \in Nat /\ Open \notin Nat /\ MaxClaims \in Nat

VARIABLES
  time,       \* the clock
  signed,     \* the claims that wallets have signed, each with its signer
  issued,     \* history: the tokens that issue_claim has returned
  verifying,  \* the call of verifyClaim, or NoCall
  claim,      \* pendingClaim with the address and the time of its call, or NoCall
  taken       \* the claim that continueToMint took to the minting screen, or NoCall

claimVars == <<time, signed, issued, verifying, claim, taken>>

\* message_to_sign; ids and references of a claim are left out.
Message == [event : Events, recipient : Accounts, expires : {Open} \cup 0..MaxTime]
Signature == [by : Accounts, message : Message]
Token == [message : Message, issuer : Accounts, signature : Signature]
NoCall == [at |-> 0, address |-> NoOne]
Claim == [at : 0..MaxTime, address : Accounts, token : Token]

ClaimInit ==
  /\ time = 0
  /\ signed = {}
  /\ issued = {}
  /\ verifying = NoCall
  /\ claim = NoCall
  /\ taken = NoCall

\* The form takes a token while none is verified; a claim on the screen can be
\* taken on.
CanVerify == verifying = NoCall
OnScreen == claim # NoCall

ClaimTick ==
  /\ time < MaxTime
  /\ time' = time + 1
  /\ UNCHANGED <<signed, issued, verifying, claim, taken, bookVars>>

\* Any wallet signs any claim.
SignClaim(a, m) ==
  /\ Cardinality(signed) < MaxClaims
  /\ signed' = signed \cup {[by |-> a, message |-> m]}
  /\ UNCHANGED <<time, issued, verifying, claim, taken, bookVars>>

SignatureIsValid(t) == t.signature = [by |-> t.issuer, message |-> t.message]

\* Mutant: a claim is over in the second of its expiry.
OverEarly(m) == m.expires # Open /\ time >= m.expires

IsExpired(m) == m.expires # Open /\ time > m.expires

IssuerIsCreator(t) == creator[t.message.event] = t.issuer

-----------------------------------------------------------------------------
\* issue_claim: the claim's fields and the signature come with the request.
IssueClaim(t) ==
  /\ t.signature \in signed
  /\ IssuerIsCreator(t)
  /\ SignatureIsValid(t)
  /\ issued' = issued \cup {t}
  /\ UNCHANGED <<time, signed, verifying, claim, taken, bookVars>>

\* verify_signed_claim_proof.
Verifies(t, address) ==
  /\ IssuerIsCreator(t)
  /\ t.message.recipient = address
  /\ ~IsExpired(t.message)
  /\ SignatureIsValid(t)

\* Any text that carries a signature that exists may be pasted, issued or not.
VerifyClaim(t, a) ==
  /\ CanVerify
  /\ t.signature \in signed
  /\ verifying' = [at |-> time, address |-> a, token |-> t]
  /\ claim' = NoCall
  /\ UNCHANGED <<time, signed, issued, taken, bookVars>>

\* Mutant: the backend looks at the claim's own recipient only.
AnswerForRecipient ==
  /\ verifying # NoCall
  /\ Verifies(verifying.token, verifying.token.message.recipient)
  /\ claim' = [verifying EXCEPT !.at = time]
  /\ verifying' = NoCall
  /\ UNCHANGED <<time, signed, issued, taken, bookVars>>

\* The backend's check, with the clock of that moment, and its answer.
ClaimVerified ==
  /\ verifying # NoCall
  /\ Verifies(verifying.token, verifying.address)
  /\ claim' = [verifying EXCEPT !.at = time]
  /\ verifying' = NoCall
  /\ UNCHANGED <<time, signed, issued, taken, bookVars>>

\* Refused, or no answer.
ClaimFails ==
  /\ verifying # NoCall
  /\ verifying' = NoCall
  /\ UNCHANGED <<time, signed, issued, claim, taken, bookVars>>

\* The claim stays on the screen that is left; the wallet is not looked at
\* again, nor the clock.
ContinueToMint ==
  /\ OnScreen
  /\ taken' = claim
  /\ UNCHANGED <<time, signed, issued, verifying, claim, bookVars>>

ClaimNext ==
  \/ ClaimTick
  \/ \E a \in Accounts, m \in Message : SignClaim(a, m)
  \/ \E t \in Token : IssueClaim(t)
  \/ \E t \in Token, a \in Accounts : VerifyClaim(t, a)
  \/ ClaimVerified \/ ClaimFails \/ ContinueToMint

ClaimTypeOK ==
  /\ time \in 0..MaxTime
  /\ signed \subseteq Signature
  /\ issued \subseteq Token
  /\ verifying \in Claim \cup {NoCall}
  /\ claim \in Claim \cup {NoCall}
  /\ taken \in Claim \cup {NoCall}

\* A claim on the screen, and one that goes to the minting screen, was signed by
\* the creator of its event for the address that presented it, and had not
\* expired when it was verified, whatever fields of the token were altered.  It may
\* have expired since, and the wallet that mints may be another by then
\* (continueToMint takes the event and the hash of the claim along).
ClaimIsVouched ==
  \A c \in {claim, taken} \ {NoCall} :
    LET m == c.token.message IN
    /\ [by |-> creator[m.event], message |-> m] \in signed
    /\ m.recipient = c.address
    /\ m.expires = Open \/ c.at <= m.expires

\* What issue_claim returns is good for its recipient up to and including the
\* second of its expiry: no check of verify_claim refuses what issue_claim let
\* pass (both check issuer and signature, only one the expiry).
IssuedVerifies ==
  \A t \in issued :
    t.message.expires = Open \/ time <= t.message.expires => Verifies(t, t.message.recipient)
=============================================================================
