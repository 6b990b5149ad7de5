---------------------------- MODULE HarnessToken ----------------------------
(***************************************************************************)
(* The token the evaluations and the command line ask with (token_for of   *)
(* agent/identity.py): from the cache, the environment, a command that     *)
(* renews it, or a sign-in.  One process, one user, calls in sequence.     *)
(***************************************************************************)
EXTENDS Integers

CONSTANTS Lifetime,         \* of a token when it is issued
          Slack,            \* the 60 s a token must have left
          Assumed,          \* the 300 s assumed of a token that names no expiry
          LastTime          \* bound: where the clock stops

ASSUME TokenAssumption == /\ Slack \in Nat /\ Assumed \in Nat /\ LastTime \in Nat
                          /\ Lifetime \in Nat \ {0}

VARIABLES mode,             \* DAS_HARNESS_AUTH
          supplied,         \* DAS_TOKEN_<UPN>
          cached,           \* _CACHE: the token and until when it is taken to live
          handed,           \* what token_for returns
          time
tokenVars == <<mode, supplied, cached, handed, time>>

Times == 0 .. LastTime + Lifetime + Assumed
Token(exp, readable) == [exp |-> exp, readable |-> readable]
None == Token(0, FALSE)
HarnessTokens == [exp : Times, readable : BOOLEAN]

TokenType == /\ mode \in {"password", "device", "token"}
             /\ supplied \in HarnessTokens
             /\ cached \in [token : HarnessTokens, until : Times]
             /\ handed \in [token : HarnessTokens, by : {"none", "cache", "supplied", "refresh", "signIn", "unavailable"}]
             /\ time \in 0 .. LastTime

NotHanded == [token |-> None, by |-> "none"]

TokenInit == /\ mode \in {"password", "device", "token"}
             /\ supplied \in {None} \cup {Token(Lifetime, readable) : readable \in BOOLEAN}
             /\ cached = [token |-> None, until |-> 0]
             /\ handed = NotHanded
             /\ time = 0

Expiry(token) == IF token.readable THEN token.exp ELSE time + Assumed

Expired_Never(token) == FALSE
Expired(token) == Expiry(token) - Slack <= time

Hit == cached.token # None /\ cached.until - Slack > time

Hands(token, until, by) == /\ cached' = [token |-> token, until |-> until]
                           /\ handed' = [token |-> token, by |-> by]

Idle == handed = NotHanded

FromCache == /\ Idle
             /\ Hit
             /\ handed' = [token |-> cached.token, by |-> "cache"]
             /\ UNCHANGED <<mode, supplied, cached, time>>
FromSupplied == /\ Idle /\ ~Hit
                /\ supplied # None
                /\ ~Expired(supplied)
                /\ Hands(supplied, Expiry(supplied), "supplied")
                /\ UNCHANGED <<mode, supplied, time>>

(* The command the wrapper gave prints a token of its own, good or old. *)
Refresh == /\ Idle /\ ~Hit
           /\ supplied # None
           /\ Expired(supplied)
           /\ \E exp \in {time, time + Lifetime} :
                  LET token == Token(exp, TRUE) IN
                  supplied' = token /\ Hands(token, Expiry(token), "refresh")
           /\ UNCHANGED <<mode, time>>

MaySignIn == Idle /\ ~Hit /\ (supplied = None \/ Expired(supplied))

(* The command there is not, or that fails; then the mode. *)
Unavailable == /\ MaySignIn
               /\ handed' = [token |-> None, by |-> "unavailable"]
               /\ UNCHANGED <<mode, supplied, cached, time>>
SignIn == /\ MaySignIn
          /\ mode # "token"
          /\ Hands(Token(time + Lifetime, TRUE), time + Lifetime, "signIn")
          /\ UNCHANGED <<mode, supplied, time>>

Taken == /\ ~Idle
         /\ handed' = NotHanded
         /\ UNCHANGED <<mode, supplied, cached, time>>
Elapse == /\ Idle
          /\ time < LastTime
          /\ time' = time + 1
          /\ UNCHANGED <<mode, supplied, cached, handed>>

TokenNext == FromCache \/ FromSupplied \/ Refresh \/ Unavailable \/ SignIn \/ Taken \/ Elapse
TokenSpec == TokenInit /\ [][TokenNext]_tokenVars

-----------------------------------------------------------------------------
(* However long a run goes on, a token that names its own expiry is alive  *)
(* when it is handed over, unless it is what the command has just printed. *)
HandedAlive == handed.by \in {"cache", "supplied", "signIn"} /\ handed.token.readable =>
                   handed.token.exp > time
=============================================================================
