---------------------------- MODULE MCMerchants ----------------------------
(***************************************************************************)
(* Merchants for TLC, with two histories: the username each merchant       *)
(* signed up with, and the usernames two sign-ups asked for at one time.   *)
(***************************************************************************)
EXTENDS Merchants, TLC

ASSUME ThreadPoolAssumption == IsFiniteSet(Threads)

VARIABLES asked, contested

MCInit ==
  /\ Init
  /\ asked = [m \in Merchant |-> None]
  /\ contested = {}

MCNext ==
  /\ Next
  /\ asked' = [m \in Merchant |-> IF m \in Known' \ Known
                                  THEN name[CHOOSE w \in Threads : id'[w] = m]
                                  ELSE asked[m]]
  /\ contested' = contested \cup
       {u \in Username : Cardinality({w \in Threads : name'[w] = u}) > 1}

MCSpec == MCInit /\ [][MCNext]_<<vars, asked, contested>>

\* Everything but the short codes is interchangeable.
Symmetry ==
  Permutations(Merchant) \cup Permutations(Username)
    \cup Permutations(Token) \cup Permutations(Threads)

\* A sign-up creates the merchant and its login (onboarding.py:74 "Register a new
\* merchant as pending and create its login"): a merchant in the table can be
\* logged into, unless its request is still running or died, or two sign-ups
\* wanted its username at once.
EveryMerchantHasLogin ==
  crashes = 0 =>
    \A m \in Known :
      \/ login[m] = asked[m]
      \/ \E w \in Threads : pc[w] = "credential" /\ id[w] = m
      \/ asked[m] \in contested
=============================================================================
