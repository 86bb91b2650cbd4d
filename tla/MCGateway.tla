------------------------------ MODULE MCGateway ------------------------------
\* Instances of Gateway for TLC.
EXTENDS Gateway, TLC

CONSTANTS gg_oferta, legacy, dynamic

OneApp == {gg_oferta}
Creds == {legacy, dynamic}
Owners == [c \in Creds |-> gg_oferta]
LegacyCreds == {legacy}

Plain == [form |-> "ok", wants |-> {}]
Plainly == {Plain}
\* Every way a request can be malformed or refused by a policy.
Mixed == {[form |-> f, wants |-> {}] : f \in Forms}
            \cup {[form |-> "ok", wants |-> w] :
                    w \in {{"free only"}, {"max tokens"}, {"over limit", "max tokens"}}}

Free == [enabled |-> TRUE, key |-> TRUE, paid |-> FALSE, enforces |-> TRUE]
Paid == [enabled |-> TRUE, key |-> TRUE, paid |-> TRUE, enforces |-> FALSE]
NoKey == [enabled |-> TRUE, key |-> FALSE, paid |-> FALSE, enforces |-> FALSE]
Off == [enabled |-> FALSE, key |-> FALSE, paid |-> FALSE, enforces |-> FALSE]

AllFree == [c \in Cap |-> Free]
Varied == [c \in Cap |-> CASE c = "ai" -> Paid [] c = "search" -> Off [] c = "fetch" -> NoKey]

RequestSymmetry == Permutations(Request)
=============================================================================
