----------------------------- MODULE MCKeyspace ------------------------------
(* Instances of Keyspace with two keys.                                      *)
EXTENDS Keyspace, TLC

CONSTANTS k0, k1, k2, g1

TwoKeys == {k1, k2}
OneKey == {k0}
OneGroup == {g1}

\* "1" and "a".
TwoValues == {<<49>>, <<97>>}
TwoMembers == {<<97>>, <<98>>}
OneMember == {<<97>>}

\* A hash that tells the members apart.
HashOfMember(m) == m[1]

\* "a" belongs in register 1 and "b" in register 0, with two zeros and one.
HashOfElement(e) == IF e = <<97>> THEN 1 * 8 + 1 ELSE 0 * 8 + 2

\* The greater of the differences.
Chebyshev(p, q) ==
    LET Gap(a, b) == IF a < b THEN b - a ELSE a - b
        x == Gap(p.lon, q.lon)
        y == Gap(p.lat, q.lat)
    IN IF x > y THEN x ELSE y

TopId == <<9, 9>>

KeySymmetry == Permutations(TwoKeys)
=============================================================================
