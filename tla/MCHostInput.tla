----------------------------- MODULE MCHostInput -----------------------------
(* HostInput with viewers that have a keyboard, a mouse with buttons, or    *)
(* one that only moves and scrolls.                                         *)
EXTENDS HostInput_proofs, TLC

CONSTANTS k, m

KeyIsSent(key, down, modified) ==
    [type |-> "key", key |-> key, down |-> down, modified |-> modified]
ButtonIsSent(b, down) == [type |-> "button", button |-> b, down |-> down]
Moved(type, arg) == [type |-> type, arg |-> arg]

Keyboard == {KeyIsSent(k, TRUE, TRUE), KeyIsSent(k, FALSE, FALSE),
             KeyIsSent(m, TRUE, FALSE)}
Left  == {ButtonIsSent("left", TRUE), ButtonIsSent("left", FALSE)}
Mouse == Left \cup {ButtonIsSent("right", TRUE)}
Moves == Left \cup {Moved("rel", -2), Moved("abs", 0)}
Wheel == {Moved("scroll", -2), ButtonIsSent("x2", TRUE)}
Both  == Left \cup {KeyIsSent(k, TRUE, FALSE)}

Devices == {Keyboard, Mouse, Moves, Wheel, Both}
Shortcuts == {k}
Symmetry == Permutations(Session) \cup Permutations(Addr)
=============================================================================
