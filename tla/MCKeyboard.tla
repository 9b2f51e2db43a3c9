----------------------------- MODULE MCKeyboard -----------------------------
(* One modifier and two keys, and an action of every kind. *)
EXTENDS Keyboard

MCActions == {
    [effect |-> "quiet", repeatable |-> FALSE, cycles |-> FALSE],
    [effect |-> "toggle", repeatable |-> FALSE, cycles |-> FALSE],
    [effect |-> "focus", repeatable |-> FALSE, cycles |-> FALSE],
    [effect |-> "other", repeatable |-> TRUE, cycles |-> FALSE],
    [effect |-> "other", repeatable |-> TRUE, cycles |-> TRUE]}
=============================================================================
