-------------------------- MODULE MCBrowserParts --------------------------
(* BrowserParts for a profile's wiki and a record form, two tabs of a graph *)
(* with two views of which one has an add-on, texts of at most two          *)
(* paragraphs, and a cache of links that two references overflow.           *)
EXTENDS BrowserParts, TLC
CONSTANTS
    wiki, form, old, new, other,
    one, two, people, places, ann, inn, guest, here,
    alpha, beta, gamma,
    spell, armour

\* Ann is not shown in the second state of the campaign.
MCCore(v, d) == IF v = people THEN IF d = 1 THEN {ann} ELSE {} ELSE {inn}
MCAddon(v) == IF v = people THEN {guest} ELSE {}

\* The tabs of the graph differ only by name.
Symmetry == Permutations(Tabs)
=============================================================================
