------------------------- MODULE MCBrowserSession -------------------------
(* Two roles and one or two events; a role is a string, as the source has it. *)
EXTENDS BrowserSession

MCRoles == {"dm", "player"}
MCEvents == {"e1"}
=============================================================================
