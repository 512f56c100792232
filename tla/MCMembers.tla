----------------------------- MODULE MCMembers -----------------------------
(* Two workspaces, two accounts, two invitations, two requests at once.  *)
EXTENDS Members, TLC

MembersSymmetry == Permutations(Account) \cup Permutations(Workspace)
                     \cup Permutations(Invitation) \cup Permutations(Request)
=============================================================================
