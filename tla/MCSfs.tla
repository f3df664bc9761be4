------------------------------- MODULE MCSfs -------------------------------
(* Instances of Sfs for TLC. *)
EXTENDS Sfs, TLC

CONSTANTS a, b

\* A user, and an admin who has no personal directory (nothing creates one).
Roles == (a :> "User") @@ (b :> "Admin")
Persos == (a :> "perso.ann") @@ (b :> "perso.bob")

Directories == {<<>>, Strg, SUsers, SUsers \o <<"ann">>, SNetwork, SShared,
                SNetwork \o <<"perso.ann">>}
Files == {SUsers \o <<"ann", ".uif">>, SShared \o <<"f">>}
ServerDrive == [p \in Directories |-> Dir] @@ [p \in Files |-> Data]

NamesUsed == {"strg", "users", "network", "shared", "ann", "perso.ann", "perso.bob", ".uif",
              "f", "g", ".."}

\* The shared directory and its file, a new file, and the way up; for the admin the file,
\* the user file of another user, and the whole storage.
Paths == (a :> {<<"f">>, <<"..", "shared">>, <<"..", "shared", "f">>, <<"..", "..">>})
      @@ (b :> {<<"..", "shared", "f">>, <<"..", "..", "users", "ann", ".uif">>, <<"..", "..">>})
Typeable == {<<"g">>, <<"..", "f">>}

\* The user's requests follow on each other and on one of the admin.
Requests == (a :> 2) @@ (b :> 1)
=============================================================================
