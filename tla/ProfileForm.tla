------------------------------ MODULE ProfileForm ------------------------------
(***************************************************************************)
(* A user's own profile (components/settings/ProfileForm.tsx) over the     *)
(* account's row, the images in storage (routers/users.py) and the session *)
(* cookie, from which the navigation bar draws the same avatar             *)
(* (lib/auth.ts).  The six fields of the form travel together and are one  *)
(* value here, up to the blanks around them, which the server strips       *)
(* before it answers (_blank_to_none); an image is known by the name the   *)
(* server invents for it.                                                  *)
(***************************************************************************)
EXTENDS Calls

CONSTANTS
    Detail,            \* contents of the fields of the form
    Password,          \* passwords
    Weak,              \* those of fewer than twelve characters
    MaxImages,         \* bound: avatars that are uploaded
    MaxProfileClicks   \* bound: steps of the user

ASSUME ProfileAssumption == Weak \subseteq Password

VARIABLES
    me,            \* the account's row: details, avatar, password
    images,        \* the images in storage
    cookieAvatar,  \* the avatar in the session
    profileUi,     \* the React state of the form
    profileNet     \* its requests

profileVars == <<me, images, cookieAvatar, profileUi, profileNet>>
profileServer == <<me, images, cookieAvatar>>

Image == 1..MaxImages

\* The three password fields, all blank.
NoTyping == [current |-> None, new |-> None, confirm |-> None]

NoProfile == [profile |-> None, fields |-> None, loading |-> TRUE, saving |-> FALSE, uploading |-> FALSE,
              typed |-> NoTyping, changing |-> FALSE, clicks |-> 0, calm |-> TRUE]

\* An account of the identity provider has no password.
ProfileInit ==
    /\ \E d \in Detail, p \in Password \cup {None} : me = [details |-> d, avatar |-> None, password |-> p]
    /\ images = {}
    /\ cookieAvatar = me.avatar
    /\ profileUi = NoProfile
    /\ profileNet = Send(NoCalls, "load", None)

Answer(row) == [details |-> row.details, avatar |-> row.avatar, hasPassword |-> row.password # None]

ServeProfile(i) ==
    /\ Sent(profileNet, i, "load")
    /\ profileNet' = Reply(profileNet, i, Answer(me))
    /\ UNCHANGED <<profileServer, profileUi>>

\* applyProfile: what is being typed is overwritten.
Applied(ui, out) == [ui EXCEPT !.profile = out, !.fields = out.details]

ProfileRead(i) ==
    /\ Settled(profileNet, i, "load")
    /\ profileUi' = IF Ok(profileNet, i, "load")
                    THEN [Applied(profileUi, profileNet[i].out) EXCEPT !.loading = FALSE]
                    ELSE [profileUi EXCEPT !.loading = FALSE, !.calm = FALSE]
    /\ profileNet' = Done(profileNet, i)
    /\ UNCHANGED profileServer

ProfileStep == Pressed(profileUi, Quiet(profileNet))

\* A renewed access token makes another apiFetch, and the effect runs again.
AccessRenewed ==
    /\ profileUi.clicks < MaxProfileClicks /\ Room(profileNet, 1)
    /\ profileUi' = ProfileStep
    /\ profileNet' = Send(profileNet, "load", None)
    /\ UNCHANGED profileServer

\* The form is there once the profile is.
OnProfile ==
    /\ profileUi.clicks < MaxProfileClicks
    /\ ~profileUi.loading /\ profileUi.profile # None
    /\ UNCHANGED profileServer

TypeDetails(d) ==
    /\ OnProfile /\ d # profileUi.fields
    /\ profileUi' = [ProfileStep EXCEPT !.fields = d]
    /\ UNCHANGED profileNet

SaveDetails ==
    /\ OnProfile /\ ~profileUi.saving /\ Room(profileNet, 1)
    /\ profileUi' = [ProfileStep EXCEPT !.saving = TRUE]
    /\ profileNet' = Send(profileNet, "save", profileUi.fields)

\* Only the fields that were sent are written, and the row is read again.
ServeDetails(i) ==
    /\ Sent(profileNet, i, "save")
    /\ me' = [me EXCEPT !.details = profileNet[i].arg]
    /\ profileNet' = Reply(profileNet, i, Answer(me'))
    /\ UNCHANGED <<images, cookieAvatar, profileUi>>

DetailsSaved(i) ==
    /\ Settled(profileNet, i, "save")
    /\ LET ui == IF Ok(profileNet, i, "save") THEN Applied(profileUi, profileNet[i].out) ELSE profileUi
       IN profileUi' = [ui EXCEPT !.saving = FALSE]
    /\ profileNet' = Done(profileNet, i)
    /\ UNCHANGED profileServer

UploadAvatar ==
    /\ OnProfile /\ ~profileUi.uploading /\ Room(profileNet, 1)
    /\ profileUi' = [ProfileStep EXCEPT !.uploading = TRUE]
    /\ profileNet' = Send(profileNet, "upload", None)

\* _store_avatar: the image is stored under a new name, then the row is committed.
StoreImage(i) ==
    /\ Sent(profileNet, i, "upload")
    /\ \E n \in Image \ images :
          /\ images' = images \cup {n}
          /\ profileNet' = Begin(profileNet, i, n)
    /\ UNCHANGED <<me, cookieAvatar, profileUi>>

CommitAvatar(i) ==
    /\ Open(profileNet, i, "upload")
    /\ me' = [me EXCEPT !.avatar = profileNet[i].out]
    /\ profileNet' = Reply(profileNet, i, profileNet[i].out)
    /\ UNCHANGED <<images, cookieAvatar, profileUi>>

\* The button is there while there is an avatar, and nothing disables it.
RemoveAvatar ==
    /\ OnProfile /\ profileUi.profile.avatar # None /\ Room(profileNet, 1)
    /\ profileUi' = ProfileStep
    /\ profileNet' = Send(profileNet, "remove", None)

\* The image stays in storage.
ServeRemoval(i) ==
    /\ Sent(profileNet, i, "remove")
    /\ me' = [me EXCEPT !.avatar = None]
    /\ profileNet' = Reply(profileNet, i, None)
    /\ UNCHANGED <<images, cookieAvatar, profileUi>>

\* The page shows the new avatar, or none, and asks for it in the session too.
AvatarAnswered(i) ==
    /\ \E op \in {"upload", "remove"} : Ok(profileNet, i, op)
    /\ profileUi' = [profileUi EXCEPT !.profile.avatar = profileNet[i].out]
    /\ profileNet' = Then(profileNet, i, "session", [by |-> profileNet[i].op, avatar |-> profileNet[i].out])
    /\ UNCHANGED profileServer

\* The jwt callback with trigger "update": a null avatar is written as well.
ServeSessionUpdate(i) ==
    /\ Sent(profileNet, i, "session")
    /\ cookieAvatar' = profileNet[i].arg.avatar
    /\ profileNet' = Reply(profileNet, i, None)
    /\ UNCHANGED <<me, images, profileUi>>

UploadEnded(ui, by) == IF by = "upload" THEN [ui EXCEPT !.uploading = FALSE] ELSE ui

\* update() resolves whether or not its request got through.
SessionUpdated(i) ==
    /\ Settled(profileNet, i, "session")
    /\ LET ui == UploadEnded(profileUi, profileNet[i].arg.by)
       IN profileUi' = [ui EXCEPT !.calm = @ /\ Ok(profileNet, i, "session")]
    /\ profileNet' = Done(profileNet, i)
    /\ UNCHANGED profileServer

AvatarFailed(i) ==
    /\ \E op \in {"upload", "remove"} : Err(profileNet, i, op)
    /\ profileUi' = UploadEnded(profileUi, profileNet[i].op)
    /\ profileNet' = Done(profileNet, i)
    /\ UNCHANGED profileServer

\* The three fields, typed one after the other.
TypePasswords(current, new, confirm) ==
    /\ OnProfile /\ profileUi.profile.hasPassword
    /\ profileUi' = [ProfileStep EXCEPT !.typed = [current |-> current, new |-> new, confirm |-> confirm]]
    /\ UNCHANGED profileNet

\* The button has a condition of its own, so that a request does not disable it.
ChangePassword ==
    /\ OnProfile /\ profileUi.profile.hasPassword /\ Room(profileNet, 1)
    /\ profileUi.typed.current # None /\ profileUi.typed.new \notin Weak \cup {None}
    /\ profileUi.typed.new = profileUi.typed.confirm
    /\ profileUi' = [ProfileStep EXCEPT !.changing = TRUE]
    /\ profileNet' = Send(profileNet, "password", profileUi.typed)

ServePasswordChange(i) ==
    /\ Sent(profileNet, i, "password")
    /\ LET typed == profileNet[i].arg
       IN IF me.password = typed.current /\ typed.new \notin Weak /\ typed.new # typed.current
          THEN /\ me' = [me EXCEPT !.password = typed.new]
               /\ profileNet' = Reply(profileNet, i, None)
          ELSE UNCHANGED me /\ profileNet' = Fail(profileNet, i)
    /\ UNCHANGED <<images, cookieAvatar, profileUi>>

\* Whatever has been typed since is cleared.
PasswordChanged(i) ==
    /\ Settled(profileNet, i, "password")
    /\ profileUi' = [profileUi EXCEPT !.changing = FALSE,
                                      !.typed = IF Ok(profileNet, i, "password") THEN NoTyping ELSE @]
    /\ profileNet' = Done(profileNet, i)
    /\ UNCHANGED profileServer

ProfileCallFails(i) ==
    /\ CanFail(profileNet, i)
    /\ profileNet' = Fail(profileNet, i)
    /\ profileUi' = Missed(profileUi, profileNet, i)
    /\ UNCHANGED profileServer

ProfileNext ==
    \/ AccessRenewed \/ SaveDetails \/ UploadAvatar \/ RemoveAvatar \/ ChangePassword
    \/ \E d \in Detail : TypeDetails(d)
    \/ \E current, new, confirm \in Password : TypePasswords(current, new, confirm)
    \/ \E i \in Slot :
          \/ ServeProfile(i) \/ ProfileRead(i) \/ ServeDetails(i) \/ DetailsSaved(i)
          \/ StoreImage(i) \/ CommitAvatar(i) \/ ServeRemoval(i) \/ AvatarAnswered(i) \/ AvatarFailed(i)
          \/ ServeSessionUpdate(i) \/ SessionUpdated(i)
          \/ ServePasswordChange(i) \/ PasswordChanged(i) \/ ProfileCallFails(i)

-----------------------------------------------------------------------------
(* Correctness *)

\* "Without this the navbar keeps the old image until the next sign-in"
\* (ProfileForm.tsx:140): once nothing is in flight the page has the account's row
\* and the bar its avatar; provided one thing was done at a time and no answer was
\* lost.
ProfileMatches ==
    profileUi.calm /\ Quiet(profileNet) /\ profileUi.profile # None =>
        profileUi.profile = Answer(me) /\ cookieAvatar = me.avatar

\* "must not leave the row pointing at a file that is already gone"
\* (routers/users.py:293): whatever failed, and in whatever order the answers came,
\* the row, the page and the bar never name an image that is not in storage.
AvatarStored ==
    LET named == {me.avatar, cookieAvatar}
                   \cup IF profileUi.profile = None THEN {} ELSE {profileUi.profile.avatar}
    IN named \subseteq images \cup {None}

\* The form says that it waits only while it does.
ProfileSpinners ==
    Quiet(profileNet) => ~profileUi.loading /\ ~profileUi.saving /\ ~profileUi.uploading /\ ~profileUi.changing
===============================================================================
