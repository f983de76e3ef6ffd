------------------------------- MODULE Content -------------------------------
(***************************************************************************)
(* One speaker, committee member or participant as editors keep it and     *)
(* readers see it: the row, its translations                               *)
(* (content_translations/service.py) and its photo (core/uploads.py,       *)
(* speakers/routes.py, committee/routes.py, participants/).  A             *)
(* participant's own profile has no translations, starts without a row     *)
(* and is never deleted; of its texts two stand for all.                   *)
(*                                                                         *)
(* Translations are rows that name the entity without a foreign key; a     *)
(* write replaces all the fields of its row, and two at once end like one  *)
(* after the other, or with one refused.  A photo is a file and an URL in  *)
(* the row: a request looks, writes the file, commits the row, and removes *)
(* the file whose URL it has read.                                         *)
(***************************************************************************)
EXTENDS Naturals

CONSTANTS Texts,    \* values of a field
          Photos,   \* files, each with a name of its own
          Editors,  \* requests of organizers, or of the participant
          Missing   \* SQL NULL, or no row

\* A speaker's or a committee member's row, or a participant's profile.
MemberRows == [role_title : Texts, biography : Texts \cup {Missing}, photo : Photos \cup {Missing}]

ASSUME MissingIsNone == Missing \notin Photos \cup MemberRows

VARIABLES memberKind,  \* speaker, committee member or participant
          member,      \* the row, or Missing
          translation, \* content_translations, by locale
          onDisk,      \* photos on disk
          editor,      \* requests: their step and the URL they have read
          urlGiven     \* an update has written a URL that it was given
contentVars == <<memberKind, member, translation, onDisk, editor, urlGiven>>

Languages == {"en", "zh-CN"}
\* The entities that have translations: a participant has none.
Translatable == memberKind \in {"speaker", "committee"}
\* TRANSLATABLE_FIELDS, and those of them that the list endpoints search.
Fields == {"role_title", "biography"}
Searched == {"role_title"}

\* The fields of a translation row: at least one.
Translated == UNION {[given -> Texts] : given \in SUBSET Fields \ {{}}}

Off == [step |-> "off"]
Present(row) == row # Missing
EditorLeaves(h) == editor' = [editor EXCEPT ![h] = Off]

-----------------------------------------------------------------------------
(***************************************************************************)
(* Readers                                                                 *)
(***************************************************************************)
\* The locale asked for, English, the source, in this order, for all fields at once.
ChosenLocale(l) ==
  IF Present(translation[l]) THEN l
  ELSE IF Present(translation["en"]) THEN "en" ELSE "source"

TextShown(l, field) ==
  IF ChosenLocale(l) # "source" /\ field \in DOMAIN translation[ChosenLocale(l)]
  THEN translation[ChosenLocale(l)][field]
  ELSE member[field]

\* A slip: English is taken to be the source.
SearchWithoutEnglish(term) ==
  \E field \in Searched :
    \/ member[field] = term
    \/ Present(translation["zh-CN"]) /\ field \in DOMAIN translation["zh-CN"]
         /\ translation["zh-CN"][field] = term

\* Translations of every locale are searched, whichever the reader asks for.
Search(term) ==
  \E field \in Searched :
    \/ member[field] = term
    \/ \E l \in Languages : /\ Present(translation[l])
                            /\ field \in DOMAIN translation[l]
                            /\ translation[l][field] = term

-----------------------------------------------------------------------------
(***************************************************************************)
(* Editors: texts                                                          *)
(***************************************************************************)
PutTranslation(l, fields) ==
  /\ Translatable
  /\ Present(member)
  /\ translation' = [translation EXCEPT ![l] = fields]
  /\ UNCHANGED <<memberKind, member, onDisk, editor, urlGiven>>

\* Once the member is deleted its translations can no longer be removed.
DeleteTranslation(l) ==
  /\ Translatable
  /\ Present(member)
  /\ Present(translation[l])
  /\ translation' = [translation EXCEPT ![l] = Missing]
  /\ UNCHANGED <<memberKind, member, onDisk, editor, urlGiven>>

\* An update writes the fields it is given, the URL of the photo among them.
UpdateMember(field, text) ==
  /\ Present(member)
  /\ member' = [member EXCEPT ![field] = text]
  /\ UNCHANGED <<memberKind, translation, onDisk, editor, urlGiven>>

\* Only a committee member's photo can be set to NULL.
NamePhoto(f) ==
  /\ Present(member)
  /\ f = Missing => memberKind = "committee"
  /\ member' = [member EXCEPT !.photo = f]
  /\ urlGiven' = (urlGiven \/ f # Missing)
  /\ UNCHANGED <<memberKind, translation, onDisk, editor>>

\* PUT /participants/me without a row.
CreateProfile ==
  /\ memberKind = "participant" /\ ~Present(member)
  /\ \E name \in Texts, about \in Texts \cup {Missing}, f \in Photos \cup {Missing} :
       /\ member' = [role_title |-> name, biography |-> about, photo |-> f]
       /\ urlGiven' = (f # Missing)
  /\ UNCHANGED <<memberKind, translation, onDisk, editor>>

\* A first registration, or booth, creates the row from the account.
ProfileFromAccount ==
  /\ memberKind = "participant" /\ ~Present(member)
  /\ \E name \in Texts : member' = [role_title |-> name, biography |-> Missing, photo |-> Missing]
  /\ UNCHANGED <<memberKind, translation, onDisk, editor, urlGiven>>

-----------------------------------------------------------------------------
(***************************************************************************)
(* Editors: the photo                                                      *)
(***************************************************************************)
UnusedPhoto(f) == f \notin onDisk /\ \A h \in Editors : editor[h].step # "off" => f \notin {editor[h].new, editor[h].old}

\* save_profile_photo
PhotoLook(h, f) ==
  /\ editor[h] = Off
  /\ Present(member) /\ UnusedPhoto(f) /\ member.photo # f
  /\ onDisk' = onDisk \cup {f}
  /\ editor' = [editor EXCEPT ![h] = [step |-> "upload", new |-> f, old |-> member.photo]]
  /\ UNCHANGED <<memberKind, member, translation, urlGiven>>

\* The update fails when the member was deleted meanwhile: the new file is removed.
PhotoCommit(h) ==
  /\ editor[h].step = "upload" /\ memberKind # "participant"
  /\ IF Present(member)
     THEN /\ member' = [member EXCEPT !.photo = editor[h].new]
          /\ onDisk' = onDisk
          /\ editor' = [editor EXCEPT ![h].step = "clean"]
     ELSE /\ onDisk' = onDisk \ {editor[h].new}
          /\ EditorLeaves(h)
          /\ member' = member
  /\ UNCHANGED <<memberKind, translation, urlGiven>>

\* A participant's old file stays.
ProfilePhotoCommit(h) ==
  /\ editor[h].step = "upload" /\ memberKind = "participant"
  /\ member' = [member EXCEPT !.photo = editor[h].new]
  /\ EditorLeaves(h)
  /\ UNCHANGED <<memberKind, translation, onDisk, urlGiven>>

DropLook(h) ==
  /\ editor[h] = Off /\ memberKind # "participant"
  /\ Present(member)
  /\ editor' = [editor EXCEPT ![h] = [step |-> "delete", new |-> Missing, old |-> member.photo]]
  /\ UNCHANGED <<memberKind, member, translation, onDisk, urlGiven>>

\* A speaker's photo stays; the translations of both stay.
DropCommit(h) ==
  /\ editor[h].step = "delete"
  /\ member' = Missing
  /\ editor' = [editor EXCEPT ![h] = IF memberKind = "committee" THEN [@ EXCEPT !.step = "clean"] ELSE Off]
  /\ UNCHANGED <<memberKind, translation, onDisk, urlGiven>>

\* delete_uploaded_file
Clean(h) ==
  /\ editor[h].step = "clean"
  /\ onDisk' = onDisk \ ({editor[h].old} \ {editor[h].new})
  /\ EditorLeaves(h)
  /\ UNCHANGED <<memberKind, member, translation, urlGiven>>

\* The server stops: what is committed stays, and so do files.
LoseEditor(h) ==
  /\ editor[h] # Off
  /\ EditorLeaves(h)
  /\ UNCHANGED <<memberKind, member, translation, onDisk, urlGiven>>

-----------------------------------------------------------------------------
ContentInit ==
  /\ memberKind \in {"speaker", "committee", "participant"}
  /\ IF memberKind = "participant" THEN member = Missing
     ELSE \E text \in Texts :
            member = [role_title |-> text, biography |-> text, photo |-> Missing]
  /\ translation = [l \in Languages |-> Missing]
  /\ onDisk = {}
  /\ editor = [h \in Editors |-> Off]
  /\ urlGiven = FALSE

ContentNext ==
  \/ \E l \in Languages :
       \/ \E fields \in Translated : PutTranslation(l, fields)
       \/ DeleteTranslation(l)
  \/ \E field \in Fields, text \in Texts : UpdateMember(field, text)
  \/ \E f \in Photos \cup {Missing} : NamePhoto(f)
  \/ CreateProfile \/ ProfileFromAccount
  \/ \E h \in Editors :
       \/ \E f \in Photos : PhotoLook(h, f)
       \/ PhotoCommit(h) \/ ProfilePhotoCommit(h) \/ DropLook(h) \/ DropCommit(h) \/ Clean(h) \/ LoseEditor(h)

ContentSpec == ContentInit /\ [][ContentNext]_contentVars

-----------------------------------------------------------------------------
(***************************************************************************)
(* Claims                                                                  *)
(***************************************************************************)
\* A reader who types what some reader is shown finds the member, in whatever
\* language it came; and a photo in the row has its file, however uploads and
\* deletions overlap or are cut short, as long as no update names a URL itself.
ContentIsServed ==
  Present(member) =>
    /\ Translatable =>
         \A l \in Languages, field \in Searched : Search(TextShown(l, field))
    /\ ~urlGiven => member.photo \in onDisk \cup {Missing}
=============================================================================
