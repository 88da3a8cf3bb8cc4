---------------------------- MODULE CreateTorrent ----------------------------
(***************************************************************************)
(* The creation of a torrent (src/create_torrent_dialog.cpp) in a process  *)
(* of Program: a window with the files to take, a dialog with the progress *)
(* and a Cancel button, and a thread that nobody joins.  The thread asks   *)
(* after each file and each piece whether it is cancelled, and needs the   *)
(* GTK lock for all it shows; the Application may have been destroyed by   *)
(* then, as the window does not go with it.                                *)
(*                                                                         *)
(* File choosers and messages for the window run a main loop of their own  *)
(* in the main thread, which cannot leave the outer one before.            *)
(***************************************************************************)
EXTENDS Program

VARIABLES create,    \* the window, and what the user does with it
          files,     \* are files chosen to create a torrent from?
          is_cancel, \* of the Progress_dialog
          worker,    \* its thread
          file,      \* the *.torrent: that of before, cut, or the new one
          outcome    \* ghost: what the user was told of the last creation

createVars == <<create, files, is_cancel, worker, file, outcome>>
everything == <<allVars, createVars>>

CreateTypeOK ==
    /\ create \in {"closed", "open", "selecting", "asking", "saving", "hashing",
                   "warning", "warned", "failed"}
    /\ files \in BOOLEAN /\ is_cancel \in BOOLEAN
    /\ worker \in {"none", "adding", "hashing", "progress", "hashed", "opened",
                   "written", "cancelled", "wrong", "warning", "failed"}
    /\ file \in {"old", "cut", "new"}
    /\ outcome \in {"nothing", "created", "cancelled", "wrong"}

CreateInit == /\ ProgramInit
              /\ create = "closed" /\ files = FALSE /\ is_cancel = FALSE
              /\ worker = "none" /\ file = "old" /\ outcome = "nothing"

(* A dialog in the main thread keeps it in an inner main loop. *)
Nested == create \in {"selecting", "asking", "saving"}

(* The user can do something: no message of the Application is in the way. *)
Usable == Looping /\ ~dialog

(* After an inner main loop the outer one is left at once if that was asked for
   with the end of the Application: nobody handles what the window gets. *)
Back == IF life = "running" THEN "open" ELSE "closed"

-----------------------------------------------------------------------------
(* The window. *)

on_create_callback ==
    /\ Usable /\ life = "running" /\ ~stopping /\ create = "closed"
    /\ create' = "open" /\ files' = FALSE
    /\ UNCHANGED <<allVars, is_cancel, worker, file, outcome>>

(* get_application() finds none: its assertion fails. *)
WithApplication(next) == IF life = "running" THEN next ELSE "failed"

on_select_callback ==
    /\ Usable /\ create = "open"
    /\ create' = WithApplication("selecting")
    /\ UNCHANGED <<allVars, files, is_cancel, worker, file, outcome>>

(* The directory is written into settings that may be gone with the
   Application, and with them what happens is undefined. *)
IntoSettings == \/ UNCHANGED allVars
                \/ /\ life = "destroyed" /\ main' = "failed"
                   /\ UNCHANGED <<life, messages, dialog, signals, thread, added,
                                  shown, programVars>>

Selected ==
    /\ Usable /\ create = "selecting" /\ create' = Back
    /\ files' = TRUE /\ IntoSettings
    /\ UNCHANGED <<is_cancel, worker, file, outcome>>

on_ok_button_callback ==
    /\ Usable /\ create = "open"
    /\ create' = IF files THEN WithApplication("saving") ELSE "asking"
    /\ UNCHANGED <<allVars, files, is_cancel, worker, file, outcome>>

Progress_dialog ==
    /\ Usable /\ create = "saving" /\ create' = "hashing"
    /\ is_cancel' = FALSE /\ worker' = "adding" /\ file' = "old"
    /\ outcome' = "nothing"
    /\ IntoSettings
    /\ UNCHANGED files

(* A chooser is cancelled, or the message that there are no files closed. *)
Dismiss ==
    /\ Usable /\ Nested /\ create' = Back
    /\ UNCHANGED <<allVars, files, is_cancel, worker, file, outcome>>

(* Its destructor saves the settings. *)
on_close_callback ==
    /\ Usable /\ create = "open"
    /\ create' = WithApplication("closed") /\ files' = FALSE
    /\ UNCHANGED <<allVars, is_cancel, worker, file, outcome>>

on_cancel_button_callback ==
    /\ Usable /\ create = "hashing" /\ ~is_cancel /\ is_cancel' = TRUE
    /\ UNCHANGED <<allVars, create, files, worker, file, outcome>>

(* The message that the creation failed. *)
CloseWarning ==
    /\ Usable /\ create = "warning" /\ create' = "warned"
    /\ UNCHANGED <<allVars, files, is_cancel, worker, file, outcome>>

-----------------------------------------------------------------------------
(* The thread.  It lives as long as its process. *)
Works(here, next) ==
    /\ stage[First] \in {"running", "quit", "leaving"}
    /\ worker = here /\ worker' \in next

(* Once it has left its main loop the main thread keeps the GTK lock. *)
GtkLock == stage[First] = "running"

check_added_file ==
    /\ Works("adding", IF is_cancel THEN {"cancelled"}
                       ELSE {"adding", "hashing", "wrong"})
    /\ UNCHANGED <<allVars, create, files, is_cancel, file, outcome>>

(* A piece is read, which may fail, and the dialog is asked. *)
MutHashPiece ==
    /\ Works("hashing", {"progress", "wrong"})
    /\ UNCHANGED <<allVars, create, files, is_cancel, file, outcome>>

HashPiece ==
    /\ Works("hashing", {"wrong"} \cup IF is_cancel THEN {"cancelled"}
                                       ELSE {"progress"})
    /\ UNCHANGED <<allVars, create, files, is_cancel, file, outcome>>

(* The progress is shown; the piece may have been the last one. *)
set_hash_progress ==
    /\ GtkLock /\ Works("progress", {"hashing", "hashed"})
    /\ UNCHANGED <<allVars, create, files, is_cancel, file, outcome>>

(* Mutant: whether it is cancelled is asked once more, too late. *)
MutOpenFile ==
    /\ Works("hashed", {"opened", "wrong"} \cup IF is_cancel THEN {"cancelled"}
                                                ELSE {})
    /\ file' = IF worker' = "wrong" THEN file ELSE "cut"
    /\ UNCHANGED <<allVars, create, files, is_cancel, outcome>>

(* The file is truncated when it is opened. *)
OpenFile ==
    /\ Works("hashed", {"opened", "wrong"})
    /\ file' = IF worker' = "opened" THEN "cut" ELSE file
    /\ UNCHANGED <<allVars, create, files, is_cancel, outcome>>

WriteFile ==
    /\ Works("opened", {"written", "wrong"})
    /\ file' = IF worker' = "written" THEN "new" ELSE file
    /\ UNCHANGED <<allVars, create, files, is_cancel, outcome>>

(* The message "Torrent created" is queued as any other, and the window is
   deleted with the dialog. *)
Created ==
    /\ GtkLock /\ life = "running" /\ Works("written", {"none"})
    /\ added < MaxMessages
    /\ added' = added + 1 /\ messages' = Append(messages, added')
    /\ signals' = IF messages = <<>> THEN signals + 1 ELSE signals
    /\ create' = "closed" /\ outcome' = "created"
    /\ files' = FALSE /\ is_cancel' = FALSE
    /\ UNCHANGED <<life, dialog, thread, main, shown, programVars, file>>

(* There is no Application any more. *)
CreatedTooLate ==
    /\ GtkLock /\ life = "destroyed" /\ Works("written", {"failed"})
    /\ UNCHANGED <<allVars, create, files, is_cancel, file, outcome>>

Cancelled ==
    /\ GtkLock /\ Works("cancelled", {"none"})
    /\ create' = "open" /\ outcome' = "cancelled" /\ is_cancel' = FALSE
    /\ UNCHANGED <<allVars, files, file>>

(* show_warning_message(), which waits until the main loop has closed it. *)
CreatingFailed ==
    /\ GtkLock /\ Works("wrong", {"warning"})
    /\ create' = "warning" /\ outcome' = "wrong" /\ is_cancel' = FALSE
    /\ UNCHANGED <<allVars, files, file>>

WarningClosed ==
    /\ GtkLock /\ create = "warned" /\ Works("warning", {"none"})
    /\ create' = "open"
    /\ UNCHANGED <<allVars, files, is_cancel, file, outcome>>

(* Of the window and the thread nothing is left at the end of the process, and
   the next one finds the file as it is. *)
Lost == /\ create' = "closed" /\ files' = FALSE /\ is_cancel' = FALSE
        /\ worker' = "none" /\ file' = "old" /\ outcome' = "nothing"

(* error_function() for an assertion that fails here. *)
AssertionFails ==
    /\ Alive(First) /\ "failed" \in {create, worker}
    /\ Gone({First}, "explaining") /\ Lost
    /\ UNCHANGED <<kind, options, bus, link, handling, pipe, stopping, executed>>

-----------------------------------------------------------------------------
(* The process with all of its other threads. *)
Elsewhere ==
    /\ ProgramNext
    /\ Nested => stage'[First] # "quit"
    /\ IF stage'[First] \in {"running", "quit", "leaving"}
       THEN UNCHANGED createVars ELSE Lost

Window == \/ on_create_callback \/ on_select_callback \/ Selected
          \/ on_ok_button_callback \/ Progress_dialog \/ on_close_callback
          \/ on_cancel_button_callback

Worker == \/ check_added_file \/ HashPiece \/ set_hash_progress
          \/ OpenFile \/ WriteFile \/ Created \/ CreatedTooLate \/ Cancelled
          \/ CreatingFailed \/ WarningClosed

CreateNext == Elsewhere \/ Window \/ Dismiss \/ CloseWarning \/ Worker
              \/ AssertionFails

(* The thread goes on, and the user closes choosers and messages. *)
CreateSpec ==
    /\ CreateInit /\ [][CreateNext]_everything
    /\ ProgramFairness /\ WF_allVars(Quit /\ ~Nested)
    /\ WF_everything(Worker) /\ WF_everything(AssertionFails)
    /\ WF_everything(Dismiss) /\ WF_everything(CloseWarning)

-----------------------------------------------------------------------------
(* Properties. *)

(* What the user sees at the end of a creation is true: one that ended without
   a word after Cancel has left the file alone, even if the button was pressed
   while the thread was past its last question, and one that is called created
   is complete. *)
OutcomeIsTrue == /\ outcome = "cancelled" => file = "old"
                 /\ outcome = "created" => file = "new"

(* A cancelled creation comes to an end by itself, however much there is left
   to hash: its dialog has no other button. *)
CancelEnds == is_cancel /\ create = "hashing" ~> create # "hashing"
==============================================================================
