---------------------------- MODULE StepUpPrompt ----------------------------
(***************************************************************************)
(* step-up.ts and StepUp.tsx: the console asks for the password when an    *)
(* action of the administrator is refused for want of it, once for all the *)
(* actions that need it at that moment, and runs each again, once.         *)
(***************************************************************************)
EXTENDS Quota

CONSTANT ConsoleActions

VARIABLES
    console,    \* per action: how far withStepUp has come
    prompt,     \* the dialog: whether it shows, and whose promises it resolves
    confirming, \* POST /auth/step-up under way
    reentered   \* the session's password was re-entered in the last minutes

consoleVars == <<console, prompt, confirming, reentered>>

NoPrompt == [asking |-> FALSE, waiting |-> {}]

ConsoleInit ==
    /\ console = [a \in ConsoleActions |-> "IDLE"] /\ prompt = NoPrompt
    /\ confirming = "NONE" /\ reentered = FALSE

Starts(a) ==
    /\ console[a] = "IDLE" /\ Use("CONSOLE")
    /\ console' = [console EXCEPT ![a] = "FIRST"]
    /\ UNCHANGED <<prompt, confirming, reentered>>

(* prompt(): open is shared.                                               *)
Asked(a) == [asking |-> TRUE, waiting |-> prompt.waiting \cup {a}]

(* The service answers: done, or 401 STEP_UP_REQUIRED, which asks the      *)
(* first time and fails the action the second.                             *)
ActionAnswered(a) ==
    /\ console[a] \in {"FIRST", "AGAIN"}
    /\ IF reentered THEN console' = [console EXCEPT ![a] = "DONE"] /\ UNCHANGED prompt
       ELSE IF console[a] = "AGAIN" THEN console' = [console EXCEPT ![a] = "FAILED"] /\ UNCHANGED prompt
       ELSE console' = [console EXCEPT ![a] = "WAITING"] /\ prompt' = Asked(a)
    /\ UNCHANGED <<confirming, reentered, quota>>

(* answer(ok): everyone the promise was for goes on.                       *)
PromptAnswered(ok) ==
    /\ prompt' = NoPrompt
    /\ console' = [a \in ConsoleActions |-> IF a \notin prompt.waiting THEN console[a]
                                            ELSE IF ok THEN "AGAIN" ELSE "CANCELLED"]

PasswordEntered ==
    /\ prompt.asking /\ confirming = "NONE" /\ Use("PASSWORD")
    /\ confirming' = "SENT"
    /\ UNCHANGED <<console, prompt, reentered>>

(* The step-up is stored, or the password is wrong and may be tried again. *)
StepUpServed(right) ==
    /\ confirming = "SENT"
    /\ confirming' = IF right THEN "STORED" ELSE "NONE"
    /\ reentered' = (reentered \/ right)
    /\ UNCHANGED <<console, prompt, quota>>

(* The answer of a dialog that was closed meanwhile answers the next one.  *)
StepUpArrives ==
    /\ confirming = "STORED"
    /\ confirming' = "NONE"
    /\ PromptAnswered(TRUE)
    /\ UNCHANGED <<reentered, quota>>

PromptClosed ==
    /\ prompt.asking /\ Use("CLOSE_PROMPT")
    /\ PromptAnswered(FALSE)
    /\ UNCHANGED <<confirming, reentered>>

ReentryExpires ==
    /\ reentered /\ Use("REENTRY_EXPIRES")
    /\ reentered' = FALSE
    /\ UNCHANGED <<console, prompt, confirming>>

ConsoleNext ==
    \/ \E a \in ConsoleActions : Starts(a) \/ ActionAnswered(a)
    \/ \E right \in BOOLEAN : StepUpServed(right)
    \/ PasswordEntered \/ StepUpArrives \/ PromptClosed \/ ReentryExpires

(* No action waits for a dialog that is not there: whatever closes it, or  *)
(* whoever asked last, every action that asked is answered.                *)
NobodyStranded == \A a \in ConsoleActions : console[a] = "WAITING" => prompt.asking /\ a \in prompt.waiting
=============================================================================
