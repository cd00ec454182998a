---------------------------- MODULE ClientRefresh ----------------------------
(***************************************************************************)
(* How the app stays signed in, and signed out (app/src/auth.ts): the      *)
(* timer that refreshes the access token before it expires, the events of  *)
(* app/src/idle.ts that stop it and start it again, and the answers that   *)
(* arrive while the user signs out.  A token is due 10 seconds before it   *)
(* expires; one that lives for more than 2100000000 ms is long-lived.      *)
(***************************************************************************)

VARIABLES header,     (* the Authorization header is set                        *)
          due,        (* Date.now() >= accessTokenExpiry - 10000                *)
          long,       (* the token is long-lived                                *)
          timer,      (* of refreshTimeout: "none", "due" when the token is, or *)
                      (* "now" when its delay does not fit setTimeout           *)
          stray,      (* a timer runs that refreshTimeout no longer refers to   *)
          away,       (* idle of auth.ts                                        *)
          idle,       (* idle of idle.ts                                        *)
          visible,    (* visible of idle.ts                                     *)
          first,      (* firstRefresh                                           *)
          refreshing, (* isRefreshing                                           *)
          calls,      (* the other calls under way: "login", "logout"           *)
          out,        (* history: signed out, and not signed in since           *)
          overtaken,  (* history: ... while the refresh under way was           *)
          late        (* history: ... and such a refresh was answered since     *)

token == <<header, due, long>>
timers == <<timer, stray>>
tracker == <<away, idle, visible>>
history == <<out, overtaken, late>>
vars == <<token, timers, tracker, first, refreshing, calls, history>>

TypeOK ==
    /\ {header, due, long, stray, away, idle, visible, first, refreshing, out, overtaken, late}
            \subseteq BOOLEAN
    /\ timer \in {"none", "due", "now"}
    /\ calls \subseteq {"login", "logout"}

(* The page is loaded; onBeforeEach is to try a refresh.                    *)
Init ==
    /\ header = FALSE /\ due = TRUE /\ long = FALSE
    /\ timer = "none" /\ stray = FALSE
    /\ away = FALSE /\ idle = FALSE /\ visible = TRUE
    /\ first = TRUE
    /\ refreshing = FALSE
    /\ calls = {}
    /\ out = FALSE /\ overtaken = FALSE /\ late = FALSE

-----------------------------------------------------------------------------

(* Mutation: a refresh needs no token. *)
AlwaysMayRefresh == TRUE

(* The first refresh, or one of who is signed in.                           *)
MayRefresh == first \/ header

(* Mutation: a token that is not due leaves the timer as it was stopped. *)
RefreshWhenDue(t) ==
    /\ first' = FALSE
    /\ IF MayRefresh /\ ~refreshing /\ due
       THEN /\ refreshing' = TRUE
            /\ overtaken' = FALSE
       ELSE UNCHANGED <<refreshing, overtaken>>
    /\ timer' = t

(* refresh() up to its request, called when the timer is t: a token that is *)
(* not due is not refreshed, but its timer starts again; the delay of a     *)
(* long-lived one overflows.                                                *)
Refresh(t) ==
    /\ first' = FALSE
    /\ IF MayRefresh /\ ~refreshing /\ due
       THEN /\ refreshing' = TRUE
            /\ overtaken' = FALSE
       ELSE UNCHANGED <<refreshing, overtaken>>
    /\ timer' = IF MayRefresh /\ ~refreshing /\ ~due
                THEN IF long THEN "now" ELSE "due"
                ELSE t

(* A new token, with the timer that an answer sets for it.                  *)
NewToken ==
    /\ header' = TRUE
    /\ due' = FALSE
    /\ long' \in BOOLEAN

(* logout() up to its first await                                           *)
Forget ==
    /\ header' = FALSE
    /\ timer' = "none"
    /\ out' = TRUE
    /\ late' = FALSE
    /\ overtaken' = refreshing

-----------------------------------------------------------------------------
(* Refreshing.                                                              *)

(* onBeforeEach, on the first load                                          *)
Load ==
    /\ first
    /\ Refresh(timer)
    /\ UNCHANGED <<token, stray, tracker, calls, out, late>>

Fire ==
    /\ timer = "now" \/ (timer = "due" /\ due)
    /\ Refresh("none")
    /\ UNCHANGED <<token, stray, tracker, calls, out, late>>

FireStray ==
    /\ stray
    /\ stray' = FALSE
    /\ Refresh(timer)
    /\ UNCHANGED <<token, tracker, calls, out, late>>

(* onError of api.ts: a request was refused for want of credentials         *)
Unauthorized ==
    /\ ~first
    /\ Refresh(timer)
    /\ UNCHANGED <<token, stray, tracker, calls, out, late>>

RefreshAnswered ==
    /\ refreshing
    /\ refreshing' = FALSE
    /\ NewToken
    /\ timer' = IF long' THEN "none" ELSE "due"
    /\ late' = (late \/ (out /\ overtaken))
    /\ UNCHANGED <<stray, tracker, first, calls, out, overtaken>>

(* The refresh signs out; isRefreshing is reset when logout() has ended,    *)
(* which awaits nothing but the stores of the page.                         *)
RefreshFails ==
    /\ refreshing
    /\ refreshing' = FALSE
    /\ header' = FALSE
    /\ timer' = "none"
    /\ out' = TRUE /\ late' = FALSE /\ overtaken' = FALSE
    /\ UNCHANGED <<due, long, stray, tracker, first, calls>>

(* Time passes. *)
BecomeDue ==
    /\ ~due
    /\ due' = TRUE
    /\ UNCHANGED <<header, long, timers, tracker, first, refreshing, calls, history>>

-----------------------------------------------------------------------------
(* Signing in and out.                                                      *)

LoginSend ==
    /\ ~first
    /\ "login" \notin calls
    /\ calls' = calls \cup {"login"}
    /\ UNCHANGED <<token, timers, tracker, first, refreshing, history>>

(* The timer is set over one that may run.                                  *)
LoginAnswered ==
    /\ "login" \in calls
    /\ calls' = calls \ {"login"}
    /\ NewToken
    /\ IF long'
       THEN UNCHANGED timers
       ELSE timer' = "due" /\ stray' = (stray \/ timer # "none")
    /\ out' = FALSE
    /\ UNCHANGED <<tracker, first, refreshing, overtaken, late>>

LoginFails ==
    /\ "login" \in calls
    /\ calls' = calls \ {"login"}
    /\ UNCHANGED <<token, timers, tracker, first, refreshing, history>>

(* logout() by the user, whose request is then awaited, ...                 *)
SignOut ==
    /\ ~first
    /\ "logout" \notin calls
    /\ calls' = calls \cup {"logout"}
    /\ Forget
    /\ UNCHANGED <<due, long, stray, tracker, first, refreshing>>

SignOutEnds ==
    /\ "logout" \in calls
    /\ calls' = calls \ {"logout"}
    /\ UNCHANGED <<token, timers, tracker, first, refreshing, history>>

(* ... and by onError of api.ts: a request was refused for its token        *)
InvalidToken ==
    /\ ~first
    /\ Forget
    /\ UNCHANGED <<due, long, stray, tracker, first, refreshing, calls>>

-----------------------------------------------------------------------------
(* The user leaves and returns.                                             *)

BecomeIdle ==
    /\ ~idle
    /\ idle' = TRUE /\ away' = TRUE
    /\ timer' = "none"
    /\ UNCHANGED <<token, stray, visible, first, refreshing, calls, history>>

Hide ==
    /\ visible
    /\ visible' = FALSE /\ away' = TRUE
    /\ timer' = "none"
    /\ UNCHANGED <<token, stray, idle, first, refreshing, calls, history>>

Return ==
    /\ away' = FALSE
    /\ IF away
       THEN Refresh(timer)
       ELSE UNCHANGED <<timer, first, refreshing, overtaken>>
    /\ UNCHANGED <<token, stray, calls, out, late>>

BecomeActive ==
    /\ idle
    /\ idle' = FALSE
    /\ Return
    /\ UNCHANGED visible

Show ==
    /\ ~visible
    /\ visible' = TRUE
    /\ Return
    /\ UNCHANGED idle

Next ==
    \/ Load \/ Fire \/ FireStray \/ Unauthorized
    \/ RefreshAnswered \/ RefreshFails \/ BecomeDue
    \/ LoginSend \/ LoginAnswered \/ LoginFails
    \/ SignOut \/ SignOutEnds \/ InvalidToken
    \/ BecomeIdle \/ Hide \/ BecomeActive \/ Show

Spec == Init /\ [][Next]_vars

-----------------------------------------------------------------------------

(* Who is signed in and uses the app stays signed in: a refresh is under    *)
(* way or a timer runs that starts one before the token expires.  There is  *)
(* none for a long-lived token (until it is refused).                       *)
StaysSignedIn ==
    (header /\ ~away) => refreshing \/ timer # "none" \/ long

(* Who signed out stays signed out, whatever timers and events are left,    *)
(* until the next login: no token, no timer and no refresh; unless a        *)
(* refresh was under way when the user signed out.                          *)
SignedOutQuiet ==
    (out /\ ~late) => /\ ~header
                      /\ timer = "none"
                      /\ refreshing => overtaken
==============================================================================
