----------------------------- MODULE AppProofs -----------------------------
(***************************************************************************)
(* The application's login and its screens, for any number of redirects,   *)
(* data calls and searches; the body of a request, which is sent in order  *)
(* and completely for any number of streams of any sizes, empty ones       *)
(* included, and any buffer, as long as no content is a stream object of   *)
(* the application's own; and what strToDate() gets wrong, for every time, *)
(* duration, delay and zone.                                               *)
(***************************************************************************)
EXTENDS UberLogin, Reservation, PostBody, FlightData, FiniteSetTheorems, TLAPS

-----------------------------------------------------------------------------
(* The login                                                               *)

\* The inductive invariant: every token took a redirect, so that the number of
\* tokens is bounded as the redirects are, and a call that is loading has not
\* been handled.
LoginInv ==
    /\ LoginSafe
    /\ granted <= redirects
    /\ \A c \in Call : calls[c].state \in {"idle", "loading"} => calls[c].handled = 0

\* getAuthTokenForCode: stores a token in the backend exactly when it was granted.
LEMMA ExchangeKeeps ==
    ASSUME LoginInv, redirects < MaxRedirects, NEW answer \in Answers, Exchange(answer)
    PROVE  /\ granted' \in 0..MaxRedirects /\ granted' <= redirects + 1
           /\ token' \in [Kit -> 0..granted'] /\ heard' \in 0..granted'
           /\ rows' \in [1..MaxRedirects -> {"none", "sent", "inserted", "failed"}]
           /\ exception' \in {"none", "outOfRange", "notADictionary"}
           /\ BackendHasGrantedTokens'
<1> USE LoginAssumption
<1>0. /\ granted \in 0..MaxRedirects /\ redirects \in 0..MaxRedirects /\ granted <= redirects
      /\ token \in [Kit -> 0..granted] /\ heard \in 0..granted
      /\ rows \in [1..MaxRedirects -> {"none", "sent", "inserted", "failed"}]
      /\ exception \in {"none", "outOfRange", "notADictionary"}
      /\ "shared" \in Kit
      /\ token["shared"] \in {0, granted}
      /\ \A n \in 1..MaxRedirects : rows[n] # "none" <=> n <= granted
  BY DEF LoginInv, LoginSafe, LoginTypeOK, BackendHasGrantedTokens, Kit
<1>1. CASE answer \in {"unreachable", "malformed", "list"}
  BY <1>0, <1>1 DEF Exchange, BackendHasGrantedTokens
<1>2. CASE answer = "refused"
  <2>1. UNCHANGED <<heard, granted, rows, exception>> /\ token' = [token EXCEPT !["shared"] = 0]
    BY <1>2 DEF Exchange
  <2>2. token' \in [Kit -> 0..granted] /\ token'["shared"] = 0
    BY <1>0, <2>1
  <2> QED BY <1>0, <2>1, <2>2 DEF BackendHasGrantedTokens
<1>3. CASE answer = "granted"
  <2>1. /\ granted' = granted + 1 /\ exception' = exception
        /\ token' = [token EXCEPT !["shared"] = granted']
        /\ heard' \in {granted', heard}
        /\ rows' = [rows EXCEPT ![granted'] = "sent"]
    BY <1>3 DEF Exchange
  <2>2. granted' \in 1..MaxRedirects /\ granted' <= redirects + 1 /\ heard' \in 0..granted'
    BY <1>0, <2>1
  <2>3. token' \in [Kit -> 0..granted'] /\ token'["shared"] = granted'
    <3>1. \A k \in Kit : token[k] \in 0..granted'
      BY <1>0, <2>1
    <3> QED BY <1>0, <2>1, <2>2, <3>1
  <2>4. /\ rows' \in [1..MaxRedirects -> {"none", "sent", "inserted", "failed"}]
        /\ \A n \in 1..MaxRedirects : rows'[n] # "none" <=> n <= granted'
    BY <1>0, <2>1, <2>2
  <2> QED BY <1>0, <2>1, <2>2, <2>3, <2>4 DEF BackendHasGrantedTokens
<1> QED BY <1>1, <1>2, <1>3 DEF Answers

\* Every step keeps LoginInv.
LEMMA LoginStep == LoginInv /\ [LoginNext]_loginVars => LoginInv'
<1> USE LoginAssumption
<1> SUFFICES ASSUME LoginInv, [LoginNext]_loginVars PROVE LoginInv'
  OBVIOUS
<1> USE DEF LoginInv, LoginSafe, LoginTypeOK, BackendHasGrantedTokens, launchVars
<1>1. CASE FinishLaunching
  BY <1>1 DEF FinishLaunching, RequestOAuth2Access, Kit
<1>2. ASSUME NEW source, NEW query, HandleRedirect(source, query) PROVE LoginInv'
  <2>1. /\ redirects < MaxRedirects /\ redirects' = redirects + 1
        /\ UNCHANGED <<launched, pending, indicator, delegate, calls>>
    BY <1>2 DEF HandleRedirect
  <2>2. redirects' \in 0..MaxRedirects
    BY <2>1
  <2>3. CASE \E answer \in Answers : Exchange(answer)
    <3> HIDE DEF LoginInv, BackendHasGrantedTokens
    <3>1. /\ granted' \in 0..MaxRedirects /\ granted' <= redirects'
          /\ token' \in [Kit -> 0..granted'] /\ heard' \in 0..granted'
          /\ rows' \in [1..MaxRedirects -> {"none", "sent", "inserted", "failed"}]
          /\ exception' \in {"none", "outOfRange", "notADictionary"}
          /\ BackendHasGrantedTokens'
      BY <2>1, <2>3, ExchangeKeeps
    <3> QED BY <2>1, <2>2, <3>1 DEF LoginInv
  <2>4. CASE /\ UNCHANGED <<token, heard, granted, rows>>
             /\ exception' \in {exception, "outOfRange"}
    BY <2>1, <2>2, <2>4
  <2> QED BY <1>2, <2>3, <2>4 DEF HandleRedirect
<1>3. ASSUME NEW n \in 1..MaxRedirects, NEW outcome \in {"inserted", "failed"},
             Inserted(n, outcome)
      PROVE  LoginInv'
  BY <1>3 DEF Inserted
<1>4. ASSUME NEW c \in Call, NEW k \in Kit, MakeCall(c, k) PROVE LoginInv'
  BY <1>4 DEF MakeCall
<1>5. ASSUME NEW c \in Call, AnswerCall(c) PROVE LoginInv'
  <2>1. calls[c].state = "loading" /\ calls[c].handled = 0
    BY <1>5 DEF AnswerCall
  <2>2. CASE UNCHANGED calls /\ exception' = "notADictionary"
    BY <1>5, <2>2 DEF AnswerCall
  <2>3. CASE UNCHANGED exception /\ \E s \in {"results", "error"} :
               calls' = [calls EXCEPT ![c].state = s, ![c].handled = @ + 1]
    <3>1. PICK s \in {"results", "error"} :
               calls' = [calls EXCEPT ![c] = [kit |-> calls[c].kit, state |-> s, handled |-> 1]]
      BY <2>1, <2>3
    <3> QED BY <1>5, <2>3, <3>1 DEF AnswerCall
  <2> QED BY <1>5, <2>2, <2>3 DEF AnswerCall
<1>6. CASE UNCHANGED loginVars
  BY <1>6 DEF loginVars
<1> QED BY <1>1, <1>2, <1>3, <1>4, <1>5, <1>6 DEF LoginNext

\* However often the user comes back and whatever the token endpoint answers, the
\* shared UberKit has the last token or none, and the backend exactly those granted.
THEOREM LoginIsSafe == LoginSpec => []LoginSafe
<1>1. LoginInit => LoginInv
  BY LoginAssumption
  DEF LoginInit, LoginInv, LoginSafe, LoginTypeOK, BackendHasGrantedTokens, Kit, Idle
<1>2. LoginInv => LoginSafe
  BY DEF LoginInv
<1> QED BY <1>1, <1>2, LoginStep, PTL DEF LoginSpec

-----------------------------------------------------------------------------
(* The screens                                                             *)

\* The inductive invariant.  At most the last search runs, and the shared flight
\* is always of that search, because a block can only overwrite its pickup time
\* with a later one; a reservation whose search has not come back is untouched.
ReservationInv ==
    /\ ReservationTypeOK
    /\ searching \subseteq {searches}
    /\ loading = "shown" <=> searching # {}
    /\ searching # {} => top = 0
    /\ tempFlight = [search |-> searches, pickup |-> searches]
    /\ ShowsItsFlight
    /\ RidesFollowTaps
    /\ \A n \in Search : n > searches \/ n \in searching => reservation[n].button = "confirm"

\* What RidesFollowTaps says of one reservation.
FollowsTaps(r) ==
    /\ r.toBlocks + (IF r.to = "ride" THEN 1 ELSE 0) = IF r.button = "confirm" THEN 0 ELSE 1
    /\ r.fromBlocks + (IF r.from = "ride" THEN 1 ELSE 0) = IF r.button = "disabled" THEN 1 ELSE 0

\* A ReservationVC.
ReservationVC ==
    [shows : 0..MaxSearches, pickup : 0..MaxSearches, button : Button,
     to : {"pending", "ride"}, from : {"pending", "ride"}, toBlocks : 0..1, fromBlocks : 0..1]

\* The reservation r with other taps and rides.
WithRides(r, button, to, from, toBlocks, fromBlocks) ==
    [shows |-> r.shows, pickup |-> r.pickup, button |-> button, to |-> to, from |-> from,
     toBlocks |-> toBlocks, fromBlocks |-> fromBlocks]

\* A step that changes one reservation, and nothing that is shared, keeps the
\* invariant if the reservation's rides still follow the taps.
LEMMA OneReservation ==
    ASSUME ReservationInv, NEW n \in Search, NEW r \in ReservationVC,
           reservation' = [reservation EXCEPT ![n] = r],
           UNCHANGED <<loading, searches, searching, top, tempFlight>>,
           FollowsTaps(r),
           r.shows = reservation[n].shows, r.pickup = reservation[n].pickup,
           r.button = reservation[n].button \/ n = top
    PROVE  ReservationInv'
<1> USE ReservationAssumption
<1>1. /\ reservation'[n] = r /\ \A m \in Search : m # n => reservation'[m] = reservation[m]
      /\ reservation' \in [Search -> ReservationVC]
  BY DEF ReservationInv, ReservationTypeOK, ReservationVC
<1>2. ReservationTypeOK'
  BY <1>1 DEF ReservationInv, ReservationTypeOK, ReservationVC
<1>3. ShowsItsFlight'
  <2>1. top \in Search \/ top = 0
    BY DEF ReservationInv, ReservationTypeOK, Search
  <2> QED BY <1>1, <2>1 DEF ReservationInv, ShowsItsFlight, Search
<1>4. RidesFollowTaps'
  BY <1>1 DEF ReservationInv, RidesFollowTaps, FollowsTaps
<1>5. \A m \in Search : m > searches' \/ m \in searching' => reservation'[m].button = "confirm"
  <2>1. n = top => ~(n > searches) /\ n \notin searching
    BY DEF ReservationInv, ReservationTypeOK, ShowsItsFlight, Search
  <2> QED BY <1>1, <2>1 DEF ReservationInv
<1> QED BY <1>2, <1>3, <1>4, <1>5 DEF ReservationInv

\* Every step keeps ReservationInv.
LEMMA ReservationStep ==
    ReservationInv /\ [ReservationNext]_reservationVars => ReservationInv'
<1> USE ReservationAssumption
<1> SUFFICES ASSUME ReservationInv, [ReservationNext]_reservationVars PROVE ReservationInv'
  OBVIOUS
<1>0. /\ reservation \in [Search -> ReservationVC] /\ searches \in 0..MaxSearches
      /\ \A n \in Search : FollowsTaps(reservation[n])
      /\ top # 0 => top \in Search
  BY DEF ReservationInv, ReservationTypeOK, ReservationVC, RidesFollowTaps, FollowsTaps, Search
<1>1. CASE Go
  <2>1. /\ searches' = searches + 1 /\ searches' \in Search /\ searching = {}
        /\ searching' = {searches'} /\ top' = 0 /\ reservation' = reservation
        /\ tempFlight' = [search |-> searches', pickup |-> searches'] /\ loading' = "shown"
    BY <1>0, <1>1 DEF Go, GoFree, ReservationInv, Search
  <2>2. ReservationTypeOK'
    BY <1>0, <2>1 DEF ReservationInv, ReservationTypeOK, Search
  <2>3. \A n \in Search : n > searches' \/ n \in searching' => n > searches
    BY <1>0, <2>1 DEF Search
  <2> QED BY <1>0, <2>1, <2>2, <2>3 DEF ReservationInv, ShowsItsFlight, RidesFollowTaps
<1>2. ASSUME NEW n \in Search, Found(n) PROVE ReservationInv'
  <2> DEFINE r == [reservation[n] EXCEPT !.shows = searches, !.pickup = searches,
                                         !.button = "confirm"]
  <2>1. /\ n = searches /\ top = 0 /\ searching' = {} /\ loading' = "hidden" /\ top' = n
        /\ UNCHANGED <<searches, tempFlight>>
        /\ tempFlight.search = searches /\ tempFlight.pickup = searches
        /\ reservation[n].button = "confirm"
    BY <1>2 DEF Found, ReservationInv
  <2>2. reservation' = [reservation EXCEPT ![n] = r]
    BY <1>0, <1>2, <2>1 DEF Found, SetupWithFlight
  <2>3. r \in ReservationVC /\ r.shows = searches /\ r.pickup = searches /\ FollowsTaps(r)
        /\ r.button = "confirm"
    BY <1>0, <2>1 DEF ReservationVC, FollowsTaps, Button
  <2> HIDE DEF r
  <2>4. /\ reservation'[n] = r /\ \A m \in Search : m # n => reservation'[m] = reservation[m]
        /\ reservation' \in [Search -> ReservationVC]
    BY <1>0, <2>2, <2>3
  <2>5. ReservationTypeOK'
    BY <2>1, <2>4 DEF ReservationInv, ReservationTypeOK, ReservationVC, Search
  <2>6. ShowsItsFlight'
    BY <2>1, <2>3, <2>4 DEF ShowsItsFlight
  <2>7. RidesFollowTaps'
    BY <1>0, <2>3, <2>4 DEF RidesFollowTaps, FollowsTaps
  <2>8. \A m \in Search : m > searches' \/ m \in searching' => reservation'[m].button = "confirm"
    BY <2>1, <2>3, <2>4 DEF ReservationInv
  <2> QED BY <2>1, <2>5, <2>6, <2>7, <2>8 DEF ReservationInv, Search
<1>3. CASE Confirm
  <2> DEFINE r == WithRides(reservation[top], "confirmed", reservation[top].to, reservation[top].from,
                              reservation[top].toBlocks + 1, reservation[top].fromBlocks)
  <2>1. /\ top \in Search /\ reservation[top].button = "confirm"
        /\ reservation' = [reservation EXCEPT ![top] = r]
        /\ UNCHANGED <<loading, searches, searching, tempFlight, top>>
    BY <1>0, <1>3 DEF Confirm, ReservationVC, WithRides
  <2>2. r \in ReservationVC /\ FollowsTaps(r)
        /\ r.shows = reservation[top].shows /\ r.pickup = reservation[top].pickup
    BY <1>0, <2>1 DEF ReservationVC, FollowsTaps, Button, WithRides
  <2> HIDE DEF r
  <2> QED BY <2>1, <2>2, OneReservation
<1>4. CASE ConfirmAgain
  <2> DEFINE r == WithRides(reservation[top], "disabled", reservation[top].to, reservation[top].from,
                              reservation[top].toBlocks, reservation[top].fromBlocks + 1)
  <2>1. /\ top \in Search /\ reservation[top].button = "confirmed"
        /\ reservation' = [reservation EXCEPT ![top] = r]
        /\ UNCHANGED <<loading, searches, searching, tempFlight, top>>
    BY <1>0, <1>4 DEF ConfirmAgain, ReservationVC, WithRides
  <2>2. r \in ReservationVC /\ FollowsTaps(r)
        /\ r.shows = reservation[top].shows /\ r.pickup = reservation[top].pickup
    BY <1>0, <2>1 DEF ReservationVC, FollowsTaps, Button, WithRides
  <2> HIDE DEF r
  <2> QED BY <2>1, <2>2, OneReservation
<1>5. CASE Cancel
  BY <1>5 DEF Cancel, ReservationInv, ReservationTypeOK, ShowsItsFlight, RidesFollowTaps
<1>6. ASSUME NEW n \in Search, ToRide(n) PROVE ReservationInv'
  <2> DEFINE r == WithRides(reservation[n], reservation[n].button, "ride", reservation[n].from,
                              reservation[n].toBlocks - 1, reservation[n].fromBlocks)
  <2>1. /\ reservation[n].toBlocks > 0
        /\ reservation' = [reservation EXCEPT ![n] = r]
        /\ UNCHANGED <<loading, searches, searching, top>>
    <3> DEFINE q == WithRides(reservation[n], reservation[n].button, reservation[n].to,
                              reservation[n].from,
                              reservation[n].toBlocks - 1, reservation[n].fromBlocks)
    <3>1. [reservation[n] EXCEPT !.toBlocks = reservation[n].toBlocks - 1] = q
      BY <1>0 DEF ReservationVC, WithRides
    <3>2. [q EXCEPT !.to = "ride"] = r
      BY DEF WithRides
    <3> HIDE DEF q, r
    <3> QED BY <1>6, <3>1, <3>2 DEF ToRide, SetupToRide
  <2>2. tempFlight' = tempFlight
    BY <1>0, <1>6 DEF ToRide, ReservationInv
  <2>3. r \in ReservationVC /\ FollowsTaps(r) /\ r.button = reservation[n].button
        /\ r.shows = reservation[n].shows /\ r.pickup = reservation[n].pickup
    BY <1>0, <2>1 DEF ReservationVC, FollowsTaps, WithRides
  <2> HIDE DEF r
  <2> QED BY <2>1, <2>2, <2>3, OneReservation
<1>7. ASSUME NEW n \in Search, FromRide(n) PROVE ReservationInv'
  <2> DEFINE r == WithRides(reservation[n], reservation[n].button, reservation[n].to, "ride",
                              reservation[n].toBlocks, reservation[n].fromBlocks - 1)
  <2>1. /\ reservation[n].fromBlocks > 0
        /\ reservation' = [reservation EXCEPT ![n] = r]
        /\ UNCHANGED <<loading, searches, searching, tempFlight, top>>
    <3> DEFINE q == WithRides(reservation[n], reservation[n].button, reservation[n].to,
                              reservation[n].from,
                              reservation[n].toBlocks, reservation[n].fromBlocks - 1)
    <3>1. [reservation[n] EXCEPT !.fromBlocks = reservation[n].fromBlocks - 1] = q
      BY <1>0 DEF ReservationVC, WithRides
    <3>2. [q EXCEPT !.from = "ride"] = r
      BY DEF WithRides
    <3> HIDE DEF q, r
    <3> QED BY <1>7, <3>1, <3>2 DEF FromRide, SetupFromRide
  <2>2. r \in ReservationVC /\ FollowsTaps(r) /\ r.button = reservation[n].button
        /\ r.shows = reservation[n].shows /\ r.pickup = reservation[n].pickup
    BY <1>0, <2>1 DEF ReservationVC, FollowsTaps, WithRides
  <2> HIDE DEF r
  <2> QED BY <2>1, <2>2, OneReservation
<1>8. CASE UNCHANGED reservationVars
  BY <1>8 DEF reservationVars, ReservationInv, ReservationTypeOK, ShowsItsFlight, RidesFollowTaps
<1> QED BY <1>1, <1>2, <1>3, <1>4, <1>5, <1>6, <1>7, <1>8 DEF ReservationNext

\* However the user searches, confirms, cancels and searches again while blocks of
\* reservations that were left still come: one search runs at a time, a reservation
\* shows its own flight, and each ride is asked for and shown once.
THEOREM ReservationIsSafe == ReservationSpec => []ReservationSafe
<1>1. ReservationInit => ReservationInv
  BY ReservationAssumption
  DEF ReservationInit, ReservationInv, ReservationTypeOK, ShowsItsFlight, RidesFollowTaps,
      NoReservation, Button
<1>2. ReservationInv => ReservationSafe
  <2> SUFFICES ASSUME ReservationInv PROVE ReservationSafe
    OBVIOUS
  <2>1. searching = {} \/ searching = {searches}
    BY DEF ReservationInv
  <2>2. Cardinality(searching) \in {0, 1}
    <3>1. Cardinality({}) = 0 /\ Cardinality({searches}) = 1
      BY FS_EmptySet, FS_Singleton
    <3> QED BY <2>1, <3>1
  <2>3. Cardinality(searching) <= 1
    BY <2>2
  <2> QED BY <2>3 DEF ReservationInv, ReservationSafe, OneSearchAtATime
<1> QED BY <1>1, <1>2, ReservationStep, PTL DEF ReservationSpec

-----------------------------------------------------------------------------
(* The flight data                                                         *)

\* The data of a page are those of its flight, or none yet.
DataInv == flight \in Flight /\ page \in SUBSET Panel /\ (data = NoData \/ data = Scraped(flight, page))

\* The arithmetic of a clock: a local time is its day, its half of the day, its
\* hour and its minute, and the twelve stands for a zero.
LEMMA Clockwork ==
    ASSUME NEW l \in Int, NEW off \in Int, NEW mom \in Int, l = mom + off,
           NEW m \in Int, m = l % 1440, NEW h \in Int, h = m \div 60
    PROVE  (60 * ((IF h % 12 = 0 THEN 12 ELSE h % 12) + (IF m < 720 THEN 0 ELSE 12)) + (m % 60)) - off
             = (mom - 1440 * (l \div 1440)) + (IF (l \div 60) % 12 = 0 THEN 720 ELSE 0)
<1>1. (l \div 60) % 12 = h % 12
  OBVIOUS
<1>2. /\ l = 1440 * (l \div 1440) + m
      /\ m = 60 * h + (m % 60)
      /\ l \div 1440 \in Int /\ m % 60 \in Int /\ h % 12 \in Int
  OBVIOUS
<1>3. h = (h % 12) + (IF m < 720 THEN 0 ELSE 12)
  OBVIOUS
<1>4. CASE h % 12 = 0
  <2>1. 60 * (12 + (IF m < 720 THEN 0 ELSE 12)) = 60 * h + 720
    BY <1>3, <1>4
  <2> QED
    BY <1>1, <1>2, <2>1, <1>4
<1>5. CASE h % 12 # 0
  BY <1>1, <1>2, <1>3, <1>5
<1> QED
  BY <1>4, <1>5

\* The moments of a flight are integers, and so are their local times.
LEMMA MomentType ==
    ASSUME NEW f \in Flight, NEW k \in Field
    PROVE  /\ Moment(f, k) \in Int
           /\ Place(f, k) \in Zone
           /\ Offset[Place(f, k)] \in Int
           /\ Local(f, k) \in Int
           /\ Local(f, k) = Moment(f, k) + Offset[Place(f, k)]
<1>1. /\ f.time \in Int /\ f.from \in Zone /\ f.to \in Zone
      /\ f.duration \in Int /\ f.delay \in Int
  <2>1. /\ f.time \in Time /\ f.from \in Zone /\ f.to \in Zone
        /\ f.duration \in Duration /\ f.delay \in Delay
    BY DEF Flight
  <2>2. \A t \in Time : t \in Int
    BY FlightAssumption
  <2>3. \A t \in Duration : t \in Int
    BY FlightAssumption
  <2>4. \A t \in Delay : t \in Int
    BY FlightAssumption
  <2> QED
    BY <2>1, <2>2, <2>3, <2>4
<1>2. Place(f, k) \in Zone
  BY <1>1 DEF Place
<1>3. Moment(f, k) \in Int
  <2>1. Offset[f.from] \in Int
    BY <1>1, FlightAssumption
  <2> QED
    BY <1>1, <2>1 DEF Moment
<1> QED
  BY <1>2, <1>3, FlightAssumption DEF Local

\* strToDate() of what the page shows is the moment on the flight's own day, and
\* twelve hours later in the hour of twelve.
LEMMA StrToDateError ==
    ASSUME NEW f \in Flight, NEW k \in Field, NEW p \in SUBSET Panel,
           StrToDate(Shown(f, k), p).is = "date"
    PROVE  /\ "date" \in p /\ Place(f, k) \in Known
           /\ StrToDate(Shown(f, k), p).at =
                (Moment(f, k) - 1440 * (Local(f, k) \div 1440))
                  + (IF (Local(f, k) \div 60) % 12 = 0 THEN 720 ELSE 0)
<1>1. "date" \in p /\ Place(f, k) \in Known
  BY DEF StrToDate, Invalid, Shown
<1>2. PICK l \in Int : l = Local(f, k)
  BY MomentType
<1>3. PICK m \in Int : m = l % 1440
  BY <1>2
<1>4. PICK h \in Int : h = m \div 60
  BY <1>3
<1>5. PICK off \in Int : off = Offset[Place(f, k)]
  BY MomentType
<1>6. PICK mom \in Int : mom = Moment(f, k)
  BY MomentType
<1>7. Shown(f, k) = [hour |-> IF h % 12 = 0 THEN 12 ELSE h % 12,
                     minute |-> m % 60,
                     half |-> IF m < 720 THEN "A" ELSE "P",
                     zone |-> Place(f, k)]
  BY <1>2, <1>3, <1>4 DEF Shown
<1>8. (IF (IF m < 720 THEN "A" ELSE "P") = "P" THEN 12 ELSE 0) = (IF m < 720 THEN 0 ELSE 12)
  OBVIOUS
<1>9. StrToDate(Shown(f, k), p).at
        = (60 * ((IF h % 12 = 0 THEN 12 ELSE h % 12) + (IF m < 720 THEN 0 ELSE 12)) + (m % 60)) - off
  BY <1>1, <1>5, <1>7, <1>8 DEF StrToDate, DateOf
<1>10. l = mom + off
  BY <1>2, <1>5, <1>6, MomentType
<1>11. StrToDate(Shown(f, k), p).at
         = (mom - 1440 * (l \div 1440)) + (IF (l \div 60) % 12 = 0 THEN 720 ELSE 0)
  BY <1>3, <1>4, <1>9, <1>10, Clockwork
<1> QED
  BY <1>1, <1>2, <1>6, <1>11

\* A field has a date only where strToDate() was given one of the page's times.
LEMMA ScrapedFrom ==
    ASSUME NEW k \in Field, DataInv, data[k].is = "date"
    PROVE  /\ Source(page, k) \in Field
           /\ Fills(page, k)
           /\ data[k] = StrToDate(Shown(flight, Source(page, k)), page)
<1>1. Source(page, k) \in Field
  BY DEF Source, Field
<1>2. data[k] # Unset
  BY DEF Unset
<1>3. data = Scraped(flight, page)
  BY <1>2 DEF DataInv, NoData
<1>4. data[k] = IF Fills(page, k) THEN StrToDate(Shown(flight, Source(page, k)), page) ELSE Unset
  BY <1>3 DEF Scraped
<1> QED
  BY <1>1, <1>2, <1>4

\* The data are scraped from the page or not there.
LEMMA DataInvariant == FlightSpec => []DataInv
<1>1. FlightInit => DataInv
  BY DEF FlightInit, DataInv
<1>2. DataInv /\ [FlightNext]_flightVars => DataInv'
  <2> SUFFICES ASSUME DataInv, [FlightNext]_flightVars PROVE DataInv'
    OBVIOUS
  <2>1. CASE Request
    BY <2>1 DEF Request, DataInv, Scraped, Fills, Source
  <2>2. CASE Fail
    BY <2>2 DEF Fail, DataInv, Scraped, Fills, Source
  <2>3. CASE Respond
    <3>1. CASE UNCHANGED data
      BY <2>3, <3>1 DEF Respond, DataInv
    <3>2. CASE data' = Scraped(flight, page)
      BY <2>3, <3>2 DEF Respond, DataInv
    <3> QED
      BY <2>3, <3>1, <3>2 DEF Respond
  <2>4. CASE UNCHANGED flightVars
    BY <2>4 DEF flightVars, DataInv
  <2> QED
    BY <2>1, <2>2, <2>3, <2>4 DEF FlightNext
<1> QED
  BY <1>1, <1>2, PTL DEF FlightSpec

\* For every flight and every page: a scraped date is off by the days that have
\* passed and by twelve hours in the hour of twelve, and by nothing else
\* (strToDate()).
THEOREM DatesOffByTwelveOrDays == FlightSpec => []ErrorIsTwelveOrDays
<1>1. DataInv => ErrorIsTwelveOrDays
  <2> SUFFICES ASSUME DataInv, NEW k \in Field, data[k].is = "date"
               PROVE  LET source == Source(page, k)
                          local  == Local(flight, source)
                      IN  data[k].at = (Moment(flight, source) - 1440 * (local \div 1440))
                                         + (IF (local \div 60) % 12 = 0 THEN 720 ELSE 0)
    BY DEF ErrorIsTwelveOrDays
  <2>1. /\ Source(page, k) \in Field
        /\ data[k] = StrToDate(Shown(flight, Source(page, k)), page)
    BY ScrapedFrom
  <2>2. flight \in Flight /\ page \in SUBSET Panel
    BY DEF DataInv
  <2> QED
    BY <2>1, <2>2, StrToDateError
<1> QED
  BY <1>1, DataInvariant, PTL

\* For every flight and every page: no date without the day, the panel and a zone
\* that is known (getFlightData()).
THEOREM DatesFromPanels == FlightSpec => []DatesNeedTheirPanels
<1>1. DataInv => DatesNeedTheirPanels
  <2> SUFFICES ASSUME DataInv, NEW k \in Field, data[k].is = "date"
               PROVE  /\ "date" \in page
                      /\ Place(flight, Source(page, k)) \in Known
                      /\ k = "scheduledArrival" => {"departure", "arrival"} \subseteq page
    BY DEF DatesNeedTheirPanels
  <2>1. /\ Source(page, k) \in Field
        /\ Fills(page, k)
        /\ data[k] = StrToDate(Shown(flight, Source(page, k)), page)
    BY ScrapedFrom
  <2>2. flight \in Flight /\ page \in SUBSET Panel
    BY DEF DataInv
  <2>3. "date" \in page /\ Place(flight, Source(page, k)) \in Known
    BY <2>1, <2>2, StrToDateError
  <2>4. k = "scheduledArrival" => {"departure", "arrival"} \subseteq page
    BY <2>1 DEF Fills
  <2> QED
    BY <2>3, <2>4
<1> QED
  BY <1>1, DataInvariant, PTL

\* The request and the data it gets stay of their types.
TypeInv ==
    /\ state \in {"idle", "requested", "failed", "printed", "typeError"}
    /\ DataInv

\* What is scraped of a page is a date, an invalid one or the one there was.
LEMMA ScrapedType ==
    ASSUME NEW f \in Flight, NEW p \in SUBSET Panel
    PROVE  Scraped(f, p) \in [Field -> [is : {"unset", "invalid", "date"}, at : Int]]
<1> SUFFICES ASSUME NEW k \in Field
             PROVE  (IF Fills(p, k) THEN StrToDate(Shown(f, Source(p, k)), p) ELSE Unset)
                      \in [is : {"unset", "invalid", "date"}, at : Int]
  BY DEF Scraped
<1>1. Unset \in [is : {"unset", "invalid", "date"}, at : Int]
  BY DEF Unset
<1>2. Invalid \in [is : {"unset", "invalid", "date"}, at : Int]
  BY DEF Invalid
<1>3. Source(p, k) \in Field
  BY DEF Source, Field
<1>4. PICK j \in Field : j = Source(p, k)
  BY <1>3
<1>5. CASE StrToDate(Shown(f, j), p) = Invalid
  BY <1>1, <1>2, <1>4, <1>5
<1>6. CASE StrToDate(Shown(f, j), p) # Invalid
  <2>1. StrToDate(Shown(f, j), p).is = "date"
    BY <1>6 DEF StrToDate, DateOf
  <2>2. StrToDate(Shown(f, j), p).at =
          (Moment(f, j) - 1440 * (Local(f, j) \div 1440))
            + (IF (Local(f, j) \div 60) % 12 = 0 THEN 720 ELSE 0)
    BY <2>1, StrToDateError
  <2>3. StrToDate(Shown(f, j), p).at \in Int
    BY <2>2, MomentType
  <2>4. PICK x : StrToDate(Shown(f, j), p) = [is |-> "date", at |-> x]
    BY <1>6 DEF StrToDate, DateOf
  <2>5. x \in Int
    BY <2>3, <2>4
  <2>6. StrToDate(Shown(f, j), p) \in [is : {"unset", "invalid", "date"}, at : Int]
    BY <2>4, <2>5
  <2> QED
    BY <1>1, <1>4, <2>6
<1> QED
  BY <1>5, <1>6

\* The state of the request is one of five.
LEMMA TypeInvariant == FlightSpec => []TypeInv
<1>1. FlightInit => TypeInv
  BY DEF FlightInit, TypeInv, DataInv
<1>2. TypeInv /\ DataInv' /\ [FlightNext]_flightVars => TypeInv'
  BY DEF TypeInv, FlightNext, flightVars, Request, Fail, Respond
<1> QED
  BY <1>1, <1>2, DataInvariant, PTL DEF FlightSpec

\* For every flight and every page: flightData is well-formed, its dates are wrong
\* only in the two ways of strToDate(), and they come from their own panels
\* (getFlightData()).
THEOREM FlightDataSafe == FlightSpec => []FlightSafe
<1>1. TypeInv => FlightTypeOK
  <2> SUFFICES ASSUME TypeInv PROVE FlightTypeOK
    OBVIOUS
  <2>1. flight \in Flight /\ page \in SUBSET Panel
    BY DEF TypeInv, DataInv
  <2>2. NoData \in [Field -> [is : {"unset", "invalid", "date"}, at : Int]]
    BY DEF NoData, Unset
  <2>3. data \in [Field -> [is : {"unset", "invalid", "date"}, at : Int]]
    BY <2>1, <2>2, ScrapedType DEF TypeInv, DataInv
  <2> QED
    BY <2>1, <2>3 DEF TypeInv, FlightTypeOK
<1>2. FlightTypeOK /\ ErrorIsTwelveOrDays /\ DatesNeedTheirPanels => FlightSafe
  BY DEF FlightSafe
<1> QED
  BY <1>1, <1>2, TypeInvariant, DatesOffByTwelveOrDays, DatesFromPanels, PTL

-----------------------------------------------------------------------------
(* The body of a request                                                   *)

\* What has been passed over is exhausted; a body without a current stream has
\* either not been read or is at its end.
ReadsOn ==
    /\ got = pos
    /\ current = "set" => \A i \in Stream : i < index => pos[i] = Size[i]
    /\ \A i \in Stream : status[i] = "atEnd" => pos[i] = Size[i]
    /\ phase = "new" => result = "none"
    /\ phase = "open" /\ current = "nil" => Complete

\* The inductive invariant: CompleteAtEnd needs to know that the streams before
\* the current one are exhausted, which ReadsOn says.
BodyInv == BodyTypeOK /\ ReadsOn /\ InOrder /\ CompleteAtEnd

\* A body that has just been made satisfies the invariant (initWithParameters:).
LEMMA InitBody == BodyInit => BodyInv
BY BodyAssumption DEF BodyInit, BodyInv, BodyTypeOK, ReadsOn, InOrder, CompleteAtEnd, Complete, Stream

\* open, also a second one, leaves the invariant true.
LEMMA OpenBody == BodyInv /\ Open => BodyInv'
<1> SUFFICES ASSUME BodyInv, Open PROVE BodyInv'
  OBVIOUS
<1>a. PICK gone \in SUBSET Missing :
        status' = [i \in Stream |-> IF status[i] # "notOpen" THEN status[i]
                                  ELSE IF i \in gone THEN "error" ELSE "open"]
  BY DEF Open, OpenAll
<1>1. BodyTypeOK'
  BY <1>a, BodyAssumption DEF BodyInv, BodyTypeOK, Open, Stream
<1>2. ReadsOn'
  BY <1>a, BodyAssumption DEF BodyInv, BodyTypeOK, ReadsOn, Open, Stream, Complete
<1>3. InOrder' /\ CompleteAtEnd'
  BY DEF BodyInv, BodyTypeOK, ReadsOn, InOrder, CompleteAtEnd, Complete, Open
<1> QED
  BY <1>1, <1>2, <1>3 DEF BodyInv

\* open after close does not touch what was sent.
LEMMA ReopenBody == BodyInv /\ Reopen => BodyInv'
<1> SUFFICES ASSUME BodyInv, Reopen PROVE BodyInv'
  OBVIOUS
<1>1. BodyTypeOK'
  BY BodyAssumption DEF BodyInv, BodyTypeOK, Reopen, Stream
<1>2. ReadsOn' /\ InOrder' /\ CompleteAtEnd'
  BY DEF BodyInv, BodyTypeOK, ReadsOn, InOrder, CompleteAtEnd, Complete, Reopen, Stream
<1> QED
  BY <1>1, <1>2 DEF BodyInv

\* A read without a current stream finds a body that is complete.
LEMMA NothingBody == BodyInv /\ phase # "new" /\ ReadNothing => BodyInv'
<1> SUFFICES ASSUME BodyInv, phase # "new", ReadNothing PROVE BodyInv'
  OBVIOUS
<1>1. BodyTypeOK'
  BY DEF BodyInv, BodyTypeOK, ReadNothing
<1>2. ReadsOn' /\ InOrder' /\ CompleteAtEnd'
  BY DEF BodyInv, BodyTypeOK, ReadsOn, InOrder, CompleteAtEnd, Complete, ReadNothing
<1> QED
  BY <1>1, <1>2 DEF BodyInv
\* Reading past the last stream: those before the current one and those from it
\* on are all exhausted.
LEMMA EndBody == BodyInv /\ phase # "new" /\ ReadEnd => BodyInv'
<1> SUFFICES ASSUME BodyInv, phase # "new", ReadEnd PROVE BodyInv'
  OBVIOUS
<1>1. BodyTypeOK'
  BY BodyAssumption DEF BodyInv, BodyTypeOK, ReadEnd, Stream
<1>2. Complete
  <2> SUFFICES ASSUME NEW i \in Stream PROVE got[i] = Size[i]
    BY DEF Complete
  <2>1. CASE i < index
    BY <2>1 DEF BodyInv, ReadsOn, ReadEnd
  <2>2. CASE ~(i < index)
    <3>1. i \in index..N
      BY <2>2, BodyAssumption DEF BodyInv, BodyTypeOK, Stream
    <3> QED
      BY <3>1 DEF BodyInv, ReadsOn, ReadEnd, AtEnd
  <2> QED
    BY <2>1, <2>2
<1>3. ReadsOn' /\ InOrder' /\ CompleteAtEnd'
  BY <1>2 DEF BodyInv, BodyTypeOK, ReadsOn, InOrder, CompleteAtEnd, Complete, ReadEnd
<1> QED
  BY <1>1, <1>3 DEF BodyInv

\* A stream that fails ends the reading where it is.
LEMMA ErrorBody == BodyInv /\ phase # "new" /\ ReadError => BodyInv'
<1> SUFFICES ASSUME BodyInv, phase # "new", ReadError PROVE BodyInv'
  OBVIOUS
<1>1. PICK j \in index..N : Reaches(j) /\ Broken(j) /\ index' = j
  BY DEF ReadError
<1>2. j \in Stream /\ index \in Stream /\ current = "set"
  BY BodyAssumption DEF BodyInv, BodyTypeOK, ReadError, Stream
<1>3. BodyTypeOK'
  BY <1>1, <1>2, BodyAssumption DEF BodyInv, BodyTypeOK, ReadError, Stream
<1>4. \A i \in Stream : i < j => pos[i] = Size[i]
  <2> SUFFICES ASSUME NEW i \in Stream, i < j PROVE pos[i] = Size[i]
    OBVIOUS
  <2>1. CASE i < index
    BY <1>2, <2>1 DEF BodyInv, ReadsOn
  <2>2. CASE ~(i < index)
    <3>1. i \in index..(j - 1)
      BY <1>2, <2>2, BodyAssumption DEF Stream
    <3> QED
      BY <1>1, <3>1 DEF Reaches, AtEnd
  <2> QED
    BY <2>1, <2>2
<1>5. ReadsOn' /\ InOrder' /\ CompleteAtEnd'
  BY <1>1, <1>2, <1>4 DEF BodyInv, BodyTypeOK, ReadsOn, InOrder, CompleteAtEnd, Complete, ReadError
<1> QED
  BY <1>3, <1>5 DEF BodyInv

\* Reading bytes of the first stream that has some.
LEMMA DataBody ==
    ASSUME NEW n \in 1..MaxLen, BodyInv, phase # "new", ReadData(n)
    PROVE  BodyInv'
<1>1. PICK j \in index..N :
         /\ Reaches(j)
         /\ HasData(j)
         /\ pos[j] + n <= Size[j]
         /\ pos' = [pos EXCEPT ![j] = @ + n]
         /\ got' = [got EXCEPT ![j] = @ + n]
         /\ index' = j
         /\ \/ UNCHANGED status
            \/ pos'[j] = Size[j] /\ status' = [status EXCEPT ![j] = "atEnd"]
  BY DEF ReadData
<1>2. j \in Stream /\ index \in Stream /\ current = "set" /\ n \in Nat /\ n > 0
  BY BodyAssumption DEF BodyInv, BodyTypeOK, ReadData, Stream
<1>3. \A i \in Stream : i < j => pos[i] = Size[i]
  <2> SUFFICES ASSUME NEW i \in Stream, i < j PROVE pos[i] = Size[i]
    OBVIOUS
  <2>1. CASE i < index
    BY <1>2, <2>1 DEF BodyInv, ReadsOn
  <2>2. CASE ~(i < index)
    <3>1. i \in index..(j - 1)
      BY <1>2, <2>2, BodyAssumption DEF Stream
    <3> QED
      BY <1>1, <3>1 DEF Reaches, AtEnd
  <2> QED
    BY <2>1, <2>2
<1>4. /\ pos \in [Stream -> Nat]
      /\ \A i \in Stream : pos[i] \in Nat /\ Size[i] \in Nat
      /\ got = pos
  BY BodyAssumption DEF BodyInv, BodyTypeOK, ReadsOn
<1>5. /\ \A i \in Stream : pos'[i] = IF i = j THEN pos[i] + n ELSE pos[i]
      /\ got' = pos'
      /\ pos' \in [Stream -> Nat]
  <2>1. got' = pos'
    BY <1>1, <1>4
  <2>2. pos' \in [Stream -> Nat]
    BY <1>1, <1>2, <1>4
  <2>3. \A i \in Stream : pos'[i] = IF i = j THEN pos[i] + n ELSE pos[i]
    BY <1>1, <1>2, <1>4
  <2> QED
    BY <2>1, <2>2, <2>3
<1>6. \A i \in Stream : pos[i] = Size[i] => i # j
  <2>1. pos[j] < Size[j]
    BY <1>1 DEF HasData
  <2> QED
    BY <1>2, <1>4, <2>1
<1>7. BodyTypeOK'
  <2>1. \A i \in Stream : pos'[i] <= Size[i]
    BY <1>1, <1>5 DEF BodyInv, BodyTypeOK
  <2>2. status' \in [Stream -> {"notOpen", "open", "error", "atEnd", "closed"}]
    BY <1>1 DEF BodyInv, BodyTypeOK
  <2>3. bodies' = bodies /\ phase' = phase /\ current' = current /\ result' = "data"
    BY DEF ReadData
  <2>4. index' \in 1..(N + 1) /\ index' \in Stream
    BY <1>1, <1>2, BodyAssumption DEF Stream
  <2> QED
    BY <1>5, <2>1, <2>2, <2>3, <2>4 DEF BodyInv, BodyTypeOK
<1>8. \A i \in Stream : pos[i] = Size[i] => pos'[i] = Size[i]
  BY <1>5, <1>6
<1>9. \A i \in Stream : status'[i] = "atEnd" => pos'[i] = Size[i]
  <2> SUFFICES ASSUME NEW i \in Stream, status'[i] = "atEnd" PROVE pos'[i] = Size[i]
    OBVIOUS
  <2>1. CASE status[i] = "atEnd"
    BY <2>1, <1>8 DEF BodyInv, ReadsOn
  <2>2. CASE status[i] # "atEnd"
    BY <2>2, <1>1, <1>2 DEF BodyInv, BodyTypeOK
  <2> QED
    BY <2>1, <2>2
<1>10. \A i \in Stream : i < j => pos'[i] = Size[i]
  BY <1>3, <1>8
<1>11. phase' = phase /\ current' = "set" /\ result' = "data" /\ index' = j
  BY <1>1, <1>2 DEF ReadData
<1>12. ReadsOn'
  BY <1>5, <1>9, <1>10, <1>11 DEF ReadsOn
<1>13. InOrder'
  <2> SUFFICES ASSUME NEW i \in Stream, NEW k \in Stream, i < k, got'[k] > 0
               PROVE  got'[i] = Size[i]
    BY DEF InOrder
  <2>1. CASE k = j
    BY <2>1, <1>5, <1>10
  <2>2. CASE k # j
    <3>1. got[k] > 0
      BY <2>2, <1>2, <1>4, <1>5
    <3>2. got[i] = Size[i]
      BY <3>1 DEF BodyInv, InOrder
    <3> QED
      BY <3>2, <1>4, <1>5, <1>8
  <2> QED
    BY <2>1, <2>2
<1>14. CompleteAtEnd'
  BY <1>11 DEF CompleteAtEnd
<1> QED
  BY <1>7, <1>12, <1>13, <1>14 DEF BodyInv

\* Any read:maxLength: of an opened body.
LEMMA ReadBody == BodyInv /\ Read => BodyInv'
<1> SUFFICES ASSUME BodyInv, Read PROVE BodyInv'
  OBVIOUS
<1>1. phase # "new"
  BY DEF Read
<1>2. CASE ReadNothing
  BY <1>1, <1>2, NothingBody
<1>3. CASE ReadEnd
  BY <1>1, <1>3, EndBody
<1>4. CASE ReadError
  BY <1>1, <1>4, ErrorBody
<1>5. CASE \E n \in 1..MaxLen : ReadData(n)
  BY <1>1, <1>5, DataBody
<1> QED
  BY <1>2, <1>3, <1>4, <1>5 DEF Read

\* close makes the body useless and changes nothing that was sent.
LEMMA CloseBody == BodyInv /\ Close => BodyInv'
<1> SUFFICES ASSUME BodyInv, Close PROVE BodyInv'
  OBVIOUS
<1>1. BodyTypeOK'
  BY DEF BodyInv, BodyTypeOK, Close
<1>2. ReadsOn' /\ InOrder' /\ CompleteAtEnd'
  BY DEF BodyInv, BodyTypeOK, ReadsOn, InOrder, CompleteAtEnd, Complete, Close
<1> QED
  BY <1>1, <1>2 DEF BodyInv

\* A retry makes a body that starts again from the first byte (createConnection,
\* connection:needNewBodyStream:).
LEMMA NewBodyBody == Wrapped = {} /\ BodyInv /\ NewBody => BodyInv'
<1> SUFFICES ASSUME Wrapped = {}, BodyInv, NewBody PROVE BodyInv'
  OBVIOUS
<1>1. /\ pos' = [i \in Stream |-> 0]
      /\ got' = [i \in Stream |-> 0]
      /\ status' = [i \in Stream |-> "notOpen"]
  BY DEF NewBody
<1>2. BodyTypeOK'
  BY <1>1, BodyAssumption DEF BodyInv, BodyTypeOK, NewBody
<1>3. ReadsOn' /\ InOrder' /\ CompleteAtEnd'
  BY <1>1 DEF ReadsOn, InOrder, CompleteAtEnd, Complete, NewBody
<1> QED
  BY <1>2, <1>3 DEF BodyInv

\* The invariant holds at every moment of every request.
LEMMA BodyInvariant == Wrapped = {} => (BodySpec => []BodyInv)
<1> SUFFICES ASSUME Wrapped = {} PROVE BodySpec => []BodyInv
  OBVIOUS
<1>1. BodyInit => BodyInv
  BY InitBody
<1>2. BodyInv /\ [BodyNext]_bodyVars => BodyInv'
  <2> SUFFICES ASSUME BodyInv, [BodyNext]_bodyVars PROVE BodyInv'
    OBVIOUS
  <2>1. CASE Open
    BY <2>1, OpenBody
  <2>2. CASE Reopen
    BY <2>2, ReopenBody
  <2>3. CASE Read
    BY <2>3, ReadBody
  <2>4. CASE Close
    BY <2>4, CloseBody
  <2>5. CASE NewBody
    BY <2>5, NewBodyBody
  <2>6. CASE UNCHANGED bodyVars
    BY <2>6 DEF bodyVars, BodyInv, BodyTypeOK, ReadsOn, InOrder, CompleteAtEnd, Complete
  <2> QED
    BY <2>1, <2>2, <2>3, <2>4, <2>5, <2>6 DEF BodyNext
<1> QED
  BY <1>1, <1>2, PTL DEF BodySpec

\* Bodies made of data and files are sent in order and completely before their
\* end is reported, on every retry, and streamStatus does not report the end
\* earlier (read:maxLength:, streamStatus, applyParameters:onRequest:).
THEOREM BodySentCompletely ==
    Wrapped = {} => (BodySpec => []BodySafe)
<1> SUFFICES ASSUME Wrapped = {} PROVE BodySpec => []BodySafe
  OBVIOUS
<1>1. BodyInv => BodyTypeOK /\ InOrder /\ CompleteAtEnd
  BY DEF BodyInv
<1>2. BodyInv => EndReportedAtEnd
  <2> SUFFICES ASSUME BodyInv, StreamStatus = "atEnd" PROVE Complete
    BY DEF EndReportedAtEnd
  <2>1. current = "set" /\ index \in Stream /\ status[index] = "atEnd" /\ ~(index < N)
    BY DEF StreamStatus, BodyInv, BodyTypeOK
  <2>2. \A i \in Stream : i < index \/ i = index
    BY <2>1, BodyAssumption DEF Stream
  <2> QED
    BY <2>1, <2>2 DEF BodyInv, ReadsOn, Complete
<1>3. BodyInv => BodySafe
  BY <1>1, <1>2 DEF BodySafe
<1> QED
  BY <1>3, BodyInvariant, PTL

=============================================================================
