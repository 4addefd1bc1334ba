-------------------------- MODULE MCCourseScreens --------------------------
(* Two courses and three users: the second is in no course, in one or in   *)
(* both, and teaches where he learns, elsewhere, or nowhere. The ids of     *)
(* courses, enrolments, contexts and modules overlap.                       *)
EXTENDS CourseScreens

SiteWith(enrolled, roles) ==
    [course |-> {[id |-> 1, category |-> 1, format |-> "weeks"],
                 [id |-> 2, category |-> 1, format |-> "topics"]},
     enrol |-> {[id |-> 1, courseid |-> 1], [id |-> 2, courseid |-> 2],
                [id |-> 3, courseid |-> 1]},
     enrolled |-> {[enrolid |-> 1, userid |-> 1], [enrolid |-> 2, userid |-> 1],
                   [enrolid |-> 2, userid |-> 3]} \cup enrolled,
     context |-> {[id |-> 1, contextlevel |-> CourseLevel, instanceid |-> 2],
                  [id |-> 2, contextlevel |-> CourseLevel, instanceid |-> 1],
                  [id |-> 3, contextlevel |-> ModuleLevel, instanceid |-> 1],
                  [id |-> 4, contextlevel |-> ModuleLevel, instanceid |-> 2]},
     roles |-> {[userid |-> 1, roleid |-> 5, contextid |-> 2],
                [userid |-> 3, roleid |-> 3, contextid |-> 1]} \cup roles,
     named |-> {3, 5},
     sections |-> {[id |-> 1, course |-> 1, section |-> 0],
                   [id |-> 2, course |-> 2, section |-> 1],
                   [id |-> 3, course |-> 1, section |-> 1]},
     assign |-> {[id |-> 1, course |-> 1], [id |-> 2, course |-> 2]},
     modules |-> {[id |-> 1, course |-> 1, module |-> ResourceModule, instance |-> 1],
                  [id |-> 2, course |-> 2, module |-> ResourceModule, instance |-> 2],
                  [id |-> 3, course |-> 2, module |-> AssignModule, instance |-> 2],
                  [id |-> 4, course |-> 1, module |-> AssignModule, instance |-> 1]},
     resource |-> {1, 2}]

MCSites ==
    {SiteWith(enrolled, roles) :
        enrolled \in SUBSET {[enrolid |-> e, userid |-> 2] : e \in 2 .. 3},
        roles \in {{[userid |-> 2, roleid |-> 3, contextid |-> 1],
                    [userid |-> 2, roleid |-> 5, contextid |-> 2]},
                   {[userid |-> 2, roleid |-> 3, contextid |-> 2]}}}
============================================================================
