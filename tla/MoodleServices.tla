-------------------------- MODULE MoodleServices --------------------------
(***************************************************************************)
(* The queries of the services behind the screens of courses               *)
(* (src/mobile-learning-tc/*.php), as relations over Moodle's tables.      *)
(*                                                                         *)
(* A table is a set of records with the columns that the queries use, and  *)
(* site is the record of the tables. A query without DISTINCT gives one    *)
(* row for each combination of rows that it joins: such a result is a set  *)
(* of records with the keys of what was joined.                            *)
(*                                                                         *)
(* Ids are positive numbers, counted in each table for itself, so that a   *)
(* course and a module may have the same id. MySQL compares a parameter    *)
(* such as 'null' with an id as the number 0, which is nobody's id.        *)
(***************************************************************************)
EXTENDS Naturals, FiniteSets

Null == 0              \* the parameter of a screen that forgot its course
CourseLevel == 50      \* contextlevel of a course
ModuleLevel == 70      \* contextlevel of an activity or resource
TeacherRoles == {3, 4}
AssignModule == 1      \* mdl_modules.id of assign
ResourceModule == 17   \* mdl_modules.id of resource

Ids == Nat \ {0}
EnrolRow    == [id: Ids, courseid: Ids]
EnrolledRow == [enrolid: Ids, userid: Ids]
ContextRow  == [id: Ids, contextlevel: Ids, instanceid: Ids]
RoleRow     == [userid: Ids, roleid: Ids, contextid: Ids]
CourseRow   == [id: Ids, category: Ids, format: {"weeks", "topics"}]
OfCourseRow == [id: Ids, course: Ids]             \* mdl_assign
SectionRow  == [id: Ids, course: Ids, section: Nat]
ModuleRow   == [id: Ids, course: Ids, module: Ids, instance: Ids]

Sites == [course: SUBSET CourseRow, enrol: SUBSET EnrolRow,
          enrolled: SUBSET EnrolledRow, context: SUBSET ContextRow,
          roles: SUBSET RoleRow, named: SUBSET Ids,
          sections: SUBSET SectionRow, assign: SUBSET OfCourseRow,
          modules: SUBSET ModuleRow, resource: SUBSET Ids]

\* mdl_enrol, mdl_course and mdl_user_enrolments joined: how u is in a course
Enrolments(site, u) ==
    {e \in site.enrol : /\ \E c \in site.course : c.id = e.courseid
                        /\ \E n \in site.enrolled : n.enrolid = e.id /\ n.userid = u}

----------------------------------------------------------------------------
(* Lists of courses: userCourse.php and categoryCourse.php. *)

\* The assignments of a teacher's role in the context of a course
Teachings(site, course) ==
    {r \in site.roles :
        /\ r.roleid \in TeacherRoles
        /\ \E x \in site.context : /\ x.id = r.contextid
                                   /\ x.contextlevel = CourseLevel
                                   /\ x.instanceid = course}

\* Changed form: an inner join
WithTeachers_InnerJoin(site, course) ==
    {[teacherid |-> r.userid, roleid |-> r.roleid] : r \in Teachings(site, course)}

\* The left join with the teachers: a course without one keeps a row
WithTeachers(site, course) ==
    IF Teachings(site, course) = {}
    THEN {[teacherid |-> Null, roleid |-> Null]}
    ELSE {[teacherid |-> r.userid, roleid |-> r.roleid] : r \in Teachings(site, course)}

\* One row for each way in which u is in the course, and each teacher of it
UserCourse(site, u) ==
    UNION {{[courseid |-> e.courseid, enrolid |-> e.id, teacher |-> t] :
               t \in WithTeachers(site, e.courseid)} : e \in Enrolments(site, u)}

CategoryCourse(site, category) ==
    UNION {{[courseid |-> c.id, teacher |-> t] : t \in WithTeachers(site, c.id)} :
              c \in {d \in site.course : d.category = category}}

----------------------------------------------------------------------------
(* The tabs of a course. *)

\* courseParticipant.php: whoever is in the course, with the roles that he has
\* anywhere, as far as some course gives them a name (mdl_role_names)
CourseParticipant(site, course, me) ==
    {[userid |-> r.userid, roleid |-> r.roleid] :
        r \in {s \in site.roles :
                  /\ s.userid # me
                  /\ s.roleid \in site.named
                  /\ \E e \in Enrolments(site, s.userid) : e.courseid = course}}

\* courseWeeklyFormat.php: a row for each week, and each way in which u is in it;
\* section 0 is the course's head and no week
CourseWeekly(site, course, u) ==
    {[sectionid |-> p[1].id, enrolid |-> p[2].id] :
        p \in {q \in site.sections \X Enrolments(site, u) :
                  /\ q[1].course = course
                  /\ q[1].section > 0
                  /\ q[2].courseid = course
                  /\ \E c \in site.course : c.id = course /\ c.format = "weeks"}}

\* assignmentCourse.php and, word for word, courseForum.php
AssignmentCourse(site, course) ==
    {a.id : a \in {b \in site.assign :
                      b.course = course /\ \E c \in site.course : c.id = course}}

\* courseQuiz.php, which asks for the modules of assign
CourseQuiz(site, course) ==
    {m.id : m \in {n \in site.modules :
                      /\ n.course = course
                      /\ \E c \in site.course : c.id = course
                      /\ n.module = AssignModule
                      /\ \E a \in site.assign : a.id = n.instance}}

\* resourceCourse.php
ResourceCourse(site, course) ==
    {m.id : m \in {n \in site.modules :
                      /\ n.course = course
                      /\ \E c \in site.course : c.id = course
                      /\ n.module = ResourceModule
                      /\ n.instance \in site.resource}}

===========================================================================
